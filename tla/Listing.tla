------------------------------ MODULE Listing ------------------------------
(***************************************************************************)
(* GET /kv at a proxy: one goroutine per node opens the node's own listing *)
(* (LocalKeys), scans it line by line and copies the lines into the one    *)
(* response, behind a mutex.  Meanwhile keys are created, nodes die and    *)
(* come back, and streams break where they please, inside a line too: a    *)
(* dead node, a lost connection, or the timeout of the proxy's http.Client, *)
(* which covers the reading of a body.                                     *)
(*                                                                         *)
(* The goroutine of node n is at pc[n]:                                    *)
(*   call     LocalKeys                                                    *)
(*   scan     scanner.Scan()                                               *)
(*   write    mu.Lock(); w.Write(line)              writeLine              *)
(*   newline  w.Write("\n"); mu.Unlock()                                   *)
(*   done     wg.Done()                                                    *)
(*                                                                         *)
(* How a node walks its store is in Store; here it lists every key that it *)
(* had at the start and perhaps some created since, each once.             *)
(***************************************************************************)
EXTENDS Naturals, Sequences, FiniteSets

CONSTANTS
    Key, NodeID,
    Owner,          \* Owner[k]: the node that has k
    Mismatched,     \* the nodes with another partition count, which answer 421
    Nobody,         \* nobody holds the mutex
    Buffer,         \* bound: lines between a node and its goroutine
    MayCrash,       \* the nodes that die in this instance
    MayBreak        \* whether connections break

ASSUME ListingAssumption ==
    /\ Owner \in [Key -> NodeID] /\ Mismatched \subseteq NodeID
    /\ Nobody \notin NodeID /\ Buffer \in Nat \ {0} /\ MayBreak \in BOOLEAN

VARIABLES
    keys,       \* keys[n]: the keys in the store of n
    up,         \* up[n]: n is running
    conn,       \* conn[n]: the connection of the listing: none, open, eof, broken
    listed,     \* listed[n]: the keys n's handler has encoded
    pipe,       \* pipe[n]: its lines that the goroutine has not scanned
    pc, line,   \* the goroutine of n, and the line it is writing
    mu,         \* who holds the mutex
    out,        \* the response: texts and newlines, in the order written
    must        \* history: must[n]: the keys of n that the listing may not miss

vars == <<keys, up, conn, listed, pipe, pc, line, mu, out, must>>
nodeVars  == <<keys, up>>
proxyVars == <<pc, line, mu, out>>

KeyLine(k, n)    == [text |-> "key", key |-> k, node |-> n]
ErrorLine(n)     == [text |-> "error", node |-> n]
Fragment(n)      == [text |-> "fragment", node |-> n]    \* a line that was cut
Newline          == [text |-> "newline"]
NoLine           == Newline
Held(n) == {k \in Key : Owner[k] = n}

Init ==
    /\ keys   = [n \in NodeID |-> {}]
    /\ up     = [n \in NodeID |-> TRUE]
    /\ conn   = [n \in NodeID |-> "none"]
    /\ listed = [n \in NodeID |-> {}]
    /\ pipe   = [n \in NodeID |-> <<>>]
    /\ pc     = [n \in NodeID |-> "idle"]
    /\ line   = [n \in NodeID |-> NoLine]
    /\ mu     = Nobody
    /\ out    = <<>>
    /\ must   = [n \in NodeID |-> {}]

\* listKeys of the proxy: 200 is committed and every node gets a goroutine.
Begin ==
    /\ \A n \in NodeID : pc[n] = "idle"
    /\ pc'   = [n \in NodeID |-> "call"]
    /\ must' = keys
    /\ UNCHANGED <<keys, up, conn, listed, pipe, line, mu, out>>

Ended == \A n \in NodeID : pc[n] = "done"
-----------------------------------------------------------------------------
(* The node.                                                               *)

\* Somebody writes a new key.
Create(k) ==
    LET n == Owner[k] IN
    /\ up[n] /\ k \notin keys[n]
    /\ keys' = [keys EXCEPT ![n] = @ \cup {k}]
    /\ UNCHANGED <<up, conn, listed, pipe, proxyVars, must>>

\* listKeys of the node encodes one more key.
Emit(n) ==
    /\ conn[n] = "open" /\ up[n] /\ Len(pipe[n]) < Buffer
    /\ \E k \in keys[n] \ listed[n] :
          /\ listed' = [listed EXCEPT ![n] = @ \cup {k}]
          /\ pipe'   = [pipe EXCEPT ![n] = Append(@, KeyLine(k, n))]
    /\ UNCHANGED <<nodeVars, conn, proxyVars, must>>

\* It has walked the store and returns.
EndOfKeys(n) ==
    /\ conn[n] = "open" /\ up[n] /\ must[n] \subseteq listed[n]
    /\ conn' = [conn EXCEPT ![n] = "eof"]
    /\ UNCHANGED <<nodeVars, listed, pipe, proxyVars, must>>

\* The stream breaks: of what was sent some lines arrive, and perhaps the beginning
\* of the next.
Break(n) ==
    /\ conn[n] = "open"
    /\ conn' = [conn EXCEPT ![n] = "broken"]
    /\ \E i \in 0..Len(pipe[n]) :
          \/ pipe' = [pipe EXCEPT ![n] = SubSeq(@, 1, i)]
          \/ /\ i < Len(pipe[n])
             /\ pipe' = [pipe EXCEPT ![n] = Append(SubSeq(@, 1, i), Fragment(n))]

\* The connection is lost.
Disconnect(n) ==
    /\ MayBreak
    /\ Break(n)
    /\ UNCHANGED <<nodeVars, listed, proxyVars, must>>

\* Mutant: the client has no timeout.
NoTimeOut(n) == FALSE /\ UNCHANGED vars

\* http.Client.Timeout passes before the end of the body.
TimeOut(n) ==
    /\ Break(n)
    /\ UNCHANGED <<nodeVars, listed, proxyVars, must>>

\* The node dies; a listing of it that has not begun owes nothing for it.
Crash(n) ==
    /\ n \in MayCrash /\ up[n]
    /\ up'   = [up EXCEPT ![n] = FALSE]
    /\ keys' = [keys EXCEPT ![n] = {}]
    /\ must' = IF conn[n] = "none" THEN [must EXCEPT ![n] = {}] ELSE must
    /\ Break(n) \/ (conn[n] # "open" /\ UNCHANGED <<conn, pipe>>)
    /\ UNCHANGED <<listed, proxyVars>>

Restart(n) ==
    /\ ~up[n]
    /\ up' = [up EXCEPT ![n] = TRUE]
    /\ UNCHANGED <<keys, conn, listed, pipe, proxyVars, must>>
-----------------------------------------------------------------------------
(* The goroutine of the proxy: streamNode.                                 *)

\* LocalKeys returns a body, or an error when the node cannot be reached in time
\* or does not answer 200.
Call(n) ==
    /\ pc[n] = "call"
    /\ \/ /\ up[n] /\ n \notin Mismatched
          /\ pc'   = [pc EXCEPT ![n] = "scan"]
          /\ conn' = [conn EXCEPT ![n] = "open"]
          /\ must' = [must EXCEPT ![n] = keys[n]]
          /\ UNCHANGED line
       \/ /\ ~up[n] \/ n \in Mismatched \/ MayBreak
          /\ pc'   = [pc EXCEPT ![n] = "write"]
          /\ line' = [line EXCEPT ![n] = ErrorLine(n)]
          /\ conn' = [conn EXCEPT ![n] = "broken"]
          /\ UNCHANGED must
    /\ UNCHANGED <<nodeVars, listed, pipe, mu, out>>

\* scanner.Scan() returns a line; what is left before an error counts as one.
Scan(n) ==
    /\ pc[n] = "scan" /\ pipe[n] # <<>>
    /\ line' = [line EXCEPT ![n] = Head(pipe[n])]
    /\ pipe' = [pipe EXCEPT ![n] = Tail(@)]
    /\ pc'   = [pc EXCEPT ![n] = "write"]
    /\ UNCHANGED <<nodeVars, conn, listed, mu, out, must>>

\* Mutant: the end of the scan is taken for the end of the keys.
StopQuietly(n) ==
    /\ pc[n] = "scan" /\ pipe[n] = <<>> /\ conn[n] \in {"eof", "broken"}
    /\ pc' = [pc EXCEPT ![n] = "done"]
    /\ UNCHANGED <<nodeVars, conn, listed, pipe, line, mu, out, must>>

\* Mutant: a node whose stream broke is asked again.
StopOrAskAgain(n) ==
    /\ pc[n] = "scan" /\ pipe[n] = <<>> /\ conn[n] \in {"eof", "broken"}
    /\ pc' = [pc EXCEPT ![n] = IF conn[n] = "broken" THEN "call" ELSE "done"]
    /\ listed' = [listed EXCEPT ![n] = {}]
    /\ UNCHANGED <<nodeVars, conn, pipe, line, mu, out, must>>

\* It returns false: a clean end, or scanner.Err(), which becomes one more line.
Stop(n) ==
    /\ pc[n] = "scan" /\ pipe[n] = <<>> /\ conn[n] \in {"eof", "broken"}
    /\ IF conn[n] = "broken"
       THEN /\ pc'   = [pc EXCEPT ![n] = "write"]
            /\ line' = [line EXCEPT ![n] = ErrorLine(n)]
       ELSE /\ pc'   = [pc EXCEPT ![n] = "done"]
            /\ UNCHANGED line
    /\ UNCHANGED <<nodeVars, conn, listed, pipe, mu, out, must>>

\* Mutant: there is no mutex.
WriteUnlocked(n) ==
    /\ pc[n] = "write"
    /\ out' = Append(out, line[n])
    /\ pc'  = [pc EXCEPT ![n] = "newline"]
    /\ UNCHANGED <<nodeVars, conn, listed, pipe, line, mu, must>>

\* writeLine takes the mutex and writes the text,
Write(n) ==
    /\ pc[n] = "write" /\ mu = Nobody
    /\ mu'  = n
    /\ out' = Append(out, line[n])
    /\ pc'  = [pc EXCEPT ![n] = "newline"]
    /\ UNCHANGED <<nodeVars, conn, listed, pipe, line, must>>

\* and then the newline.  An error line is the goroutine's last.
WriteNewline(n) ==
    /\ pc[n] = "newline"
    /\ out' = Append(out, Newline)
    /\ mu'  = Nobody
    /\ pc'  = [pc EXCEPT ![n] = IF line[n] = ErrorLine(n) THEN "done" ELSE "scan"]
    /\ line' = [line EXCEPT ![n] = NoLine]
    /\ UNCHANGED <<nodeVars, conn, listed, pipe, must>>

Goroutine(n) == Call(n) \/ Scan(n) \/ Stop(n) \/ Write(n) \/ WriteNewline(n)

Next ==
    \/ Begin
    \/ \E k \in Key : Create(k)
    \/ \E n \in NodeID :
          \/ Emit(n) \/ EndOfKeys(n)
          \/ Disconnect(n) \/ TimeOut(n) \/ Crash(n) \/ Restart(n)
          \/ Goroutine(n)

Spec == Init /\ [][Next]_vars

\* The proxy's goroutines run and its timeouts fire; a node may hang.  The mutex
\* is granted to each in turn (sync.Mutex starves nobody).
FairSpec ==
    /\ Spec
    /\ \A n \in NodeID : SF_vars(Goroutine(n)) /\ WF_vars(TimeOut(n))
-----------------------------------------------------------------------------
Lines == [text : {"key"}, key : Key, node : NodeID]
         \cup [text : {"error", "fragment"}, node : NodeID] \cup {Newline}

\* The node that a key line names has encoded that key.
Encoded(l) == l.text = "key" => l.key \in listed[l.node]

\* A node encodes only keys it owns; every key line, in the stream of a node, in the
\* hand of its goroutine or in the response, is of a key that the node it names has
\* encoded (K4: "attributed to the node that holds it"); and the mutex is held exactly
\* between a text and its newline.
TypeOK ==
    /\ pipe \in [NodeID -> Seq(Lines)] /\ out \in Seq(Lines)
    /\ \A n \in NodeID :
          /\ keys[n] \cup must[n] \cup listed[n] \subseteq Held(n)
          /\ \A i \in DOMAIN pipe[n] : pipe[n][i].node = n /\ Encoded(pipe[n][i])
          /\ pc[n] = "write" => line[n].node = n /\ Encoded(line[n])
          /\ mu = n <=> pc[n] = "newline"
    /\ \A i \in DOMAIN out : Encoded(out[i])

Listed(k, n) == {i \in DOMAIN out : out[i] = KeyLine(k, n)}
Reported(n)  == \E i \in DOMAIN out : out[i] = ErrorLine(n)

\* When the response ends, every node is fully listed or named in an error line:
\* a client that finds no error line has every key that was there throughout, and
\* one that finds some has those of all the other nodes (K10; openapi.yaml: "the
\* client must check for it").
NothingMissing ==
    Ended => \A n \in NodeID :
                Reported(n) \/ \A k \in must[n] : Listed(k, n) # {}

\* No key appears twice, from one node or from two, whatever broke and came back
\* (K4: "exactly once").
ListedOnce ==
    \A i, j \in DOMAIN out :
        out[i].text = "key" /\ out[j].text = "key" /\ out[i].key = out[j].key => i = j

\* Each text of the response is followed by its own newline: lines of different
\* nodes never run into one another.
LinesIntact == \A i \in DOMAIN out : out[i] = Newline <=> i % 2 = 0

\* The listing ends, also when nodes hang or die: no goroutine waits for ever for
\* a node or for the mutex.
ListingEnds == pc # [n \in NodeID |-> "idle"] ~> Ended
-----------------------------------------------------------------------------
(* What the repository says of the listing and the code does not do.       *)

\* "surviving nodes' keys stream, then {"error":"node-3 unreachable"} as the final
\* line" (test-plan.md, K10): no key comes after an error line.
ErrorLineIsFinal ==
    \A i, j \in DOMAIN out : out[i].text = "error" /\ i < j => out[j].text # "key"

\* "each line parses as JSON with exactly key and node" (test-plan.md, K6), or is
\* an ErrorLine (openapi.yaml).
EveryLineParses == \A i \in DOMAIN out : out[i].text # "fragment"

\* "a deadline would truncate a long listing mid-stream" (the binaries, on why
\* there is no WriteTimeout): nodes that are up and connected are listed in full.
HealthyNodesListed ==
    Ended => \A n \in NodeID \ Mismatched : ~Reported(n)
=============================================================================
