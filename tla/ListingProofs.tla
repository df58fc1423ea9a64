--------------------------- MODULE ListingProofs ---------------------------
(***************************************************************************)
(* Theorems about Listing, for every set of nodes and keys, every buffer   *)
(* and every pattern of crashes and broken streams.                        *)
(*                                                                         *)
(* The invariant follows each key line from the node that encodes it,      *)
(* through the stream and the goroutine, into the response (Accounted),    *)
(* and says what each goroutine's place means for its node (Phase).        *)
(***************************************************************************)
EXTENDS Listing, TLAPS

\* The line l occurs in q; it occurs at most once.
Has(q, l)  == \E i \in DOMAIN q : q[i] = l
Once(q, l) == \A i, j \in DOMAIN q : q[i] = l /\ q[j] = l => i = j

\* The lines node n and its goroutine can produce.
NodeLines(n) == {KeyLine(k, n) : k \in Key} \cup {ErrorLine(n), Fragment(n)}

\* The basic part of TypeOK.
Basics ==
    /\ \A n \in NodeID : /\ keys[n] \subseteq Held(n) /\ must[n] \subseteq Held(n)
                         /\ listed[n] \subseteq Held(n)
    /\ pipe \in [NodeID -> Seq(Lines)] /\ out \in Seq(Lines)
    /\ \A n \in NodeID : mu = n <=> pc[n] = "newline"

Types ==
    /\ keys \in [NodeID -> SUBSET Key] /\ must \in [NodeID -> SUBSET Key]
    /\ up \in [NodeID -> BOOLEAN] /\ listed \in [NodeID -> SUBSET Key]
    /\ conn \in [NodeID -> {"none", "open", "eof", "broken"}]
    /\ pc \in [NodeID -> {"idle", "call", "scan", "write", "newline", "done"}]
    /\ pipe \in [NodeID -> Seq(Lines)] /\ line \in [NodeID -> Lines] /\ out \in Seq(Lines)
    /\ \A n \in NodeID :
          /\ \A i \in DOMAIN pipe[n] : pipe[n][i] \in NodeLines(n)
          /\ pc[n] \in {"write", "newline"} => line[n] \in NodeLines(n)

\* Texts and newlines alternate, and whoever holds the mutex owes a newline.
Whole ==
    /\ LinesIntact
    /\ mu \in NodeID \cup {Nobody}
    /\ mu = Nobody <=> Len(out) % 2 = 0

InHand(n, l) == pc[n] = "write" /\ line[n] = l

\* A line l of n for the key k, once encoded, is in the stream, in the goroutine's hand
\* or in the response, as long as the stream is whole, and never in two of them.
Tracked(n, k, l) ==
    /\ Once(out, l) /\ Once(pipe[n], l)
    /\ Has(pipe[n], l) => ~Has(out, l) /\ ~InHand(n, l)
    /\ InHand(n, l) => ~Has(out, l)
    /\ Has(out, l) \/ Has(pipe[n], l) \/ InHand(n, l) => k \in listed[n]
    /\ conn[n] \in {"open", "eof"} /\ k \in listed[n] =>
          Has(out, l) \/ Has(pipe[n], l) \/ InHand(n, l)

Accounted == \A n \in NodeID, k \in Key : Tracked(n, k, KeyLine(k, n))

\* What a goroutine's place says of its node's stream.
PhaseOf(n) ==
    /\ conn[n] = "none" <=> pc[n] \in {"idle", "call"}
    /\ conn[n] = "none" => listed[n] = {} /\ pipe[n] = <<>>
    /\ conn[n] = "eof" => must[n] \subseteq listed[n]
    /\ pc[n] = "newline" => Has(out, line[n])
    /\ pc[n] = "done" => Has(out, ErrorLine(n)) \/ (conn[n] = "eof" /\ pipe[n] = <<>>)

Phase == \A n \in NodeID : PhaseOf(n)

LInv == Basics /\ Types /\ Whole /\ Accounted /\ Phase
-----------------------------------------------------------------------------
(* Sequences of lines.                                                     *)

\* What is in a list to which x is appended.
LEMMA Appended ==
    ASSUME NEW S, NEW q \in Seq(S), NEW x \in S, NEW l
    PROVE  /\ Append(q, x) \in Seq(S)
           /\ Has(Append(q, x), l) <=> Has(q, l) \/ l = x
           /\ Once(q, l) /\ (l = x => ~Has(q, l)) => Once(Append(q, x), l)
<1> DEFINE a == Append(q, x)
<1>1. /\ a \in Seq(S) /\ DOMAIN a = 1..(Len(q) + 1) /\ DOMAIN q = 1..Len(q) /\ Len(q) \in Nat
      /\ a[Len(q) + 1] = x /\ \A i \in 1..Len(q) : a[i] = q[i]
  OBVIOUS
<1> HIDE DEF a
<1>2. \A i \in DOMAIN a : i = Len(q) + 1 \/ i \in DOMAIN q
  BY <1>1
<1>3. DOMAIN q \subseteq DOMAIN a /\ Len(q) + 1 \in DOMAIN a
  BY <1>1
<1>4. Has(a, l) <=> Has(q, l) \/ l = x
  BY <1>1, <1>2, <1>3 DEF Has
<1>5. Once(q, l) /\ (l = x => ~Has(q, l)) => Once(a, l)
  BY <1>1, <1>2, <1>3 DEF Has, Once
<1> QED BY <1>1, <1>4, <1>5 DEF a

\* scanner.Scan takes the first line.
LEMMA Scanned ==
    ASSUME NEW S, NEW q \in Seq(S), q # <<>>, NEW l
    PROVE  /\ Tail(q) \in Seq(S) /\ Head(q) \in S
           /\ Has(q, l) <=> Has(Tail(q), l) \/ l = Head(q)
           /\ Once(q, l) => Once(Tail(q), l) /\ (l = Head(q) => ~Has(Tail(q), l))
           /\ Has(q, Head(q)) /\ \A i \in DOMAIN Tail(q) : Has(q, Tail(q)[i])
<1> DEFINE t == Tail(q)
           h == Head(q)
<1>1. /\ t \in Seq(S) /\ h \in S /\ Len(q) \in Nat /\ Len(q) > 0
      /\ DOMAIN q = 1..Len(q) /\ DOMAIN t = 1..(Len(q) - 1)
      /\ h = q[1] /\ \A i \in 1..(Len(q) - 1) : t[i] = q[i + 1]
  OBVIOUS
<1> HIDE DEF t, h
<1>2. \A i \in DOMAIN q : i = 1 \/ (i - 1 \in DOMAIN t /\ q[i] = t[i - 1])
  <2> SUFFICES ASSUME NEW i \in DOMAIN q, i # 1 PROVE i - 1 \in DOMAIN t /\ q[i] = t[i - 1]
    OBVIOUS
  <2>1. i - 1 \in 1..(Len(q) - 1) /\ (i - 1) + 1 = i
    BY <1>1
  <2> QED BY <2>1, <1>1
<1>3. 1 \in DOMAIN q /\ \A i \in DOMAIN t : i + 1 \in DOMAIN q /\ i + 1 # 1 /\ t[i] = q[i + 1]
  BY <1>1
<1>4. Has(q, l) <=> Has(t, l) \/ l = h
  BY <1>1, <1>2, <1>3 DEF Has
<1>5. Once(q, l) => Once(t, l)
  <2> SUFFICES ASSUME Once(q, l), NEW i \in DOMAIN t, NEW j \in DOMAIN t, t[i] = l, t[j] = l
               PROVE  i = j
    BY DEF Once
  <2>1. i + 1 = j + 1
    BY <1>3 DEF Once
  <2> QED BY <2>1, <1>1
<1>6. Once(q, l) /\ l = h => ~Has(t, l)
  BY <1>1, <1>3 DEF Once, Has
<1>7. Has(q, h) /\ \A i \in DOMAIN t : Has(q, t[i])
  BY <1>1, <1>3 DEF Has
<1> QED BY <1>1, <1>4, <1>5, <1>6, <1>7 DEF t, h

\* What arrives of a stream that breaks.
LEMMA Cut ==
    ASSUME NEW S, NEW q \in Seq(S), NEW i \in 0..Len(q), NEW l
    PROVE  /\ SubSeq(q, 1, i) \in Seq(S)
           /\ Has(SubSeq(q, 1, i), l) => Has(q, l)
           /\ Once(q, l) => Once(SubSeq(q, 1, i), l)
<1> DEFINE a == SubSeq(q, 1, i)
<1>1. /\ a \in Seq(S) /\ DOMAIN a = 1..i /\ DOMAIN q = 1..Len(q) /\ Len(q) \in Nat
      /\ \A j \in 1..i : a[j] = q[j]
  OBVIOUS
<1> HIDE DEF a
<1>2. DOMAIN a \subseteq DOMAIN q
  BY <1>1
<1> QED
  <2>1. Has(a, l) => Has(q, l)
    BY <1>1, <1>2 DEF Has
  <2>2. Once(q, l) => Once(a, l)
    BY <1>1, <1>2 DEF Once
  <2> QED BY <2>1, <2>2, <1>1 DEF a

\* Lines of different kinds, keys and nodes are different.
LEMMA LineFacts ==
    /\ Newline \in Lines
    /\ \A n \in NodeID :
          /\ ErrorLine(n) \in Lines /\ Fragment(n) \in Lines
          /\ \A k \in Key : KeyLine(k, n) \in Lines
          /\ Newline \notin NodeLines(n)
          /\ \A k \in Key : \A o : /\ KeyLine(k, n) # Newline
                                  /\ KeyLine(k, n) # ErrorLine(o) /\ KeyLine(k, n) # Fragment(o)
          /\ \A k \in Key, j \in Key, o \in NodeID :
                KeyLine(k, n) = KeyLine(j, o) => k = j /\ n = o
          /\ \A k \in Key, o \in NodeID : KeyLine(k, n) \in NodeLines(o) => n = o
  BY DEF Lines, NodeLines, KeyLine, ErrorLine, Fragment, Newline

\* A node none of whose state changes, while the response gains no key line of it and
\* loses nothing.
LEMMA Elsewhere ==
    ASSUME LInv, NEW n \in NodeID,
           pipe'[n] = pipe[n], listed'[n] = listed[n], conn'[n] = conn[n], pc'[n] = pc[n],
           line'[n] = line[n], must'[n] = must[n],
           \A l : Has(out, l) => Has(out', l),
           \A k \in Key : /\ Has(out', KeyLine(k, n)) => Has(out, KeyLine(k, n))
                          /\ Once(out', KeyLine(k, n))
    PROVE  PhaseOf(n)' /\ \A k \in Key : Tracked(n, k, KeyLine(k, n))'
<1>1. PhaseOf(n)'
  BY DEF LInv, Phase, PhaseOf
<1>2. ASSUME NEW k \in Key PROVE Tracked(n, k, KeyLine(k, n))'
  <2> DEFINE l == KeyLine(k, n)
  <2>1. Tracked(n, k, l) /\ (Has(out', l) <=> Has(out, l)) /\ Once(out', l)
    BY DEF LInv, Accounted
  <2>2. InHand(n, l)' <=> InHand(n, l)
    BY DEF InHand, KeyLine
  <2> HIDE DEF l
  <2>3. Tracked(n, k, l)'
    BY <2>1, <2>2 DEF Tracked
  <2> QED BY <2>3 DEF l
<1> QED BY <1>1, <1>2

\* The same when the response does not change at all.
LEMMA Quiet ==
    ASSUME LInv, NEW n \in NodeID, out' = out,
           pipe'[n] = pipe[n], listed'[n] = listed[n], conn'[n] = conn[n], pc'[n] = pc[n],
           line'[n] = line[n], must'[n] = must[n]
    PROVE  PhaseOf(n)' /\ \A k \in Key : Tracked(n, k, KeyLine(k, n))'
<1>1. \A k \in Key : Once(out, KeyLine(k, n))
  BY DEF LInv, Accounted, Tracked
<1> QED BY <1>1, Elsewhere

\* Begin: the goroutines start.
LEMMA BeginKeeps == ASSUME LInv, Begin PROVE LInv'
<1> USE DEF LInv, Types
<1>u. /\ \A n \in NodeID : pc[n] = "idle" /\ pc'[n] = "call"
      /\ must' = keys /\ UNCHANGED <<keys, up, conn, listed, pipe, line, mu, out>>
      /\ pc' = [n \in NodeID |-> "call"]
  BY DEF Begin
<1>1. Basics'
  BY <1>u DEF Basics
<1>2. Types'
  BY <1>u
<1>3. Whole'
  BY <1>u DEF Whole, LinesIntact
<1>4. ASSUME NEW n \in NodeID PROVE PhaseOf(n)'
  BY <1>u DEF Phase, PhaseOf
<1>5. ASSUME NEW n \in NodeID, NEW k \in Key PROVE Tracked(n, k, KeyLine(k, n))'
  <2> DEFINE l == KeyLine(k, n)
  <2>1. Tracked(n, k, l) /\ ~InHand(n, l) /\ ~InHand(n, l)'
    BY <1>u DEF Accounted, InHand
  <2> HIDE DEF l
  <2>2. Tracked(n, k, l)'
    BY <2>1, <1>u DEF Tracked
  <2> QED BY <2>2 DEF l
<1> QED BY <1>1, <1>2, <1>3, <1>4, <1>5 DEF Phase, Accounted

\* Create and Restart change nothing the listing has.
LEMMA CreateKeeps == ASSUME LInv, NEW k \in Key, Create(k) PROVE LInv'
<1> USE DEF LInv, Types
<1>u. /\ UNCHANGED <<up, conn, listed, pipe, pc, line, mu, out, must>>
      /\ keys' = [keys EXCEPT ![Owner[k]] = keys[Owner[k]] \cup {k}]
      /\ Owner[k] \in NodeID
  BY ListingAssumption DEF Create, proxyVars
<1>1. Basics'
  BY <1>u DEF Basics, Held
<1>2. Types'
  BY <1>u
<1>3. Whole'
  BY <1>u DEF Whole, LinesIntact
<1> QED BY <1>1, <1>2, <1>3, <1>u, Quiet DEF Phase, Accounted

\* A node that comes back keeps the invariant: its old stream stays broken.
LEMMA RestartKeeps == ASSUME LInv, NEW n \in NodeID, Restart(n) PROVE LInv'
<1> USE DEF LInv, Types
<1>u. /\ UNCHANGED <<keys, conn, listed, pipe, pc, line, mu, out, must>>
      /\ up' = [up EXCEPT ![n] = TRUE]
  BY DEF Restart, proxyVars
<1>1. Basics' /\ Types' /\ Whole'
  BY <1>u DEF Basics, Whole, LinesIntact
<1> QED BY <1>1, <1>u, Quiet DEF Phase, Accounted

\* A key is encoded: it is new in the stream and everywhere.
LEMMA EmitKeeps == ASSUME LInv, NEW n \in NodeID, Emit(n) PROVE LInv'
<1> USE DEF LInv, Types
<1>0. PICK k \in keys[n] \ listed[n] :
          /\ listed' = [listed EXCEPT ![n] = listed[n] \cup {k}]
          /\ pipe'   = [pipe EXCEPT ![n] = Append(pipe[n], KeyLine(k, n))]
  BY DEF Emit
<1>u. /\ UNCHANGED <<keys, up, conn, pc, line, mu, out, must>>
      /\ conn[n] = "open" /\ k \in Key /\ pipe[n] \in Seq(Lines) /\ KeyLine(k, n) \in Lines
  BY LineFacts DEF Emit, nodeVars, proxyVars
<1>p. /\ pipe'[n] = Append(pipe[n], KeyLine(k, n)) /\ listed'[n] = listed[n] \cup {k}
      /\ \A o \in NodeID \ {n} : pipe'[o] = pipe[o] /\ listed'[o] = listed[o]
  BY <1>0
<1>a. /\ pipe'[n] \in Seq(Lines)
      /\ \A l : Has(pipe'[n], l) <=> Has(pipe[n], l) \/ l = KeyLine(k, n)
      /\ \A l : Once(pipe[n], l) /\ (l = KeyLine(k, n) => ~Has(pipe[n], l)) => Once(pipe'[n], l)
  BY <1>p, <1>u, Appended
<1>1. Basics'
  BY <1>0, <1>u, <1>a DEF Basics
<1>2. Types'
  <2>1. \A i \in DOMAIN pipe'[n] : pipe'[n][i] \in NodeLines(n)
    <3>1. \A i \in DOMAIN pipe'[n] : Has(pipe'[n], pipe'[n][i])
      BY DEF Has
    <3>2. KeyLine(k, n) \in NodeLines(n)
      BY <1>u DEF NodeLines
    <3> QED BY <3>1, <3>2, <1>a DEF Has
  <2>2. listed' \in [NodeID -> SUBSET Key] /\ pipe' \in [NodeID -> Seq(Lines)]
    BY <1>0, <1>u, <1>a, <1>p
  <2> QED BY <2>1, <2>2, <1>u, <1>p
<1>3. Whole'
  BY <1>u DEF Whole, LinesIntact
<1>4. \A o \in NodeID \ {n} : PhaseOf(o)' /\ \A j \in Key : Tracked(o, j, KeyLine(j, o))'
  BY <1>u, <1>p, Quiet
<1>5. PhaseOf(n)'
  <2>1. pc[n] \notin {"idle", "call", "done"} \/ Has(out, ErrorLine(n))
    BY <1>u DEF Phase, PhaseOf
  <2> QED BY <2>1, <1>u, <1>p DEF Phase, PhaseOf
<1>6. ASSUME NEW j \in Key PROVE Tracked(n, j, KeyLine(j, n))'
  <2> DEFINE l == KeyLine(j, n)
  <2>1. Tracked(n, j, l) /\ (l = KeyLine(k, n) <=> j = k)
    BY LineFacts, <1>u DEF Accounted
  <2>2. InHand(n, l)' <=> InHand(n, l)
    BY <1>u DEF InHand, KeyLine
  <2> HIDE DEF l
  <2>3. Tracked(n, j, l)'
    BY <2>1, <2>2, <1>a, <1>p, <1>u, <1>0 DEF Tracked
  <2> QED BY <2>3 DEF l
<1> QED BY <1>1, <1>2, <1>3, <1>4, <1>5, <1>6 DEF Phase, Accounted

\* The node returns.
LEMMA EndOfKeysKeeps == ASSUME LInv, NEW n \in NodeID, EndOfKeys(n) PROVE LInv'
<1> USE DEF LInv, Types
<1>u. /\ UNCHANGED <<keys, up, listed, pipe, pc, line, mu, out, must>>
      /\ conn[n] = "open" /\ must[n] \subseteq listed[n]
      /\ conn' = [conn EXCEPT ![n] = "eof"]
  BY DEF EndOfKeys, nodeVars, proxyVars
<1>1. Basics' /\ Types' /\ Whole'
  BY <1>u DEF Basics, Whole, LinesIntact
<1>2. \A o \in NodeID \ {n} : PhaseOf(o)' /\ \A j \in Key : Tracked(o, j, KeyLine(j, o))'
  BY <1>u, Quiet
<1>3. PhaseOf(n)'
  BY <1>u DEF Phase, PhaseOf
<1>4. ASSUME NEW j \in Key PROVE Tracked(n, j, KeyLine(j, n))'
  <2> DEFINE l == KeyLine(j, n)
  <2>1. Tracked(n, j, l)
    BY DEF Accounted
  <2>2. InHand(n, l)' <=> InHand(n, l)
    BY <1>u DEF InHand, KeyLine
  <2> HIDE DEF l
  <2>3. Tracked(n, j, l)'
    BY <2>1, <2>2, <1>u DEF Tracked
  <2> QED BY <2>3 DEF l
<1> QED BY <1>1, <1>2, <1>3, <1>4 DEF Phase, Accounted
\* A stream that breaks loses lines and may gain a fragment, and no line twice.
LEMMA BreakKeeps ==
    ASSUME LInv, NEW n \in NodeID, Break(n), UNCHANGED <<listed, pc, line, mu, out, must>>
    PROVE  /\ pipe' \in [NodeID -> Seq(Lines)]
           /\ \A o \in NodeID : \A i \in DOMAIN pipe'[o] : pipe'[o][i] \in NodeLines(o)
           /\ conn' \in [NodeID -> {"none", "open", "eof", "broken"}]
           /\ Phase' /\ Accounted'
<1> USE DEF LInv, Types
<1>0. PICK i \in 0..Len(pipe[n]) :
          \/ pipe' = [pipe EXCEPT ![n] = SubSeq(pipe[n], 1, i)]
          \/ pipe' = [pipe EXCEPT ![n] = Append(SubSeq(pipe[n], 1, i), Fragment(n))]
  BY DEF Break
<1> DEFINE q == SubSeq(pipe[n], 1, i)
<1>c. /\ conn[n] = "open" /\ conn' = [conn EXCEPT ![n] = "broken"]
      /\ pipe[n] \in Seq(Lines) /\ Fragment(n) \in Lines /\ Fragment(n) \in NodeLines(n)
  BY LineFacts DEF Break, NodeLines
<1>q. /\ q \in Seq(Lines)
      /\ \A l : Has(q, l) => Has(pipe[n], l)
      /\ \A l : Once(pipe[n], l) => Once(q, l)
  BY <1>c, Cut
<1>p. /\ pipe'[n] = q \/ pipe'[n] = Append(q, Fragment(n))
      /\ \A o \in NodeID \ {n} : pipe'[o] = pipe[o]
      /\ pipe' = [pipe EXCEPT ![n] = pipe'[n]]
  BY <1>0
<1> HIDE DEF q
<1>a. /\ pipe'[n] \in Seq(Lines)
      /\ \A l : Has(pipe'[n], l) => Has(pipe[n], l) \/ l = Fragment(n)
      /\ \A l : Once(pipe[n], l) /\ l # Fragment(n) => Once(pipe'[n], l)
  <2>1. CASE pipe'[n] = q
    BY <2>1, <1>q
  <2>2. CASE pipe'[n] = Append(q, Fragment(n))
    BY <2>2, <1>q, <1>c, Appended
  <2> QED BY <2>1, <2>2, <1>p
<1>1. pipe' \in [NodeID -> Seq(Lines)]
  BY <1>p, <1>a
<1>2. ASSUME NEW o \in NodeID, NEW j \in DOMAIN pipe'[o] PROVE pipe'[o][j] \in NodeLines(o)
  <2>1. CASE o # n
    BY <2>1, <1>p
  <2>2. CASE o = n
    <3>1. Has(pipe[n], pipe'[n][j]) \/ pipe'[n][j] = Fragment(n)
      BY <2>2, <1>a DEF Has
    <3> QED BY <3>1, <2>2, <1>c DEF Has
  <2> QED BY <2>1, <2>2
<1>3. \A o \in NodeID \ {n} : PhaseOf(o)' /\ \A j \in Key : Tracked(o, j, KeyLine(j, o))'
  BY <1>c, <1>p, Quiet
<1>4. PhaseOf(n)'
  <2>1. pc[n] \notin {"idle", "call", "done"} \/ Has(out, ErrorLine(n))
    BY <1>c DEF Phase, PhaseOf
  <2>2. pc[n] \notin {"idle", "call"}
    BY <1>c DEF Phase, PhaseOf
  <2> QED BY <2>1, <2>2, <1>c DEF Phase, PhaseOf
<1>5. ASSUME NEW j \in Key PROVE Tracked(n, j, KeyLine(j, n))'
  <2> DEFINE l == KeyLine(j, n)
  <2>1. Tracked(n, j, l) /\ l # Fragment(n)
    BY LineFacts DEF Accounted
  <2>2. InHand(n, l)' <=> InHand(n, l)
    BY DEF InHand, KeyLine
  <2>3. conn'[n] = "broken"
    BY <1>c
  <2> HIDE DEF l
  <2>4. Tracked(n, j, l)'
    BY <2>1, <2>2, <2>3, <1>a DEF Tracked
  <2> QED BY <2>4 DEF l
<1> QED BY <1>1, <1>2, <1>3, <1>4, <1>5, <1>c DEF Phase, Accounted

\* A lost connection and a timeout.
LEMMA DisconnectKeeps == ASSUME LInv, NEW n \in NodeID, Disconnect(n) \/ TimeOut(n) PROVE LInv'
<1> USE DEF LInv, Types
<1>u. Break(n) /\ UNCHANGED <<keys, up, listed, pc, line, mu, out, must>>
  BY DEF Disconnect, TimeOut, nodeVars, proxyVars
<1>1. /\ pipe' \in [NodeID -> Seq(Lines)]
      /\ \A o \in NodeID : \A i \in DOMAIN pipe'[o] : pipe'[o][i] \in NodeLines(o)
      /\ conn' \in [NodeID -> {"none", "open", "eof", "broken"}]
      /\ Phase' /\ Accounted'
  BY <1>u, BreakKeeps
<1>2. Basics'
  BY <1>u, <1>1 DEF Basics
<1>3. Types' /\ Whole'
  BY <1>u, <1>1 DEF Whole, LinesIntact
<1> QED BY <1>1, <1>2, <1>3

\* A node that dies has nothing left, and what it owes is settled by its listing, or
\* forgotten when that has not begun.
LEMMA CrashKeeps == ASSUME LInv, NEW n \in NodeID, Crash(n) PROVE LInv'
<1> USE DEF LInv, Types
<1>u. /\ UNCHANGED <<listed, pc, line, mu, out>>
      /\ up' = [up EXCEPT ![n] = FALSE] /\ keys' = [keys EXCEPT ![n] = {}]
      /\ must' = must \/ (conn[n] = "none" /\ must' = [must EXCEPT ![n] = {}])
  BY DEF Crash, proxyVars
<1>1. /\ pipe' \in [NodeID -> Seq(Lines)]
      /\ \A o \in NodeID : \A i \in DOMAIN pipe'[o] : pipe'[o][i] \in NodeLines(o)
      /\ conn' \in [NodeID -> {"none", "open", "eof", "broken"}]
      /\ Phase' /\ Accounted'
  <2>1. CASE Break(n)
    <3>1. must' = must
      BY <2>1, <1>u DEF Break
    <3> QED BY <2>1, <3>1, <1>u, BreakKeeps
  <2>2. CASE UNCHANGED <<conn, pipe>>
    <3>1. \A o \in NodeID \ {n} : PhaseOf(o)' /\ \A j \in Key : Tracked(o, j, KeyLine(j, o))'
      BY <2>2, <1>u, Quiet
    <3>2. PhaseOf(n)'
      BY <2>2, <1>u DEF Phase, PhaseOf
    <3>3. ASSUME NEW j \in Key PROVE Tracked(n, j, KeyLine(j, n))'
      <4> DEFINE l == KeyLine(j, n)
      <4>1. Tracked(n, j, l)
        BY DEF Accounted
      <4>2. InHand(n, l)' <=> InHand(n, l)
        BY <1>u DEF InHand, KeyLine
      <4> HIDE DEF l
      <4>3. Tracked(n, j, l)'
        BY <4>1, <4>2, <2>2, <1>u DEF Tracked
      <4> QED BY <4>3 DEF l
    <3> QED BY <3>1, <3>2, <3>3, <2>2 DEF Phase, Accounted
  <2> QED BY <2>1, <2>2 DEF Crash
<1>2. Basics'
  BY <1>u, <1>1 DEF Basics
<1>3. Types' /\ Whole'
  BY <1>u, <1>1 DEF Whole, LinesIntact
<1> QED BY <1>1, <1>2, <1>3

\* LocalKeys: a stream, or an error line.
LEMMA CallKeeps == ASSUME LInv, NEW n \in NodeID, Call(n) PROVE LInv'
<1> USE DEF LInv, Types
<1>u. /\ UNCHANGED <<keys, up, listed, pipe, mu, out>> /\ pc[n] = "call"
      /\ \/ /\ pc' = [pc EXCEPT ![n] = "scan"] /\ conn' = [conn EXCEPT ![n] = "open"]
            /\ must' = [must EXCEPT ![n] = keys[n]] /\ line' = line
         \/ /\ pc' = [pc EXCEPT ![n] = "write"] /\ conn' = [conn EXCEPT ![n] = "broken"]
            /\ line' = [line EXCEPT ![n] = ErrorLine(n)] /\ must' = must
      /\ listed[n] = {} /\ pipe[n] = <<>>
  BY DEF Call, nodeVars, Phase, PhaseOf
<1>l. ErrorLine(n) \in Lines /\ ErrorLine(n) \in NodeLines(n)
  BY LineFacts DEF NodeLines
<1>o. /\ \A o \in NodeID \ {n} : pc'[o] = pc[o] /\ line'[o] = line[o] /\ must'[o] = must[o]
      /\ pc'[n] \in {"scan", "write"} /\ must'[n] \in {keys[n], must[n]}
  BY <1>u
<1>1. Basics'
  BY <1>u, <1>o DEF Basics
<1>2. Types'
  <2>1. pc' \in [NodeID -> {"idle", "call", "scan", "write", "newline", "done"}]
    <3>1. PICK l \in {"scan", "write"} : pc' = [pc EXCEPT ![n] = l]
      BY <1>u
    <3> QED BY <3>1
  <2>2. conn' \in [NodeID -> {"none", "open", "eof", "broken"}]
    <3>1. PICK s \in {"open", "broken"} : conn' = [conn EXCEPT ![n] = s]
      BY <1>u
    <3> QED BY <3>1
  <2>3. must' \in [NodeID -> SUBSET Key]
    <3>1. must' = must \/ must' = [must EXCEPT ![n] = keys[n]]
      BY <1>u
    <3> QED BY <3>1
  <2>4. line' \in [NodeID -> Lines]
    <3>1. line' = line \/ line' = [line EXCEPT ![n] = ErrorLine(n)]
      BY <1>u
    <3> QED BY <3>1, <1>l
  <2>5. \A o \in NodeID : pc'[o] \in {"write", "newline"} => line'[o] \in NodeLines(o)
    BY <1>u, <1>l
  <2> QED BY <2>1, <2>2, <2>3, <2>4, <2>5, <1>u
<1>3. Whole'
  BY <1>u DEF Whole, LinesIntact
<1>4. \A o \in NodeID \ {n} : PhaseOf(o)' /\ \A j \in Key : Tracked(o, j, KeyLine(j, o))'
  BY <1>u, Quiet
<1>5. PhaseOf(n)'
  BY <1>u DEF Phase, PhaseOf
<1>6. ASSUME NEW j \in Key PROVE Tracked(n, j, KeyLine(j, n))'
  <2> DEFINE l == KeyLine(j, n)
  <2>1. Tracked(n, j, l) /\ l # ErrorLine(n)
    BY LineFacts DEF Accounted
  <2>2. ~InHand(n, l)' /\ ~InHand(n, l)
    BY <1>u, <2>1 DEF InHand
  <2> HIDE DEF l
  <2>3. Tracked(n, j, l)'
    BY <2>1, <2>2, <1>u DEF Tracked
  <2> QED BY <2>3 DEF l
<1> QED BY <1>1, <1>2, <1>3, <1>4, <1>5, <1>6 DEF Phase, Accounted

\* scanner.Scan: a line goes from the stream to the goroutine.
LEMMA ScanKeeps == ASSUME LInv, NEW n \in NodeID, Scan(n) PROVE LInv'
<1> USE DEF LInv, Types
<1>u. /\ UNCHANGED <<keys, up, conn, listed, mu, out, must>>
      /\ pc[n] = "scan" /\ pipe[n] # <<>> /\ pipe[n] \in Seq(Lines)
      /\ line' = [line EXCEPT ![n] = Head(pipe[n])]
      /\ pipe' = [pipe EXCEPT ![n] = Tail(pipe[n])]
      /\ pc'   = [pc EXCEPT ![n] = "write"]
  BY DEF Scan, nodeVars
<1>a. /\ Tail(pipe[n]) \in Seq(Lines) /\ Head(pipe[n]) \in Lines
      /\ \A l : Has(pipe[n], l) <=> Has(Tail(pipe[n]), l) \/ l = Head(pipe[n])
      /\ \A l : Once(pipe[n], l) => /\ Once(Tail(pipe[n]), l)
                                    /\ l = Head(pipe[n]) => ~Has(Tail(pipe[n]), l)
      /\ Has(pipe[n], Head(pipe[n]))
      /\ \A i \in DOMAIN Tail(pipe[n]) : Has(pipe[n], Tail(pipe[n])[i])
  BY <1>u, Scanned
<1>p. /\ pipe'[n] = Tail(pipe[n]) /\ line'[n] = Head(pipe[n]) /\ pc'[n] = "write"
      /\ \A o \in NodeID \ {n} : pipe'[o] = pipe[o] /\ line'[o] = line[o] /\ pc'[o] = pc[o]
  BY <1>u
<1>1. Basics'
  BY <1>u, <1>a DEF Basics
<1>2. Types'
  <2>1. \A i \in DOMAIN pipe'[n] : pipe'[n][i] \in NodeLines(n)
    BY <1>p, <1>a DEF Has
  <2>2. Head(pipe[n]) \in NodeLines(n)
    BY <1>a DEF Has
  <2>3. /\ pipe' \in [NodeID -> Seq(Lines)] /\ line' \in [NodeID -> Lines]
        /\ pc' \in [NodeID -> {"idle", "call", "scan", "write", "newline", "done"}]
    BY <1>u, <1>a
  <2> QED BY <2>1, <2>2, <2>3, <1>u, <1>p
<1>3. Whole'
  BY <1>u DEF Whole, LinesIntact
<1>4. \A o \in NodeID \ {n} : PhaseOf(o)' /\ \A j \in Key : Tracked(o, j, KeyLine(j, o))'
  BY <1>u, <1>p, Quiet
<1>5. PhaseOf(n)'
  BY <1>u, <1>p DEF Phase, PhaseOf
<1>6. ASSUME NEW j \in Key PROVE Tracked(n, j, KeyLine(j, n))'
  <2> DEFINE l == KeyLine(j, n)
  <2>1. Tracked(n, j, l)
    BY DEF Accounted
  <2>2. ~InHand(n, l) /\ (InHand(n, l)' <=> l = Head(pipe[n]))
    BY <1>u, <1>p DEF InHand, KeyLine
  <2> HIDE DEF l
  <2>3. Tracked(n, j, l)'
    BY <2>1, <2>2, <1>u, <1>a, <1>p DEF Tracked
  <2> QED BY <2>3 DEF l
<1> QED BY <1>1, <1>2, <1>3, <1>4, <1>5, <1>6 DEF Phase, Accounted

\* It returns false.
LEMMA StopKeeps == ASSUME LInv, NEW n \in NodeID, Stop(n) PROVE LInv'
<1> USE DEF LInv, Types
<1>u. /\ UNCHANGED <<keys, up, conn, listed, pipe, mu, out, must>>
      /\ pc[n] = "scan" /\ pipe[n] = <<>>
      /\ \/ /\ pc' = [pc EXCEPT ![n] = "write"] /\ line' = [line EXCEPT ![n] = ErrorLine(n)]
         \/ /\ pc' = [pc EXCEPT ![n] = "done"] /\ line' = line /\ conn[n] = "eof"
  BY DEF Stop, nodeVars
<1>l. ErrorLine(n) \in Lines /\ ErrorLine(n) \in NodeLines(n)
  BY LineFacts DEF NodeLines
<1>1. Basics'
  BY <1>u DEF Basics
<1>2. Types'
  <2>1. pc' \in [NodeID -> {"idle", "call", "scan", "write", "newline", "done"}]
    <3>1. PICK l \in {"write", "done"} : pc' = [pc EXCEPT ![n] = l]
      BY <1>u
    <3> QED BY <3>1
  <2>3. line' \in [NodeID -> Lines]
    <3>1. line' = line \/ line' = [line EXCEPT ![n] = ErrorLine(n)]
      BY <1>u
    <3> QED BY <3>1, <1>l
  <2>2. \A o \in NodeID : pc'[o] \in {"write", "newline"} => line'[o] \in NodeLines(o)
    BY <1>u, <1>l
  <2> QED BY <2>1, <2>2, <2>3, <1>u
<1>3. Whole'
  BY <1>u DEF Whole, LinesIntact
<1>4. \A o \in NodeID \ {n} : PhaseOf(o)' /\ \A j \in Key : Tracked(o, j, KeyLine(j, o))'
  BY <1>u, Quiet
<1>5. PhaseOf(n)'
  BY <1>u DEF Phase, PhaseOf
<1>6. ASSUME NEW j \in Key PROVE Tracked(n, j, KeyLine(j, n))'
  <2> DEFINE l == KeyLine(j, n)
  <2>1. Tracked(n, j, l) /\ l # ErrorLine(n)
    BY LineFacts DEF Accounted
  <2>2. ~InHand(n, l)' /\ ~InHand(n, l)
    BY <1>u, <2>1 DEF InHand
  <2> HIDE DEF l
  <2>3. Tracked(n, j, l)'
    BY <2>1, <2>2, <1>u DEF Tracked
  <2> QED BY <2>3 DEF l
<1> QED BY <1>1, <1>2, <1>3, <1>4, <1>5, <1>6 DEF Phase, Accounted

\* One more text or newline, where it belongs.
LEMMA OneMoreLine ==
    ASSUME out \in Seq(Lines), LinesIntact, NEW x \in Lines, out' = Append(out, x),
           x = Newline <=> Len(out) % 2 = 1
    PROVE  LinesIntact' /\ (Len(out)' % 2 = 0 <=> Len(out) % 2 = 1)
<1>1. /\ Len(out) \in Nat /\ Len(out)' = Len(out) + 1
      /\ DOMAIN out' = 1..(Len(out) + 1) /\ DOMAIN out = 1..Len(out)
      /\ out'[Len(out) + 1] = x /\ \A i \in 1..Len(out) : out'[i] = out[i]
  OBVIOUS
<1>2. (Len(out) + 1) % 2 = 0 <=> Len(out) % 2 = 1
  BY <1>1
<1>3. \A i \in DOMAIN out' : i = Len(out) + 1 \/ i \in DOMAIN out
  BY <1>1
<1> QED BY <1>1, <1>2, <1>3 DEF LinesIntact

\* writeLine takes the mutex and writes the text.
LEMMA WriteKeeps == ASSUME LInv, NEW n \in NodeID, Write(n) PROVE LInv'
<1> USE DEF LInv, Types
<1>u. /\ UNCHANGED <<keys, up, conn, listed, pipe, line, must>>
      /\ pc[n] = "write" /\ mu = Nobody /\ mu' = n
      /\ out' = Append(out, line[n]) /\ pc' = [pc EXCEPT ![n] = "newline"]
      /\ line[n] \in Lines /\ line[n] \in NodeLines(n) /\ line[n] # Newline
  BY LineFacts DEF Write, nodeVars
<1>p. pc'[n] = "newline" /\ \A o \in NodeID \ {n} : pc'[o] = pc[o]
  BY <1>u
<1>a. /\ out' \in Seq(Lines)
      /\ \A l : Has(out', l) <=> Has(out, l) \/ l = line[n]
      /\ \A l : Once(out, l) /\ (l = line[n] => ~Has(out, l)) => Once(out', l)
  BY <1>u, Appended
<1>1. Basics'
  <2>1. \A o \in NodeID : mu' = o <=> pc'[o] = "newline"
    BY <1>u, <1>p, ListingAssumption DEF Basics
  <2> QED BY <2>1, <1>u, <1>a DEF Basics
<1>2. Types'
  <2>1. pc' \in [NodeID -> {"idle", "call", "scan", "write", "newline", "done"}]
    BY <1>u
  <2> QED BY <2>1, <1>u, <1>p, <1>a
<1>3. Whole'
  <2>1. Len(out) % 2 = 0 /\ LinesIntact
    BY <1>u DEF Whole
  <2>2. LinesIntact' /\ (Len(out)' % 2 = 0 <=> Len(out) % 2 = 1)
    BY <2>1, <1>u, OneMoreLine
  <2> QED BY <2>1, <2>2, <1>u, ListingAssumption DEF Whole
<1>4. ASSUME NEW o \in NodeID \ {n}
      PROVE  PhaseOf(o)' /\ \A j \in Key : Tracked(o, j, KeyLine(j, o))'
  <2>1. \A j \in Key : KeyLine(j, o) # line[n] /\ Once(out, KeyLine(j, o))
    BY <1>u, LineFacts DEF Accounted, Tracked
  <2>2. \A j \in Key : /\ Has(out', KeyLine(j, o)) => Has(out, KeyLine(j, o))
                       /\ Once(out', KeyLine(j, o))
    BY <2>1, <1>a
  <2> QED BY <2>2, <1>a, <1>u, <1>p, Elsewhere
<1>5. PhaseOf(n)'
  BY <1>u, <1>p, <1>a DEF Phase, PhaseOf
<1>6. ASSUME NEW j \in Key PROVE Tracked(n, j, KeyLine(j, n))'
  <2> DEFINE l == KeyLine(j, n)
  <2>1. Tracked(n, j, l)
    BY DEF Accounted
  <2>2. ~InHand(n, l)' /\ (InHand(n, l) <=> l = line[n])
    BY <1>u, <1>p DEF InHand
  <2> HIDE DEF l
  <2>3. Tracked(n, j, l)'
    BY <2>1, <2>2, <1>u, <1>a DEF Tracked
  <2> QED BY <2>3 DEF l
<1> QED BY <1>1, <1>2, <1>3, <1>4, <1>5, <1>6 DEF Phase, Accounted

\* It writes the newline and releases the mutex.
LEMMA WriteNewlineKeeps == ASSUME LInv, NEW n \in NodeID, WriteNewline(n) PROVE LInv'
<1> USE DEF LInv, Types
<1>u. /\ UNCHANGED <<keys, up, conn, listed, pipe, must>>
      /\ pc[n] = "newline" /\ mu' = Nobody /\ mu = n
      /\ out' = Append(out, Newline) /\ line' = [line EXCEPT ![n] = Newline]
      /\ \/ pc' = [pc EXCEPT ![n] = "done"] /\ line[n] = ErrorLine(n)
         \/ pc' = [pc EXCEPT ![n] = "scan"]
      /\ Newline \in Lines
  BY LineFacts DEF WriteNewline, nodeVars, Basics, NoLine
<1>p. /\ pc'[n] = "scan" \/ (pc'[n] = "done" /\ line[n] = ErrorLine(n))
      /\ \A o \in NodeID \ {n} : pc'[o] = pc[o] /\ line'[o] = line[o]
  BY <1>u
<1>a. /\ out' \in Seq(Lines)
      /\ \A l : Has(out', l) <=> Has(out, l) \/ l = Newline
      /\ \A l : Once(out, l) /\ (l = Newline => ~Has(out, l)) => Once(out', l)
  BY <1>u, Appended
<1>1. Basics'
  <2>1. \A o \in NodeID : mu' = o <=> pc'[o] = "newline"
    BY <1>u, <1>p, ListingAssumption DEF Basics
  <2> QED BY <2>1, <1>u, <1>a DEF Basics
<1>2. Types'
  <2>1. /\ pc' \in [NodeID -> {"idle", "call", "scan", "write", "newline", "done"}]
        /\ line' \in [NodeID -> Lines]
    BY <1>u
  <2> QED BY <2>1, <1>u, <1>p, <1>a
<1>3. Whole'
  <2>1. Len(out) % 2 = 1 /\ LinesIntact
    <3>1. Len(out) % 2 # 0 /\ Len(out) \in Nat
      BY <1>u, ListingAssumption DEF Whole
    <3> QED BY <3>1 DEF Whole
  <2>2. LinesIntact' /\ (Len(out)' % 2 = 0 <=> Len(out) % 2 = 1)
    BY <2>1, <1>u, OneMoreLine
  <2> QED BY <2>1, <2>2, <1>u DEF Whole
<1>k. \A o \in NodeID, j \in Key : KeyLine(j, o) # Newline /\ Once(out, KeyLine(j, o))
  BY LineFacts DEF Accounted, Tracked
<1>4. ASSUME NEW o \in NodeID \ {n}
      PROVE  PhaseOf(o)' /\ \A j \in Key : Tracked(o, j, KeyLine(j, o))'
  <2>1. \A j \in Key : /\ Has(out', KeyLine(j, o)) => Has(out, KeyLine(j, o))
                       /\ Once(out', KeyLine(j, o))
    BY <1>k, <1>a
  <2> QED BY <2>1, <1>a, <1>u, <1>p, Elsewhere
<1>5. PhaseOf(n)'
  BY <1>u, <1>p, <1>a DEF Phase, PhaseOf
<1>6. ASSUME NEW j \in Key PROVE Tracked(n, j, KeyLine(j, n))'
  <2> DEFINE l == KeyLine(j, n)
  <2>1. Tracked(n, j, l) /\ l # Newline
    BY <1>k DEF Accounted
  <2>2. ~InHand(n, l)' /\ ~InHand(n, l)
    BY <1>u, <1>p DEF InHand
  <2> HIDE DEF l
  <2>3. Tracked(n, j, l)'
    BY <2>1, <2>2, <1>u, <1>a DEF Tracked
  <2> QED BY <2>3 DEF l
<1> QED BY <1>1, <1>2, <1>3, <1>4, <1>5, <1>6 DEF Phase, Accounted

\* The invariant holds before the listing begins.
LEMMA InitLInv == Init => LInv
<1> SUFFICES ASSUME Init PROVE LInv
  OBVIOUS
<1>e. \A l : ~Has(<<>>, l) /\ Once(<<>>, l)
  BY DEF Has, Once
<1>1. Types
  <2>1. out \in Seq(Lines) /\ pipe \in [NodeID -> Seq(Lines)]
    BY DEF Init
  <2> QED BY <2>1, LineFacts DEF Init, Types, NoLine
<1>2. Basics
  BY <1>1, ListingAssumption DEF Init, Basics, Types
<1>3. Whole
  BY DEF Init, Whole, LinesIntact
<1>4. Accounted
  BY <1>e DEF Init, Accounted, Tracked, InHand
<1>5. Phase
  BY DEF Init, Phase, PhaseOf
<1> QED BY <1>1, <1>2, <1>3, <1>4, <1>5 DEF LInv

\* Every step keeps the invariant.
LEMMA NextLInv == LInv /\ [Next]_vars => LInv'
<1> SUFFICES ASSUME LInv, [Next]_vars PROVE LInv'
  OBVIOUS
<1>1. CASE UNCHANGED vars
  <2>1. Basics' /\ Types' /\ Whole'
    BY <1>1 DEF vars, LInv, Basics, Types, Whole, LinesIntact
  <2> QED BY <2>1, <1>1, Quiet DEF vars, LInv, Phase, Accounted
<1>2. ASSUME NEW n \in NodeID, Goroutine(n) PROVE LInv'
  BY <1>2, CallKeeps, ScanKeeps, StopKeeps, WriteKeeps, WriteNewlineKeeps DEF Goroutine
<1> QED BY <1>1, <1>2, BeginKeeps, CreateKeeps, EmitKeeps, EndOfKeysKeeps, DisconnectKeeps,
           CrashKeeps, RestartKeeps DEF Next

\* The invariant holds in every reachable state.
LEMMA ListingInvariance == Spec => []LInv
  BY InitLInv, NextLInv, PTL DEF Spec

\* What a key line says, wherever it is: the node it names has encoded that key.
LEMMA KeyLinesEncoded ==
    ASSUME LInv, NEW n \in NodeID, NEW l \in Lines,
           Has(out, l) \/ (l \in NodeLines(n) /\ (Has(pipe[n], l) \/ InHand(n, l)))
    PROVE  Encoded(l)
<1> SUFFICES ASSUME l.text = "key" PROVE l.key \in listed[l.node]
  BY DEF Encoded
<1>1. PICK k \in Key, o \in NodeID : l = KeyLine(k, o)
  <2>1. l \in [text : {"key"}, key : Key, node : NodeID]
    BY DEF Lines, Newline
  <2> QED BY <2>1 DEF KeyLine
<1>2. l.key = k /\ l.node = o
  BY <1>1 DEF KeyLine
<1>3. Has(out, l) \/ Has(pipe[o], l) \/ InHand(o, l)
  BY <1>1, LineFacts
<1> QED BY <1>1, <1>2, <1>3 DEF LInv, Accounted, Tracked

\* A node encodes only keys it owns, every key line is of a key that the node it names
\* has encoded, and the mutex is held exactly between a text and its newline.
THEOREM ListingTypes == Spec => []TypeOK
<1>1. LInv => TypeOK
  <2> SUFFICES ASSUME LInv PROVE TypeOK
    OBVIOUS
  <2>1. Basics /\ Types
    BY DEF LInv
  <2>2. ASSUME NEW n \in NodeID, NEW l \in NodeLines(n) PROVE l \in Lines /\ l.node = n
    BY <2>2 DEF NodeLines, Lines, KeyLine, ErrorLine, Fragment
  <2>3. ASSUME NEW n \in NodeID, NEW i \in DOMAIN pipe[n]
        PROVE  pipe[n][i].node = n /\ Encoded(pipe[n][i])
    <3>1. pipe[n][i] \in NodeLines(n) /\ Has(pipe[n], pipe[n][i])
      BY <2>1 DEF Types, Has
    <3> QED BY <2>2, <3>1, KeyLinesEncoded
  <2>4. ASSUME NEW n \in NodeID, pc[n] = "write" PROVE line[n].node = n /\ Encoded(line[n])
    <3>1. line[n] \in NodeLines(n) /\ InHand(n, line[n])
      BY <2>1, <2>4 DEF Types, InHand
    <3> QED BY <2>2, <3>1, KeyLinesEncoded
  <2>5. ASSUME NEW i \in DOMAIN out PROVE Encoded(out[i])
    <3>1. out[i] \in Lines /\ Has(out, out[i])
      BY <2>1 DEF Types, Has
    <3>2. CASE NodeID = {}
      BY <3>1, <3>2 DEF Lines, Newline, Encoded
    <3>3. CASE NodeID # {}
      BY <3>1, <3>3, KeyLinesEncoded
    <3> QED BY <3>2, <3>3
  <2>6. \A n \in NodeID : keys[n] \cup must[n] \cup listed[n] \subseteq Held(n)
    BY <2>1 DEF Basics
  <2> QED BY <2>1, <2>3, <2>4, <2>5, <2>6 DEF TypeOK, Basics
<1> QED BY <1>1, ListingInvariance, PTL

\* Each text of the response is followed by its own newline, however many nodes
\* stream into it at once.
THEOREM LinesStayWhole == Spec => []LinesIntact
<1>1. LInv => LinesIntact BY DEF LInv, Whole
<1> QED BY <1>1, ListingInvariance, PTL

\* No key appears twice in a listing, from one node or from two, whatever broke and came
\* back: the node that a line names owns the key.
THEOREM NoKeyTwice == Spec => []ListedOnce
<1>1. LInv => ListedOnce
  <2> SUFFICES ASSUME LInv, NEW i \in DOMAIN out, NEW j \in DOMAIN out,
                      out[i].text = "key", out[j].text = "key", out[i].key = out[j].key
               PROVE  i = j
    BY DEF ListedOnce
  <2>1. \A x \in DOMAIN out : out[x].text = "key" =>
           \E k \in Key, n \in NodeID : out[x] = KeyLine(k, n) /\ out[x].key = k
    <3>1. \A l \in Lines : l.text = "key" => l \in [text : {"key"}, key : Key, node : NodeID]
      BY DEF Lines, Newline
    <3>2. \A x \in DOMAIN out : out[x] \in Lines
      BY DEF LInv, Types
    <3> QED BY <3>1, <3>2 DEF KeyLine
  <2>2. PICK k \in Key, n \in NodeID, o \in NodeID : out[i] = KeyLine(k, n) /\ out[j] = KeyLine(k, o)
    BY <2>1
  <2>3. k \in listed[n] /\ k \in listed[o]
    BY <2>2 DEF LInv, Accounted, Tracked, Has
  <2>4. n = o
    BY <2>3 DEF LInv, Basics, Held
  <2> QED BY <2>2, <2>4 DEF LInv, Accounted, Tracked, Once
<1> QED BY <1>1, ListingInvariance, PTL

\* When a listing ends, every node is listed in full or named in an error line.
THEOREM ListingComplete == Spec => []NothingMissing
<1>1. LInv => NothingMissing
  <2> SUFFICES ASSUME LInv, Ended, NEW n \in NodeID, ~Reported(n), NEW k \in must[n]
               PROVE  Listed(k, n) # {}
    BY DEF NothingMissing
  <2>1. ~Has(out, ErrorLine(n)) /\ pc[n] = "done"
    BY DEF Reported, Has, Ended
  <2>2. conn[n] = "eof" /\ pipe[n] = <<>> /\ k \in listed[n] /\ k \in Key
    BY <2>1 DEF LInv, Phase, PhaseOf, Types
  <2>3. ~Has(pipe[n], KeyLine(k, n)) /\ ~InHand(n, KeyLine(k, n))
    BY <2>1, <2>2 DEF Has, InHand
  <2>4. Has(out, KeyLine(k, n))
    BY <2>2, <2>3 DEF LInv, Accounted, Tracked
  <2> QED BY <2>4 DEF Has, Listed
<1> QED BY <1>1, ListingInvariance, PTL
=============================================================================
