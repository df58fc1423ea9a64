--------------------------- MODULE PatchingProofs ---------------------------
(***************************************************************************)
(* Theorems about PATCH (JsonMerge and Patching), for texts of every       *)
(* length and sequences of writes of every length.                         *)
(*                                                                         *)
(* The main lemma is PatchedText: merging two texts and then reading the   *)
(* result is reading both and merging the documents.  It needs that what   *)
(* Marshal writes has each field once, whatever order it writes them in.   *)
(***************************************************************************)
EXTENDS Patching, FiniteSetTheorems, FunctionTheorems, WellFoundedInduction, TLAPS

Members == Texts(Texts({}))
Stored  == Texts(Members)

\* The text stored is a text that means the document, and a PATCH that is to be repeated
\* has nothing left to change but what others have changed since.
PInv ==
    /\ stored # Nil => stored \in Stored /\ doc = Meaning(stored)
    /\ lost # Nil =>
          /\ lost \in Body /\ stored # Nil
          /\ Diff(doc, Patched(doc, Meaning(lost))) \subseteq changed

\* The text that the object raw has for its field f.
Field(raw, f) == Unmarshal(raw).map[f]

\* The text raw is an object with the fields D, which have the texts of map, compacted.
ObjectOf(raw, D, map) ==
    /\ raw.kind = "object" /\ raw.tok = "{}" /\ FieldsOf(raw) = D
    /\ \A f \in D : Field(raw, f) = Compact(map[f])
-----------------------------------------------------------------------------
(* Texts.                                                                  *)

\* A text is the record of its parts, and only objects have members.
LEMMA TextParts ==
    ASSUME NEW Inner, NEW raw \in Texts(Inner)
    PROVE  /\ raw = [ws |-> raw.ws, kind |-> raw.kind, tok |-> raw.tok, members |-> raw.members]
           /\ raw.ws \in BOOLEAN /\ raw.members \in Seq(Nat \X Inner)
           /\ raw.kind = "object" => raw.tok = "{}"
           /\ raw.kind \in {"null", "other"} => raw.members = <<>>
           /\ raw.kind \in {"object", "null", "other"}
<1>1. CASE raw \in [ws : BOOLEAN, kind : {"object"}, tok : {"{}"}, members : Seq(Nat \X Inner)]
  BY <1>1
<1>2. CASE raw \in [ws : BOOLEAN, kind : {"null", "other"}, tok : STRING, members : {<<>>}]
  <2>1. <<>> \in Seq(Nat \X Inner)
    OBVIOUS
  <2> QED BY <1>2, <2>1
<1> QED BY <1>1, <1>2 DEF Texts

\* An object with members is a text.
LEMMA ObjectText ==
    ASSUME NEW Inner, NEW s \in Seq(Nat \X Inner)
    PROVE  Object(s) \in Texts(Inner) /\ Object(s).kind = "object" /\ Object(s).members = s
           /\ Object(s).tok = "{}"
  BY DEF Object, Texts

\* Leaving out white space changes nothing else of a text.
LEMMA Compacted ==
    ASSUME NEW K, NEW T, NEW M, NEW raw \in [ws : BOOLEAN, kind : K, tok : T, members : M]
    PROVE  /\ Compact(raw) \in [ws : BOOLEAN, kind : K, tok : T, members : M]
           /\ Compact(raw).kind = raw.kind /\ Compact(raw).tok = raw.tok
           /\ Compact(raw).members = raw.members
  BY DEF Compact

\* So the compacted text is a text and means the same.
LEMMA CompactText ==
    ASSUME NEW Inner, NEW raw \in Texts(Inner)
    PROVE  /\ Compact(raw) \in Texts(Inner)
           /\ MeaningOfMember(Compact(raw)) = MeaningOfMember(raw)
<1>1. /\ Compact(raw) \in Texts(Inner) /\ Compact(raw).members = raw.members
      /\ Compact(raw).kind = raw.kind /\ Compact(raw).tok = raw.tok
  <2>1. CASE raw \in [ws : BOOLEAN, kind : {"object"}, tok : {"{}"}, members : Seq(Nat \X Inner)]
    <3>1. PICK K, T, M : K = {"object"} /\ T = {"{}"} /\ M = Seq(Nat \X Inner)
      OBVIOUS
    <3>2. raw \in [ws : BOOLEAN, kind : K, tok : T, members : M]
      BY <2>1, <3>1, Zenon
    <3>3. /\ Compact(raw) \in [ws : BOOLEAN, kind : K, tok : T, members : M]
          /\ Compact(raw).kind = raw.kind /\ Compact(raw).tok = raw.tok
          /\ Compact(raw).members = raw.members
      BY <3>2, Compacted
    <3> QED BY <3>1, <3>3, Zenon DEF Texts
  <2>2. CASE raw \in [ws : BOOLEAN, kind : {"null", "other"}, tok : STRING, members : {<<>>}]
    <3>1. PICK K, T, M : K = {"null", "other"} /\ T = STRING /\ M = {<<>>}
      OBVIOUS
    <3>2. raw \in [ws : BOOLEAN, kind : K, tok : T, members : M]
      BY <2>2, <3>1, Zenon
    <3>3. /\ Compact(raw) \in [ws : BOOLEAN, kind : K, tok : T, members : M]
          /\ Compact(raw).kind = raw.kind /\ Compact(raw).tok = raw.tok
          /\ Compact(raw).members = raw.members
      BY <3>2, Compacted
    <3> QED BY <3>1, <3>3, Zenon DEF Texts
  <2> QED BY <2>1, <2>2 DEF Texts
<1>2. FieldsOf(Compact(raw)) = FieldsOf(raw)
  BY <1>1 DEF FieldsOf
<1>3. \A f \in FieldsOf(raw) : Field(Compact(raw), f) = Field(raw, f)
  BY <1>1, <1>2 DEF Unmarshal, Field
<1>4. [f \in FieldsOf(Compact(raw)) |-> Field(Compact(raw), f).tok]
        = [f \in FieldsOf(raw) |-> Field(raw, f).tok]
  BY <1>2, <1>3
<1> QED BY <1>1, <1>4, Zenon DEF MeaningOfMember, Field

\* A set of numbers up to n that is not empty has a greatest.
LEMMA Greatest ==
    ASSUME NEW n \in Nat, NEW I \in SUBSET (1..n), I # {}
    PROVE  \E i \in I : \A j \in I : j <= i
<1> DEFINE D == {d \in Nat : \E i \in I : d = n - i}
<1>1. OpToRel(<, Nat) = {ss \in Nat \X Nat : ss[1] < ss[2]}
  BY Zenon DEF OpToRel
<1>2. D \in SUBSET Nat /\ D # {}
  <2>1. PICK i \in I : TRUE
    OBVIOUS
  <2>2. n - i \in D
    OBVIOUS
  <2> QED BY <2>2
<1>3. PICK d \in D : \A x \in D : ~(<<x, d>> \in {ss \in Nat \X Nat : ss[1] < ss[2]})
  BY <1>1, <1>2, NatLessThanWellFounded, WFMin
<1>4. PICK i \in I : d = n - i
  OBVIOUS
<1>5. ASSUME NEW j \in I PROVE j <= i
  <2>1. n - j \in D
    OBVIOUS
  <2>2. <<n - j, d>> \in Nat \X Nat /\ <<n - j, d>>[1] = n - j /\ <<n - j, d>>[2] = d
    BY <2>1
  <2>3. ~(n - j < d)
    BY <1>3, <2>1, <2>2
  <2> QED BY <1>4, <2>3
<1> QED BY <1>5

\* Unmarshal gives each field the text of the last member with its name.
LEMMA Unmarshalled ==
    ASSUME NEW Inner, NEW raw \in Texts(Inner)
    PROVE  /\ IsFiniteSet(FieldsOf(raw)) /\ FieldsOf(raw) \subseteq Nat
           /\ Unmarshal(raw).map \in [FieldsOf(raw) -> Inner]
           /\ \A f \in FieldsOf(raw) : \E i \in DOMAIN raw.members :
                 /\ raw.members[i][1] = f /\ Field(raw, f) = raw.members[i][2]
<1>1. PICK s \in Seq(Nat \X Inner) : s = raw.members
  BY TextParts
<1>2. Len(s) \in Nat /\ DOMAIN s = 1..Len(s) /\ \A i \in 1..Len(s) : s[i][1] \in Nat /\ s[i][2] \in Inner
  OBVIOUS
<1>3. FieldsOf(raw) = {s[i][1] : i \in 1..Len(s)}
  BY <1>1, <1>2 DEF FieldsOf
<1>4. IsFiniteSet(FieldsOf(raw)) /\ FieldsOf(raw) \subseteq Nat
  <2>1. [i \in 1..Len(s) |-> s[i][1]] \in Surjection(1..Len(s), FieldsOf(raw))
    BY <1>3 DEF Surjection
  <2>2. IsFiniteSet(1..Len(s))
    BY <1>2, FS_Interval
  <2>3. IsFiniteSet(FieldsOf(raw))
    BY <2>1, <2>2, FS_Surjection
  <2> QED BY <1>2, <1>3, <2>3
<1>5. ASSUME NEW f \in FieldsOf(raw)
      PROVE  \E i \in DOMAIN s : s[i][1] = f /\ Field(raw, f) = s[i][2]
  <2> DEFINE Last(i) == s[i][1] = f /\ \A j \in DOMAIN s : s[j][1] = f => j <= i
  <2>1. \E i \in DOMAIN s : Last(i)
    <3> DEFINE I == {i \in 1..Len(s) : s[i][1] = f}
    <3>1. I # {} /\ I \in SUBSET (1..Len(s))
      BY <1>3
    <3> QED BY <1>2, <3>1, Greatest
  <2>2. Field(raw, f) = s[CHOOSE i \in DOMAIN s : Last(i)][2]
    BY <1>1 DEF Unmarshal, Field
  <2> HIDE DEF Last
  <2>3. (CHOOSE i \in DOMAIN s : Last(i)) \in DOMAIN s /\ Last(CHOOSE i \in DOMAIN s : Last(i))
    BY <2>1
  <2> QED BY <2>2, <2>3 DEF Last
<1>6. Unmarshal(raw).map \in [FieldsOf(raw) -> Inner]
  <2>1. Unmarshal(raw).map = [f \in FieldsOf(raw) |-> Field(raw, f)]
    BY DEF Unmarshal, Field
  <2>2. \A f \in FieldsOf(raw) : Field(raw, f) \in Inner
    BY <1>2, <1>5
  <2> QED BY <2>1, <2>2
<1> QED BY <1>1, <1>4, <1>5, <1>6

\* Every finite set of numbers can be put in order: each has as its place how many
\* are not greater.
LEMMA Sorting ==
    ASSUME NEW S \in SUBSET Nat, IsFiniteSet(S)
    PROVE  /\ Cardinality(S) \in Nat
           /\ \E s \in [1..Cardinality(S) -> S] : \A i, j \in DOMAIN s : i < j => s[i] < s[j]
<1> DEFINE n == Cardinality(S)
           UpTo(x) == {y \in S : y <= x}
           place == [x \in S |-> Cardinality(UpTo(x))]
<1>1. n \in Nat
  BY FS_CardinalityType
<1>2. ASSUME NEW x \in S
      PROVE  IsFiniteSet(UpTo(x)) /\ Cardinality(UpTo(x)) \in 1..n
  <2>1. UpTo(x) \in SUBSET S /\ UpTo(x) # {}
    OBVIOUS
  <2>2. IsFiniteSet(UpTo(x)) /\ Cardinality(UpTo(x)) <= n
    BY <2>1, FS_Subset
  <2>3. Cardinality(UpTo(x)) \in Nat /\ Cardinality(UpTo(x)) # 0
    BY <2>1, <2>2, FS_CardinalityType, FS_EmptySet
  <2> QED BY <1>1, <2>2, <2>3
<1>3. ASSUME NEW x \in S, NEW z \in S, x < z PROVE place[x] < place[z]
  <2>0. (\A y \in S : y <= x => y <= z) /\ z <= z /\ ~(z <= x)
    BY <1>3
  <2>1. UpTo(x) \in SUBSET UpTo(z) /\ z \in UpTo(z) /\ z \notin UpTo(x)
    BY <2>0, Zenon
  <2>2. Cardinality(UpTo(x)) <= Cardinality(UpTo(z)) /\ Cardinality(UpTo(x)) # Cardinality(UpTo(z))
    BY <1>2, <2>1, FS_Subset
  <2>3. Cardinality(UpTo(x)) \in Nat /\ Cardinality(UpTo(z)) \in Nat
    BY <1>2
  <2> HIDE DEF UpTo
  <2> QED BY <2>2, <2>3
<1>4. place \in [S -> 1..n]
  BY <1>2
<1> HIDE DEF place, n
<1>5. place \in Injection(S, 1..n)
  <2>1. \A x, z \in S : x # z => x < z \/ z < x
    OBVIOUS
  <2>2. \A x, z \in S : place[x] \in Nat /\ place[z] \in Nat
    BY <1>4
  <2>3. \A x, z \in S : place[x] = place[z] => x = z
    BY <1>3, <2>1, <2>2
  <2> QED BY <1>4, <2>3 DEF Injection, IsInjective
<1>6. place \in Surjection(S, 1..n)
  <2>1. IsFiniteSet(1..n) /\ Cardinality(1..n) = n
    BY <1>1, FS_Interval
  <2> QED BY <1>5, <2>1, FS_Injection DEF n
<1>7. PICK s : s = [i \in 1..n |-> CHOOSE x \in S : place[x] = i]
  OBVIOUS
<1>8. \A i \in 1..n : s[i] \in S /\ place[s[i]] = i
  BY <1>6, <1>7 DEF Surjection
<1>9. ASSUME NEW i \in 1..n, NEW j \in 1..n, i < j PROVE s[i] < s[j]
  <2>1. s[i] \in Nat /\ s[j] \in Nat /\ place[s[i]] < place[s[j]]
    BY <1>8, <1>9
  <2>2. ~(s[j] < s[i]) /\ s[i] # s[j]
    BY <1>1, <1>3, <1>8, <2>1
  <2> QED BY <2>1, <2>2
<1>10. s \in [1..n -> S] /\ DOMAIN s = 1..n
  BY <1>7, <1>8
<1> QED BY <1>1, <1>9, <1>10 DEF n

\* The order in which Marshal writes has every field, in one place.
LEMMA InOrder ==
    ASSUME NEW S \in SUBSET Nat, IsFiniteSet(S), NEW s, s = InByteOrder(S)
    PROVE  /\ Cardinality(S) \in Nat /\ s \in [1..Cardinality(S) -> S]
           /\ \A f \in S : \E i \in DOMAIN s : s[i] = f
           /\ \A i, j \in DOMAIN s : i < j => s[i] < s[j]
<1> DEFINE n == Cardinality(S)
           Ordered(z) == \A i, j \in DOMAIN z : i < j => z[i] < z[j]
<1>1. n \in Nat /\ \E z \in [1..n -> S] : Ordered(z)
  BY Sorting
<1>2. s = CHOOSE z \in [1..n -> S] : Ordered(z)
  BY DEF InByteOrder
<1> HIDE DEF Ordered
<1>3. s \in [1..n -> S] /\ Ordered(s)
  BY <1>1, <1>2
<1> USE DEF Ordered
<1>4. s \in Injection(1..n, S)
  <2>1. \A i, j \in 1..n : i # j => i < j \/ j < i
    BY <1>1
  <2>2. \A i \in 1..n : s[i] \in Nat
    BY <1>3
  <2>3. \A i, j \in 1..n : s[i] = s[j] => i = j
    BY <1>3, <2>1, <2>2
  <2> QED BY <1>3, <2>3 DEF Injection, IsInjective
<1>5. s \in Surjection(1..n, S)
  <2>1. Cardinality(1..n) = n
    BY <1>1, FS_Interval
  <2> QED BY <1>4, <2>1, FS_Injection
<1> QED BY <1>1, <1>3, <1>5 DEF Surjection

\* Marshal writes an object with the fields of the map, and reading it gives them the
\* texts the map has for them.
LEMMA Marshalled ==
    ASSUME NEW Inner, NEW D \in SUBSET Nat, IsFiniteSet(D), NEW map \in [D -> Texts(Inner)]
    PROVE  Marshal(map) \in Texts(Texts(Inner)) /\ ObjectOf(Marshal(map), D, map)
<1>0. PICK raw : raw = Marshal(map)
  OBVIOUS
<1>1. PICK s : s = InByteOrder(D)
  OBVIOUS
<1>2. /\ Cardinality(D) \in Nat /\ s \in [1..Cardinality(D) -> D]
      /\ \A f \in D : \E i \in DOMAIN s : s[i] = f
  BY <1>1, InOrder
<1>3. PICK q : q = [i \in DOMAIN s |-> <<s[i], Compact(map[s[i]])>>]
  OBVIOUS
<1>4. raw = Object(q)
  BY <1>0, <1>1, <1>3 DEF Marshal
<1>5. PICK T : T = Texts(Inner)
  OBVIOUS
<1>6. q \in Seq(Nat \X T)
  <2>1. \A i \in 1..Cardinality(D) : s[i] \in Nat /\ Compact(map[s[i]]) \in T
    BY <1>2, <1>5, CompactText
  <2>2. q \in [1..Cardinality(D) -> Nat \X T]
    BY <1>2, <1>3, <2>1
  <2> QED BY <1>2, <2>2
<1>7. raw \in Texts(T) /\ raw.kind = "object" /\ raw.members = q /\ raw.tok = "{}"
  <2>1. /\ Object(q) \in Texts(T) /\ Object(q).kind = "object" /\ Object(q).members = q
        /\ Object(q).tok = "{}"
    BY <1>6, ObjectText, Zenon
  <2> QED BY <1>4, <2>1, Zenon
<1>8. /\ DOMAIN q = DOMAIN s
      /\ \A i \in DOMAIN s : q[i][1] = s[i] /\ q[i][2] = Compact(map[s[i]])
  BY <1>3
<1>9. FieldsOf(raw) = D
  <2>1. FieldsOf(raw) = {q[i][1] : i \in DOMAIN q}
    BY <1>7, Zenon DEF FieldsOf
  <2>2. \A f \in D : f \in FieldsOf(raw)
    BY <1>2, <1>8, <2>1
  <2>3. \A i \in DOMAIN s : s[i] \in D
    BY <1>2
  <2>4. \A f \in FieldsOf(raw) : f \in D
    BY <1>8, <2>1, <2>3
  <2> QED BY <2>2, <2>4
<1>10. ASSUME NEW f \in D PROVE Field(raw, f) = Compact(map[f])
  <2>1. \E i \in DOMAIN raw.members : /\ raw.members[i][1] = f
                                       /\ Field(raw, f) = raw.members[i][2]
    BY <1>7, <1>9, Unmarshalled
  <2>2. PICK i \in DOMAIN q : q[i][1] = f /\ Field(raw, f) = q[i][2]
    BY <2>1, <1>7, Zenon
  <2> QED BY <2>2, <1>8
<1>11. ObjectOf(raw, D, map)
  BY <1>7, <1>9, <1>10 DEF ObjectOf
<1> QED BY <1>0, <1>5, <1>7, <1>11
-----------------------------------------------------------------------------
(* PATCH.                                                                  *)

\* The text that f has after delta was merged into cur.
Winner(cur, delta, f) == IF f \in FieldsOf(delta) THEN Field(delta, f)
                         ELSE Field(cur, f)

\* Two objects are merged into one with the fields of both, in which the delta wins.
LEMMA AppliedToObject ==
    ASSUME NEW cur \in Stored, NEW delta \in Stored, cur.kind = "object", delta.kind = "object",
           NEW D, D = FieldsOf(cur) \cup FieldsOf(delta)
    PROVE  /\ Apply(cur, delta) \in Stored
           /\ ObjectOf(Apply(cur, delta), D, [f \in D |-> Winner(cur, delta, f)])
           /\ \A f \in D : Winner(cur, delta, f) \in Members
<1>1. PICK C, E : C = Unmarshal(cur).map /\ E = Unmarshal(delta).map
  OBVIOUS
<1>2. PICK T : T = Texts({})
  OBVIOUS
<1>3. Members = Texts(T) /\ Stored = Texts(Texts(T))
  BY <1>2, Zenon DEF Members, Stored
<1>4. /\ C \in [FieldsOf(cur) -> Members] /\ E \in [FieldsOf(delta) -> Members]
      /\ FieldsOf(cur) \subseteq Nat /\ IsFiniteSet(FieldsOf(cur))
      /\ FieldsOf(delta) \subseteq Nat /\ IsFiniteSet(FieldsOf(delta))
  BY <1>1, Unmarshalled DEF Stored
<1>5. D \in SUBSET Nat /\ IsFiniteSet(D)
  BY <1>4, FS_Union
<1>6. /\ AsObject(cur).ok /\ AsObject(cur).map = C
      /\ AsObject(delta).ok /\ AsObject(delta).map = E
  BY <1>1 DEF AsObject, Unmarshal
<1>7. PICK map : map = Overlay(C, E)
  OBVIOUS
<1>8. Apply(cur, delta) = Marshal(map)
  BY <1>6, <1>7, Zenon DEF Apply
<1>9. map = [f \in D |-> Winner(cur, delta, f)]
  BY <1>1, <1>4, <1>7 DEF Overlay, Winner, Field
<1>10. \A f \in D : Winner(cur, delta, f) \in Members
  BY <1>1, <1>4 DEF Winner, Field
<1>11. map \in [D -> Texts(T)]
  BY <1>3, <1>9, <1>10
<1>12. Marshal(map) \in Texts(Texts(T)) /\ ObjectOf(Marshal(map), D, map)
  BY <1>5, <1>11, Marshalled
<1> QED BY <1>3, <1>8, <1>9, <1>10, <1>12

\* Anything else is replaced.
LEMMA AppliedToOther ==
    ASSUME NEW cur, NEW delta, cur.kind # "object" \/ delta.kind # "object"
    PROVE  Apply(cur, delta) = delta
  BY DEF Apply, AsObject

\* What a merged text means is what merging the documents gives.
LEMMA PatchedText ==
    ASSUME NEW cur \in Stored, NEW delta \in Stored
    PROVE  /\ Apply(cur, delta) \in Stored
           /\ Meaning(Apply(cur, delta)) = Patched(Meaning(cur), Meaning(delta))
<1>0. PICK raw : raw = Apply(cur, delta)
  OBVIOUS
<1>1. CASE cur.kind = "object" /\ delta.kind = "object"
  <2>0. PICK D : D = FieldsOf(cur) \cup FieldsOf(delta)
    OBVIOUS
  <2>1. /\ raw \in Stored /\ raw.kind = "object" /\ raw.tok = "{}"
        /\ FieldsOf(raw) = D
        /\ \A f \in D : /\ Winner(cur, delta, f) \in Members
                        /\ Field(raw, f) = Compact(Winner(cur, delta, f))
    <3>1. /\ raw \in Stored /\ ObjectOf(raw, D, [f \in D |-> Winner(cur, delta, f)])
          /\ \A f \in D : Winner(cur, delta, f) \in Members
      BY <1>0, <1>1, <2>0, AppliedToObject
    <3> QED BY <3>1 DEF ObjectOf
  <2>2. \A f \in FieldsOf(raw) : MeaningOfMember(Field(raw, f))
                                  = MeaningOfMember(Winner(cur, delta, f))
    BY <2>1, CompactText DEF Members
  <2>3. PICK F, G : /\ F = [f \in FieldsOf(cur) |-> MeaningOfMember(Field(cur, f))]
                    /\ G = [f \in FieldsOf(delta) |-> MeaningOfMember(Field(delta, f))]
    OBVIOUS
  <2>4. PICK H : H = [f \in FieldsOf(cur) \cup FieldsOf(delta) |->
                        IF f \in FieldsOf(delta) THEN G[f] ELSE F[f]]
    OBVIOUS
  <2>5. [f \in FieldsOf(raw) |-> MeaningOfMember(Field(raw, f))] = H
    BY <2>0, <2>1, <2>2, <2>3, <2>4 DEF Winner
  <2>6. Meaning(raw) = [object |-> TRUE, tok |-> "{}", fields |-> H]
    BY <2>1, <2>5 DEF Meaning, Field
  <2>7. cur.tok = "{}"
    BY <1>1, TextParts DEF Stored
  <2>8. /\ Meaning(cur) = [object |-> TRUE, tok |-> "{}", fields |-> F]
        /\ Meaning(delta) = [object |-> TRUE, tok |-> delta.tok, fields |-> G]
    BY <1>1, <2>3, <2>7 DEF Meaning, Field
  <2>9. Patched(Meaning(cur), Meaning(delta)) = [object |-> TRUE, tok |-> "{}", fields |-> H]
    <3>1. /\ Meaning(cur).object /\ Meaning(cur).fields = F /\ Meaning(cur).tok = "{}"
          /\ Meaning(delta).object /\ Meaning(delta).fields = G
      <4>1. PICK d, e : d = Meaning(cur) /\ e = Meaning(delta)
        OBVIOUS
      <4>2. /\ d = [object |-> TRUE, tok |-> "{}", fields |-> F]
            /\ e = [object |-> TRUE, tok |-> delta.tok, fields |-> G]
        BY <2>8, <4>1, Zenon
      <4>3. d.object /\ d.fields = F /\ d.tok = "{}"
        BY <4>2
      <4>4. e.object /\ e.fields = G
        BY <4>2
      <4> QED BY <4>1, <4>3, <4>4, Zenon
    <3>2. DOMAIN F = FieldsOf(cur) /\ DOMAIN G = FieldsOf(delta)
      BY <2>3
    <3> QED BY <2>4, <3>1, <3>2, Zenon DEF Patched
  <2> QED BY <1>0, <2>1, <2>6, <2>9
<1>2. CASE ~(cur.kind = "object" /\ delta.kind = "object")
  <2>1. Meaning(cur).object = (cur.kind = "object") /\ Meaning(delta).object = (delta.kind = "object")
    BY DEF Meaning, Field
  <2>2. Patched(Meaning(cur), Meaning(delta)) = Meaning(delta)
    BY <1>2, <2>1 DEF Patched
  <2> QED BY <1>2, <2>2, AppliedToOther
<1> QED BY <1>1, <1>2

\* A document patched by itself does not change: the first PATCH of a key can be repeated.
LEMMA PatchedBySelf ==
    ASSUME NEW delta
    PROVE  Patched(Meaning(delta), Meaning(delta)) = Meaning(delta)
<1>1. PICK e : e = Meaning(delta)
  OBVIOUS
<1>2. CASE ~e.object
  BY <1>1, <1>2, Zenon DEF Patched
<1>3. CASE e.object
  <2>1. PICK G : G = [f \in FieldsOf(delta) |-> MeaningOfMember(Field(delta, f))]
    OBVIOUS
  <2>2. delta.kind = "object" /\ e = [object |-> TRUE, tok |-> delta.tok, fields |-> G]
    BY <1>1, <1>3, <2>1 DEF Meaning, Field
  <2>3. e.fields = G /\ e.tok = delta.tok
    BY <2>2
  <2>4. PICK K : K = [f \in DOMAIN e.fields \cup DOMAIN e.fields |->
                        IF f \in DOMAIN e.fields THEN e.fields[f] ELSE e.fields[f]]
    OBVIOUS
  <2>5. K = G
    BY <2>1, <2>3, <2>4
  <2>6. Patched(e, e) = [object |-> TRUE, tok |-> e.tok, fields |-> K]
    BY <1>3, <2>4, Zenon DEF Patched
  <2> QED BY <1>1, <2>2, <2>3, <2>5, <2>6
<1> QED BY <1>2, <1>3

\* A document does not change when it is patched again.
LEMMA PatchedTwice ==
    ASSUME NEW cur \in Stored, NEW delta \in Stored
    PROVE  LET d == Patched(Meaning(cur), Meaning(delta)) IN Patched(d, Meaning(delta)) = d
<1>1. PICK d, e : d = Meaning(cur) /\ e = Meaning(delta)
  OBVIOUS
<1>2. CASE d.object /\ e.object
  <2>1. PICK H : H = [f \in DOMAIN d.fields \cup DOMAIN e.fields |->
                        IF f \in DOMAIN e.fields THEN e.fields[f] ELSE d.fields[f]]
    OBVIOUS
  <2>2. PICK x : x = [object |-> TRUE, tok |-> d.tok, fields |-> H]
    OBVIOUS
  <2>3. x = Patched(d, e)
    BY <1>2, <2>1, <2>2, Zenon DEF Patched
  <2>4. x.object /\ x.tok = d.tok /\ x.fields = H
    BY <2>2
  <2>5. H = [f \in DOMAIN H \cup DOMAIN e.fields |->
               IF f \in DOMAIN e.fields THEN e.fields[f] ELSE H[f]]
    BY <2>1
  <2>6. PICK K : K = [f \in DOMAIN x.fields \cup DOMAIN e.fields |->
                        IF f \in DOMAIN e.fields THEN e.fields[f] ELSE x.fields[f]]
    OBVIOUS
  <2>7. K = H
    BY <2>4, <2>5, <2>6
  <2>8. Patched(x, e) = [object |-> TRUE, tok |-> x.tok, fields |-> K]
    BY <1>2, <2>4, <2>6, Zenon DEF Patched
  <2>9. Patched(x, e) = x
    BY <2>2, <2>4, <2>7, <2>8
  <2> QED BY <1>1, <2>3, <2>9, Zenon
<1>3. CASE ~(d.object /\ e.object)
  <2>1. Patched(d, e) = e
    BY <1>3, Zenon DEF Patched
  <2>2. Patched(e, e) = e
    BY <1>1, PatchedBySelf
  <2> QED BY <1>1, <2>1, <2>2, Zenon
<1> QED BY <1>2, <1>3
-----------------------------------------------------------------------------
(* Repetitions.                                                            *)

\* What Meaning makes of a text: only objects have fields, and they have one token.
IsDoc(d) ==
    /\ d.object \in BOOLEAN
    /\ IF d.object THEN d.tok = "{}" ELSE DOMAIN d.fields = {}

LEMMA MeaningIsDoc == ASSUME NEW raw \in Stored PROVE IsDoc(Meaning(raw))
<1>1. PICK F : F = [f \in FieldsOf(raw) |-> MeaningOfMember(Field(raw, f))]
  OBVIOUS
<1>2. PICK d : d = Meaning(raw)
  OBVIOUS
<1>3. d = [object |-> raw.kind = "object", tok |-> raw.tok, fields |-> F]
  BY <1>1, <1>2, Zenon DEF Meaning, Field
<1>4. d.object = (raw.kind = "object") /\ d.tok = raw.tok /\ d.fields = F
  BY <1>3
<1>5. raw.kind = "object" => raw.tok = "{}"
  BY TextParts DEF Stored
<1>6. raw.kind # "object" => FieldsOf(raw) = {}
  <2>1. raw.kind # "object" => raw.members = <<>>
    BY TextParts DEF Stored
  <2> QED BY <2>1 DEF FieldsOf
<1>7. DOMAIN d.fields = FieldsOf(raw)
  BY <1>1, <1>4
<1> QED BY <1>2, <1>4, <1>5, <1>6, <1>7 DEF IsDoc

\* What is not in Diff is the same in both.
LEMMA Differ ==
    ASSUME NEW d, NEW e, NEW p
    PROVE  p \in Diff(d, e) <=> \/ ~Agree(d, e, p)
                                \/ p = Nil /\ (d.object # e.object \/ d.tok # e.tok)
<1>1. ~Agree(d, e, p) => p \in DOMAIN d.fields \cup DOMAIN e.fields
  BY DEF Agree
<1>2. PICK A, B : /\ A = {f \in DOMAIN d.fields \cup DOMAIN e.fields : ~Agree(d, e, f)}
                  /\ B = {x \in {Nil} : d.object # e.object \/ d.tok # e.tok}
  OBVIOUS
<1>3. Diff(d, e) = A \cup B
  BY <1>2, Zenon DEF Diff
<1>4. p \in A <=> ~Agree(d, e, p)
  BY <1>1, <1>2, Zenon
<1>5. p \in B <=> p = Nil /\ (d.object # e.object \/ d.tok # e.tok)
  BY <1>2
<1> QED BY <1>3, <1>4, <1>5

LEMMA NoDiff == ASSUME NEW d PROVE Diff(d, d) = {}
  BY DEF Diff, Agree

\* A merge of two objects.
LEMMA PatchedFields ==
    ASSUME NEW d, NEW e, d.object, e.object
    PROVE  LET x == Patched(d, e) IN
           /\ x.object /\ x.tok = d.tok
           /\ DOMAIN x.fields = DOMAIN d.fields \cup DOMAIN e.fields
           /\ \A f \in DOMAIN e.fields : x.fields[f] = e.fields[f]
           /\ \A f \in DOMAIN d.fields \ DOMAIN e.fields : x.fields[f] = d.fields[f]
<1>1. PICK H : H = [f \in DOMAIN d.fields \cup DOMAIN e.fields |->
                      IF f \in DOMAIN e.fields THEN e.fields[f] ELSE d.fields[f]]
  OBVIOUS
<1>2. PICK x : x = [object |-> TRUE, tok |-> d.tok, fields |-> H]
  OBVIOUS
<1>3. x = Patched(d, e)
  BY <1>1, <1>2, Zenon DEF Patched
<1>4. x.object /\ x.tok = d.tok /\ x.fields = H
  BY <1>2
<1>5. /\ DOMAIN x.fields = DOMAIN d.fields \cup DOMAIN e.fields
      /\ \A f \in DOMAIN e.fields : x.fields[f] = e.fields[f]
      /\ \A f \in DOMAIN d.fields \ DOMAIN e.fields : x.fields[f] = d.fields[f]
  BY <1>1, <1>4
<1> QED BY <1>3, <1>4, <1>5, Zenon

\* Another write in between adds to what a repetition changes only what it changed itself.
LEMMA LeftToUndo ==
    ASSUME NEW d, NEW dd, NEW e, IsDoc(d), IsDoc(dd), IsDoc(e)
    PROVE  Diff(dd, Patched(dd, e)) \subseteq Diff(d, Patched(d, e)) \cup Diff(d, dd)
<1> SUFFICES ASSUME NEW p, p \in Diff(dd, Patched(dd, e)), p \notin Diff(d, Patched(d, e)),
                    p \notin Diff(d, dd)
             PROVE  FALSE
  OBVIOUS
<1>1. PICK x, xx : x = Patched(d, e) /\ xx = Patched(dd, e)
  OBVIOUS
<1>2. /\ Agree(d, x, p) /\ Agree(d, dd, p)
      /\ p = Nil => d.object = x.object /\ d.tok = x.tok /\ d.object = dd.object /\ d.tok = dd.tok
      /\ ~Agree(dd, xx, p) \/ (p = Nil /\ (dd.object # xx.object \/ dd.tok # xx.tok))
  <2>1. p \notin Diff(d, x) /\ p \notin Diff(d, dd) /\ p \in Diff(dd, xx)
    BY <1>1, Zenon
  <2>2. Agree(d, x, p) /\ (p = Nil => d.object = x.object /\ d.tok = x.tok)
    BY <2>1, Differ DEF Agree
  <2>3. Agree(d, dd, p) /\ (p = Nil => d.object = dd.object /\ d.tok = dd.tok)
    BY <2>1, Differ DEF Agree
  <2>4. ~Agree(dd, xx, p) \/ (p = Nil /\ (dd.object # xx.object \/ dd.tok # xx.tok))
    BY <2>1, Differ
  <2> QED BY <2>2, <2>3, <2>4, Zenon
<1>3. /\ ~d.object \/ ~e.object => x = e
      /\ ~dd.object \/ ~e.object => xx = e
  BY <1>1, Zenon DEF Patched
<1>4. CASE x = xx
  BY <1>2, <1>4 DEF Agree
<1>5. CASE d.object /\ e.object
  <2>1. /\ DOMAIN x.fields = DOMAIN d.fields \cup DOMAIN e.fields
        /\ \A f \in DOMAIN e.fields : x.fields[f] = e.fields[f]
    BY <1>1, <1>5, PatchedFields
  <2>2. CASE dd.object
    <3>1. /\ xx.object /\ xx.tok = dd.tok
          /\ DOMAIN xx.fields = DOMAIN dd.fields \cup DOMAIN e.fields
          /\ \A f \in DOMAIN e.fields : xx.fields[f] = e.fields[f]
          /\ \A f \in DOMAIN dd.fields \ DOMAIN e.fields : xx.fields[f] = dd.fields[f]
      BY <1>1, <1>5, <2>2, PatchedFields
    <3>2. dd.object = xx.object
      BY <2>2, <3>1 DEF IsDoc
    <3>3. ~Agree(dd, xx, p)
      BY <1>2, <3>1, <3>2
    <3>4. p \in DOMAIN e.fields
      BY <3>1, <3>3 DEF Agree
    <3> QED BY <1>2, <2>1, <3>1, <3>3, <3>4 DEF Agree
  <2>3. CASE ~dd.object
    <3>1. ~Agree(dd, e, p) /\ DOMAIN dd.fields = {}
      BY <1>2, <1>3, <1>5, <2>3 DEF IsDoc
    <3>2. p \in DOMAIN e.fields
      BY <3>1 DEF Agree
    <3> QED BY <1>2, <2>1, <3>1, <3>2 DEF Agree
  <2> QED BY <2>2, <2>3
<1>6. CASE ~d.object /\ dd.object /\ e.object
  <2>1. /\ DOMAIN xx.fields = DOMAIN dd.fields \cup DOMAIN e.fields
        /\ \A f \in DOMAIN dd.fields \ DOMAIN e.fields : xx.fields[f] = dd.fields[f]
    BY <1>1, <1>6, PatchedFields
  <2>2. x = e /\ DOMAIN d.fields = {} /\ ~Agree(dd, xx, p)
    BY <1>2, <1>3, <1>6 DEF IsDoc
  <2>3. p \in DOMAIN e.fields
    BY <2>1, <2>2 DEF Agree
  <2> QED BY <1>2, <2>2, <2>3 DEF Agree
<1> QED BY <1>3, <1>4, <1>5, <1>6
-----------------------------------------------------------------------------
(* Every reachable state.                                                  *)

LEMMA InitPInv == Init => PInv
  BY DEF Init, PInv

\* A body is a text of the kind that is stored, and is not Nil.
LEMMA BodyText ==
    ASSUME NEW body \in Body
    PROVE  body \in Stored /\ Nil \notin Stored
  BY PatchingAssumption DEF Stored, Members

\* What a write leaves: PUT,
LEMMA Replaced ==
    ASSUME NEW body \in Body, Replace(body)
    PROVE  stored' \in Stored /\ stored' # Nil /\ doc' = Meaning(stored')
  BY BodyText DEF Replace

\* and PATCH, which need not be repeated.
LEMMA Merged ==
    ASSUME PInv, NEW body \in Body, Merge(body)
    PROVE  /\ stored' \in Stored /\ stored' # Nil /\ doc' = Meaning(stored')
           /\ Patched(doc', Meaning(body)) = doc'
<1>1. body \in Stored
  BY BodyText
<1>2. CASE stored = Nil
  BY <1>1, <1>2, PatchedBySelf, BodyText DEF Merge
<1>3. CASE stored # Nil
  <2>1. stored \in Stored /\ doc = Meaning(stored)
    BY <1>3 DEF PInv
  <2>2. stored' = Apply(stored, body) /\ doc' = Patched(doc, Meaning(body))
    BY <1>3 DEF Merge
  <2>3. stored' \in Stored /\ doc' = Meaning(stored')
    BY <1>1, <2>1, <2>2, PatchedText
  <2>4. Patched(doc', Meaning(body)) = doc'
    BY <1>1, <2>1, <2>2, PatchedTwice
  <2> QED BY <2>3, <2>4, BodyText
<1> QED BY <1>2, <1>3

LEMMA ElsewherePInv ==
    ASSUME PInv, Elsewhere, stored' \in Stored, stored' # Nil, doc' = Meaning(stored')
    PROVE  PInv'
<1>1. ASSUME lost # Nil PROVE Diff(doc', Patched(doc', Meaning(lost))) \subseteq changed'
  <2>1. /\ lost \in Stored /\ stored \in Stored /\ doc = Meaning(stored)
        /\ Diff(doc, Patched(doc, Meaning(lost))) \subseteq changed
    BY <1>1, BodyText DEF PInv
  <2>2. IsDoc(doc) /\ IsDoc(doc') /\ IsDoc(Meaning(lost))
    BY <2>1, MeaningIsDoc
  <2>3. Diff(doc', Patched(doc', Meaning(lost)))
          \subseteq Diff(doc, Patched(doc, Meaning(lost))) \cup Diff(doc, doc')
    BY <2>2, LeftToUndo
  <2>4. changed' = changed \cup Diff(doc, doc')
    BY <1>1 DEF Elsewhere
  <2> QED BY <2>1, <2>3, <2>4
<1>2. lost' = lost
  BY DEF Elsewhere
<1>3. lost # Nil => lost \in Body
  BY DEF PInv
<1> QED BY <1>1, <1>2, <1>3 DEF PInv

\* A PATCH, the first time or again, has nothing left to change when it has taken effect.
LEMMA UnansweredPInv ==
    ASSUME PInv, NEW body \in Body, Merge(body), lost' = body
    PROVE  PInv'
<1>1. /\ stored' \in Stored /\ stored' # Nil /\ doc' = Meaning(stored')
      /\ Patched(doc', Meaning(body)) = doc'
  BY Merged
<1>2. Diff(doc', Patched(doc', Meaning(lost'))) = {}
  BY <1>1, NoDiff
<1> QED BY <1>1, <1>2 DEF PInv

LEMMA NextPInv == PInv /\ [Next]_vars => PInv'
<1> SUFFICES ASSUME PInv, [Next]_vars PROVE PInv'
  OBVIOUS
<1>1. ASSUME NEW body \in Body, Put(body) PROVE PInv'
  BY <1>1, Replaced, ElsewherePInv DEF Put
<1>2. ASSUME NEW body \in Body, Patch(body) PROVE PInv'
  BY <1>2, Merged, ElsewherePInv DEF Patch
<1>3. ASSUME NEW body \in Body, PatchUnanswered(body) PROVE PInv'
  BY <1>3, UnansweredPInv DEF PatchUnanswered
<1>4. CASE Retry
  <2>1. lost \in Body /\ Merge(lost) /\ lost' = lost
    BY <1>4 DEF Retry, PInv
  <2> QED BY <2>1, UnansweredPInv
<1>5. CASE UNCHANGED vars
  BY <1>5 DEF vars, PInv
<1> QED BY <1>1, <1>2, <1>3, <1>4, <1>5 DEF Next

\* Every reachable state satisfies the invariant.
THEOREM PatchingInvariance == Spec => []PInv
  BY InitPInv, NextPInv, PTL DEF Spec

\* The text a key holds means the document its PUTs and PATCHes add up to, however many
\* there were and however they were written.
THEOREM TextsMeanDocuments == Spec => []TextMeansDocument
<1>1. PInv => TextMeansDocument
  BY DEF PInv, TextMeansDocument
<1> QED BY <1>1, PatchingInvariance, PTL

\* A PATCH sent again, whatever was written since, changes only what has been changed
\* since it took effect; when nothing has, it changes nothing.
THEOREM RetriesOnlyUndo == Spec => RetryOnlyUndoes
<1> DEFINE Undoes == Retry => Diff(doc, Meaning(stored')) \subseteq changed
<1>1. PInv => Undoes
  <2> SUFFICES ASSUME PInv, Retry PROVE Diff(doc, Meaning(stored')) \subseteq changed
    OBVIOUS
  <2>1. /\ lost \in Stored /\ stored # Nil /\ stored \in Stored /\ doc = Meaning(stored)
        /\ Diff(doc, Patched(doc, Meaning(lost))) \subseteq changed
    BY BodyText DEF Retry, PInv
  <2>2. stored' = Apply(stored, lost)
    BY <2>1 DEF Retry, Merge
  <2>3. Meaning(stored') = Patched(doc, Meaning(lost))
    BY <2>1, <2>2, PatchedText
  <2> QED BY <2>1, <2>3
<1>2. [][Undoes]_vars => RetryOnlyUndoes
  BY PTL DEF RetryOnlyUndoes
<1> QED BY <1>1, <1>2, PatchingInvariance, PTL DEF Spec

\* A PATCH of an object by an object leaves it every field it had.
THEOREM FieldsAreKept == Spec => PatchKeepsFields
<1> DEFINE Loses == /\ stored # Nil /\ stored.kind = "object"
                    /\ ~(FieldsOf(stored) \subseteq FieldsOf(stored'))
           Keeps == Loses => \A body \in Body : body.kind = "object" => ~Merge(body)
<1>1. PInv => Keeps
  <2> SUFFICES ASSUME PInv, stored # Nil, stored.kind = "object",
                      NEW body \in Body, body.kind = "object", Merge(body)
               PROVE  FieldsOf(stored) \subseteq FieldsOf(stored')
    OBVIOUS
  <2>1. stored' = Apply(stored, body)
    BY DEF Merge
  <2>2. stored \in Stored /\ body \in Stored
    BY BodyText DEF PInv
  <2>3. PICK D : D = FieldsOf(stored) \cup FieldsOf(body)
    OBVIOUS
  <2>4. ObjectOf(stored', D, [f \in D |-> Winner(stored, body, f)])
    BY <2>1, <2>2, <2>3, AppliedToObject
  <2> QED BY <2>3, <2>4 DEF ObjectOf
<1>2. [][Keeps]_vars => PatchKeepsFields
  BY PTL DEF PatchKeepsFields
<1> QED BY <1>1, <1>2, PatchingInvariance, PTL DEF Spec
=============================================================================
