----------------------------- MODULE MCPatching -----------------------------
EXTENDS Patching

One == Other("1")

Inner == Object(<<<<1, One>>>>)

\* Empty, one member, two members against byte order, one member twice, spaced.
Objects == {Object(<<>>), Object(<<<<3, One>>>>)}
           \cup {Object(<<<<1, v>>>>) : v \in {One, Null, Inner, Object(<<<<2, One>>>>)}}
           \cup {Object(<<<<2, v>>>>) : v \in {One, Null, Inner}}
           \cup {Object(<<<<2, v>>, <<1, w>>>>) : v, w \in {One, Null}}
           \cup {Object(<<<<3, One>>, <<1, w>>>>) : w \in {One, Null}}
           \cup {Object(<<<<1, One>>, <<1, Null>>>>), Object(<<<<1, Null>>, <<1, One>>>>)}
           \cup {Spaced(Object(<<<<1, One>>>>)), Object(<<<<2, Spaced(One)>>>>)}

\* The order of the members does not survive a PATCH, not even an empty one: openapi.yaml
\* says that key order is preserved and that an empty delta leaves the value unchanged.
FieldOrder(raw) == [i \in DOMAIN raw.members |-> raw.members[i][1]]

ASSUME EmptyDeltaSorts ==
    /\ \A raw \in Objects :
          FieldOrder(Apply(raw, Object(<<>>))) = InByteOrder(FieldsOf(raw))
    /\ FieldOrder(Object(<<<<2, One>>, <<1, One>>>>)) # InByteOrder({1, 2})

MCBody == Objects \cup {One, Other("[1]"), Null, Spaced(Null)}
=============================================================================
