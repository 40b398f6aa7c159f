------------------------- MODULE ReadPreferenceProof -------------------------
(***************************************************************************)
(* What sorting, nearest_ping and picking make of a set of candidates,     *)
(* whatever their number, their types and their ping times.                *)
(***************************************************************************)
EXTENDS ReadPreference, FiniteSetTheorems, TLAPS

\* A set of connections, as far as sorting and picking look at them.
Measured(cands) == \A c \in cands : c.ping \in Nat /\ c.type \in Nat

LEMMA PingNat ==
  ASSUME NEW cands, Measured(cands), NEW c \in cands
  PROVE  c.ping \in Nat /\ c.type \in Nat
BY DEF Measured

\* Every connection picked is one of those near the first of some order.
LEMMA PickedIsNear ==
  ASSUME NEW cands, NEW mode, NEW con \in Pickable(cands, mode)
  PROVE  \E first \in FirstsOf(cands, mode) :
            /\ con \in PickServer(SelectNearest(cands, first), mode)
            /\ con \in SelectNearest(cands, first)
<1>1. PICK first \in FirstsOf(cands, mode) :
        con \in PickServer(SelectNearest(cands, first), mode)
  BY DEF Pickable
<1>2. con \in SelectNearest(cands, first)
  BY <1>1 DEF PickServer, FirstsOf
<1> QED BY <1>1, <1>2

\* With a mode that does not look at types, or among connections of one type, the
\* first is the nearest, and what is picked is within the cutoff of every other.
LEMMA NearestPicked ==
  ASSUME NEW cands, Measured(cands), NEW mode,
         \/ mode \notin {"primaryPreferred", "secondaryPreferred"}
         \/ \A c, d \in cands : c.type = d.type,
         NEW con \in Pickable(cands, mode)
  PROVE  /\ \A d \in cands : con.ping <= d.ping + CUTOFF
         /\ \E first \in cands : /\ \A d \in cands : first.ping <= d.ping
                                 /\ con.ping <= first.ping + CUTOFF
<1>1. PICK first \in FirstsOf(cands, mode) : con \in SelectNearest(cands, first)
  BY PickedIsNear
<1>2. first \in cands /\ con \in cands /\ con.ping <= first.ping + CUTOFF
  BY <1>1 DEF FirstsOf, SelectNearest
<1>3. ASSUME NEW d \in cands
      PROVE  first.ping <= d.ping
  <2>1. ~Before(mode, d, first)
    BY <1>1, <1>3 DEF FirstsOf
  <2>2. ~(d.ping < first.ping)
    <3>1. CASE mode \notin {"primaryPreferred", "secondaryPreferred"}
      BY <2>1, <3>1 DEF Before
    <3>2. CASE \A c, e \in cands : c.type = e.type
      BY <1>2, <2>1, <3>2 DEF Before
    <3> QED BY <3>1, <3>2
  <2> QED BY <1>2, <2>2, PingNat
<1>4. ASSUME NEW d \in cands
      PROVE  con.ping <= d.ping + CUTOFF
  <2>1. con.ping \in Nat /\ first.ping \in Nat /\ d.ping \in Nat
    BY <1>2, PingNat
  <2> QED BY <1>2, <1>3, <2>1 DEF CUTOFF
<1> QED BY <1>2, <1>3, <1>4

\* primaryPreferred: a primary, if there is one.
LEMMA PrimaryPicked ==
  ASSUME NEW cands, Measured(cands), \A c \in cands : c.type \in {PRIMARY, SECONDARY},
         NEW p \in cands, p.type = PRIMARY,
         NEW con \in Pickable(cands, "primaryPreferred")
  PROVE  con.type = PRIMARY
<1>1. PICK first \in FirstsOf(cands, "primaryPreferred") :
        con \in PickServer(SelectNearest(cands, first), "primaryPreferred")
  BY PickedIsNear
<1> DEFINE col == SelectNearest(cands, first)
           preferred == {c \in FirstsOf(col, "primaryPreferred") : c.type = PRIMARY}
<1>2. first \in cands /\ \A d \in cands : ~Before("primaryPreferred", d, first)
  BY <1>1 DEF FirstsOf
<1>3. first.type = PRIMARY
  <2>1. ~(p.type < first.type)
    BY <1>2 DEF Before
  <2> QED BY <1>2, <2>1 DEF PRIMARY, SECONDARY
<1>4. col \subseteq cands /\ first \in col
  BY <1>2, PingNat DEF SelectNearest, CUTOFF
<1>5. first \in preferred
  BY <1>2, <1>3, <1>4 DEF FirstsOf
<1>6. con \in preferred
  BY <1>1, <1>5 DEF PickServer
<1> QED BY <1>6

LEMMA TwoElements ==
  ASSUME NEW S, IsFiniteSet(S), NEW a \in S, NEW b \in S, a # b
  PROVE  Cardinality(S) > 1
<1>1. IsFiniteSet({a}) /\ Cardinality({a}) = 1
  BY FS_Singleton
<1>2. Cardinality({a} \cup {b}) = 2 /\ IsFiniteSet({a} \cup {b})
  BY <1>1, FS_AddElement
<1>3. {a} \cup {b} \in SUBSET S
  OBVIOUS
<1>4. Cardinality({a} \cup {b}) <= Cardinality(S) /\ Cardinality(S) \in Nat
  BY <1>3, FS_Subset, FS_CardinalityType
<1> QED BY <1>2, <1>4

\* secondaryPreferred: a secondary within the cutoff of the nearest secondary, if there
\* is one and no more than one primary.
LEMMA SecondaryPicked ==
  ASSUME NEW cands, Measured(cands), IsFiniteSet(cands),
         \A c \in cands : c.type \in {PRIMARY, SECONDARY},
         \A c, d \in cands : c.type = PRIMARY /\ d.type = PRIMARY => c = d,
         NEW s \in cands, s.type = SECONDARY,
         NEW con \in Pickable(cands, "secondaryPreferred")
  PROVE  /\ con.type = SECONDARY
         /\ \E first \in cands :
              /\ first.type = SECONDARY
              /\ \A d \in cands : d.type = SECONDARY => first.ping <= d.ping
              /\ con.ping <= first.ping + CUTOFF
<1>1. PICK first \in FirstsOf(cands, "secondaryPreferred") :
        /\ con \in PickServer(SelectNearest(cands, first), "secondaryPreferred")
        /\ con \in SelectNearest(cands, first)
  BY PickedIsNear
<1> DEFINE col == SelectNearest(cands, first)
           ignored == {c \in LastsOf(col, "secondaryPreferred") : c.type = PRIMARY}
<1>2. first \in cands /\ \A d \in cands : ~Before("secondaryPreferred", d, first)
  BY <1>1 DEF FirstsOf
<1>3. first.type = SECONDARY
  <2>1. ~(s.type > first.type)
    BY <1>2 DEF Before
  <2> QED BY <1>2, <2>1 DEF PRIMARY, SECONDARY
<1>4. ASSUME NEW d \in cands, d.type = SECONDARY
      PROVE  first.ping <= d.ping
  <2>1. ~(d.ping < first.ping)
    BY <1>2, <1>3, <1>4 DEF Before
  <2> QED BY <1>2, <2>1, PingNat
<1>5. col \subseteq cands /\ first \in col /\ con \in col /\ con.ping <= first.ping + CUTOFF
  BY <1>1, <1>2, PingNat DEF SelectNearest, CUTOFF
<1>6. ASSUME con.type # SECONDARY
      PROVE  FALSE
  <2>1. con \in cands /\ con.type = PRIMARY
    BY <1>5, <1>6
  <2>2. \A d \in col : ~Before("secondaryPreferred", con, d)
    <3>1. ASSUME NEW d \in col, Before("secondaryPreferred", con, d)
          PROVE  FALSE
      <4>1. d \in cands /\ d.type \in {PRIMARY, SECONDARY}
        BY <1>5, <3>1
      <4>2. con.type > d.type \/ (con.type = d.type /\ con.ping < d.ping)
        BY <3>1 DEF Before
      <4>3. con.type = d.type /\ con.ping < d.ping
        BY <2>1, <4>1, <4>2 DEF PRIMARY, SECONDARY
      <4>4. d = con
        BY <2>1, <4>1, <4>3
      <4> QED BY <2>1, <4>3, <4>4, PingNat
    <3> QED BY <3>1
  <2>3. con \in ignored
    BY <1>5, <2>1, <2>2 DEF LastsOf
  <2>4. con # first /\ IsFiniteSet(col)
    BY <1>3, <1>5, <1>6, FS_Subset
  <2>5. Cardinality(col) > 1
    BY <1>5, <2>4, TwoElements
  <2>6. con \in UNION {col \ {c} : c \in ignored}
    BY <1>1, <2>3, <2>5 DEF PickServer
  <2>7. PICK c \in ignored : con \in col \ {c}
    BY <2>6
  <2>8. c \in cands /\ c.type = PRIMARY
    BY <1>5 DEF LastsOf
  <2> QED BY <2>1, <2>7, <2>8
<1> QED BY <1>2, <1>3, <1>4, <1>5, <1>6
=============================================================================
