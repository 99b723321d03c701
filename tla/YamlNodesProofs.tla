--------------------------- MODULE YamlNodesProofs ---------------------------
(***************************************************************************)
(* The table of YamlNodes is the document of YamlTree: a node that is      *)
(* added behind the innermost open container changes the values on the     *)
(* way down to it and no other.                                            *)
(***************************************************************************)
EXTENDS YamlNodes, SequenceTheorems, WellFoundedInduction, TLAPS

Keys == Texts \union {NoText}

Entries == [key : Keys, value : Nat]

(* The node types of the code, and whatever ScalarType makes of a text. *)
Types ==
  {"MAP", "SEQUENCE", "INT", "FLOAT", "BOOL", "STRING"}
    \union {ScalarType[text] : text \in Texts}

NodeSet == [type : Types, text : Keys, items : Seq(Entries)]

(* c is the node of item i of node n. *)
Has(T, n, i, c) ==
  n \in DOMAIN T /\ i \in 1..Len(T[n].items) /\ c = T[n].items[i].value

TableSound(T) ==
  /\ T \in [DOMAIN T -> NodeSet]
  /\ \E b \in Nat : DOMAIN T \subseteq 0..b
  /\ \A n, i, c : Has(T, n, i, c) => c \in DOMAIN T /\ n < c

Filled(T, v, n) ==
  [T[n] EXCEPT !.items =
    [i \in 1..Len(T[n].items) |->
      [key   |-> T[n].items[i].key,
       value |-> v[T[n].items[i].value]]]]

AreValues(T, v) == v = [n \in DOMAIN T |-> Filled(T, v, n)]

(* A set of naturals has a least element. *)
LEMMA LeastNat ==
  ASSUME NEW S, S \subseteq Nat, S # {}
  PROVE  \E x \in S : \A y \in S : x <= y
<1>1. PICK x \in S : \A y \in S : <<y, x>> \notin OpToRel(<, Nat)
  BY NatLessThanWellFounded, WFMin
<1>2. \A y \in S : ~(y < x)
  BY <1>1 DEF OpToRel
<1> QED BY <1>2

LEMMA NodeFields ==
  ASSUME NEW T, TableSound(T), NEW n \in DOMAIN T
  PROVE  /\ T[n] \in NodeSet
         /\ T[n] = [type |-> T[n].type, text |-> T[n].text, items |-> T[n].items]
         /\ T[n].items \in Seq(Entries)
         /\ Len(T[n].items) \in Nat
         /\ DOMAIN T[n].items = 1..Len(T[n].items)
<1>1. T[n] \in NodeSet
  BY DEF TableSound
<1> QED BY <1>1 DEF NodeSet

LEMMA FilledIs ==
  ASSUME NEW T, TableSound(T), NEW n \in DOMAIN T, NEW v
  PROVE  Filled(T, v, n) =
           [type |-> T[n].type, text |-> T[n].text,
            items |-> [i \in 1..Len(T[n].items) |->
                         [key   |-> T[n].items[i].key,
                          value |-> v[T[n].items[i].value]]]]
<1> DEFINE s == [i \in 1..Len(T[n].items) |->
                   [key   |-> T[n].items[i].key,
                    value |-> v[T[n].items[i].value]]]
<1>1. T[n] = [type |-> T[n].type, text |-> T[n].text, items |-> T[n].items]
  BY NodeFields
<1> HIDE DEF s
<1>2. [T[n] EXCEPT !.items = s] = [type |-> T[n].type, text |-> T[n].text, items |-> s]
  BY <1>1
<1> QED BY <1>2 DEF Filled, s

(* What a node is filled with depends on the values behind it only. *)
LEMMA FilledSame ==
  ASSUME NEW T, TableSound(T), NEW n \in DOMAIN T, NEW v, NEW w,
         \A i, c : Has(T, n, i, c) => v[c] = w[c]
  PROVE  Filled(T, v, n) = Filled(T, w, n)
<1>1. \A i \in 1..Len(T[n].items) :
        v[T[n].items[i].value] = w[T[n].items[i].value]
  BY DEF Has
<1>2. [i \in 1..Len(T[n].items) |->
         [key |-> T[n].items[i].key, value |-> v[T[n].items[i].value]]] =
      [i \in 1..Len(T[n].items) |->
         [key |-> T[n].items[i].key, value |-> w[T[n].items[i].value]]]
  BY <1>1
<1> QED BY <1>2, Zenon DEF Filled

(* The values exist: they are found from the last node to the first. *)
LEMMA ValuesExist ==
  ASSUME NEW T, TableSound(T)
  PROVE  \E v : AreValues(T, v)
<1>1. PICK b \in Nat : DOMAIN T \subseteq 0..b
  BY DEF TableSound
<1> DEFINE Right(v, k) ==
             /\ DOMAIN v = DOMAIN T
             /\ v = [n \in DOMAIN T |-> v[n]]
             /\ \A n \in DOMAIN T : n + k > b => v[n] = Filled(T, v, n)
           Bad == {k \in Nat : ~ \E v : Right(v, k)}
<1>2. \A n \in DOMAIN T : n \in Nat /\ n <= b
  BY <1>1
<1>3. CASE Bad = {}
  <2>1. b + 1 \in Nat /\ b + 1 \notin Bad
    BY <1>3
  <2>2. PICK v : Right(v, b + 1)
    BY <2>1
  <2>3. \A n \in DOMAIN T : v[n] = Filled(T, v, n)
    BY <1>2, <2>2
  <2>4. v = [n \in DOMAIN T |-> Filled(T, v, n)]
    BY <2>2, <2>3, Zenon
  <2> QED BY <2>4 DEF AreValues
<1>4. CASE Bad # {}
  <2>1. PICK k \in Bad : \A j \in Bad : k <= j
    <3> HIDE DEF Bad
    <3>1. Bad \subseteq Nat
      BY DEF Bad
    <3> QED BY <1>4, <3>1, LeastNat
  <2>2. k \in Nat /\ ~ \E v : Right(v, k)
    OBVIOUS
  <2>3. CASE k = 0
    <3> DEFINE v == [n \in DOMAIN T |-> NoText]
    <3>1. \A n \in DOMAIN T : ~(n + k > b)
      BY <1>2, <2>3
    <3>2. Right(v, k)
      BY <3>1, Zenon
    <3> QED BY <2>2, <3>2
  <2>4. CASE k # 0
    <3>1. k - 1 \in Nat /\ k - 1 \notin Bad
      BY <2>1, <2>2, <2>4
    <3>2. PICK v : Right(v, k - 1)
      BY <3>1
    <3> DEFINE m == b - (k - 1)
               w == [n \in DOMAIN T |-> IF n = m THEN Filled(T, v, m) ELSE v[n]]
    <3>3. \A n \in DOMAIN T : n + k > b => \A i, c : Has(T, n, i, c) => w[c] = v[c]
      <4> SUFFICES ASSUME NEW n \in DOMAIN T, n + k > b, NEW i, NEW c, Has(T, n, i, c)
                   PROVE  w[c] = v[c]
        OBVIOUS
      <4>1. c \in DOMAIN T /\ n < c
        BY DEF TableSound
      <4>2. c # m
        BY <1>2, <2>2, <4>1
      <4> QED BY <4>1, <4>2
    <3>4. \A n \in DOMAIN T : n + k > b => Filled(T, w, n) = Filled(T, v, n)
      <4> HIDE DEF w, m, Right, Bad
      <4> QED BY <3>3, FilledSame
    <3>5. \A n \in DOMAIN T : n + k > b => n = m \/ n + (k - 1) > b
      BY <1>2, <2>2
    <3>6. \A n \in DOMAIN T : n + k > b => w[n] = Filled(T, v, n)
      <4> SUFFICES ASSUME NEW n \in DOMAIN T, n + k > b
                   PROVE  w[n] = Filled(T, v, n)
        OBVIOUS
      <4>1. CASE n = m
        BY <4>1
      <4>2. CASE n # m
        <5>1. v[n] = Filled(T, v, n)
          BY <3>2, <3>5, <4>2
        <5> QED BY <4>2, <5>1
      <4> QED BY <4>1, <4>2
    <3>7. DOMAIN w = DOMAIN T /\ w = [n \in DOMAIN T |-> w[n]]
      BY Zenon
    <3>8. \A n \in DOMAIN T : n + k > b => w[n] = Filled(T, w, n)
      <4> HIDE DEF w, m
      <4> QED BY <3>4, <3>6
    <3>9. Right(w, k)
      <4> HIDE DEF w, m
      <4> QED BY <3>7, <3>8
    <3> QED BY <2>2, <3>9
  <2> QED BY <2>3, <2>4
<1> QED BY <1>3, <1>4

(* So the table has its values. *)
LEMMA ValuesAre ==
  ASSUME NEW T, TableSound(T)
  PROVE  AreValues(T, Values(T))
<1> DEFINE Is(v) == v = [n \in DOMAIN T |->
             [T[n] EXCEPT !.items =
               [i \in 1..Len(T[n].items) |->
                 [key   |-> T[n].items[i].key,
                  value |-> v[T[n].items[i].value]]]]]
<1>1. Values(T) = CHOOSE v : Is(v)
  BY Zenon DEF Values
<1>2. \A v : AreValues(T, v) <=> Is(v)
  BY Zenon DEF AreValues, Filled
<1>3. \E v : Is(v)
  BY <1>2, ValuesExist, Zenon
<1> HIDE DEF Is
<1>4. Is(Values(T))
  BY <1>1, <1>3, Zenon
<1> QED BY <1>2, <1>4, Zenon

(* Where two tables hold the same nodes, and what those hold too, they     *)
(* have the same values.                                                   *)
LEMMA SameValues ==
  ASSUME NEW T, NEW U, TableSound(T), TableSound(U), NEW S,
         S \subseteq DOMAIN T \cap DOMAIN U,
         \A n \in S : U[n] = T[n] /\ \A i, c : Has(T, n, i, c) => c \in S
  PROVE  \A n \in S : Values(U)[n] = Values(T)[n]
<1>1. PICK b \in Nat : DOMAIN T \subseteq 0..b
  BY DEF TableSound
<1> DEFINE v == Values(T)
           w == Values(U)
           Bad == {k \in Nat : k <= b /\ b - k \in S /\ w[b - k] # v[b - k]}
<1>2. SUFFICES ASSUME NEW n \in S, w[n] # v[n] PROVE FALSE
  OBVIOUS
<1>3. n \in Nat /\ n <= b /\ b - n \in Nat /\ b - n <= b /\ b - (b - n) = n
  <2>1. n \in 0..b
    BY <1>1
  <2> QED BY <2>1
<1>4. b - n \in Bad
  BY <1>2, <1>3
<1>5. PICK k \in Bad : \A j \in Bad : k <= j
  <2> HIDE DEF Bad
  <2>1. Bad \subseteq Nat
    BY DEF Bad
  <2> QED BY <1>4, <2>1, LeastNat
<1> DEFINE m == b - k
<1>6. k \in Nat /\ m \in S /\ w[m] # v[m] /\ m \in DOMAIN T /\ m \in DOMAIN U
  BY <1>5
<1>7. \A i, c : Has(T, m, i, c) => w[c] = v[c]
  <2> SUFFICES ASSUME NEW i, NEW c, Has(T, m, i, c) PROVE w[c] = v[c]
    OBVIOUS
  <2>1. c \in S /\ m < c
    BY <1>6 DEF TableSound
  <2>2. c \in 0..b
    BY <1>1, <2>1
  <2>3. b - c \in Nat /\ b - c <= b /\ b - (b - c) = c /\ ~(k <= b - c)
    BY <1>6, <2>1, <2>2
  <2>4. b - c \notin Bad
    BY <1>5, <2>3
  <2>5. w[b - (b - c)] = v[b - (b - c)]
    BY <2>1, <2>3, <2>4
  <2> QED BY <2>3, <2>5
<1> HIDE DEF m, v, w, Bad
<1>8. Filled(T, w, m) = Filled(T, v, m)
  BY <1>6, <1>7, FilledSame
<1>9. Filled(U, w, m) = Filled(T, w, m)
  <2>1. U[m] = T[m]
    BY <1>6
  <2> QED BY <2>1 DEF Filled
<1>10. v[m] = Filled(T, v, m)
  BY <1>6, ValuesAre DEF AreValues, v
<1>11. w[m] = Filled(U, w, m)
  BY <1>6, ValuesAre DEF AreValues, w
<1> QED BY <1>6, <1>8, <1>9, <1>10, <1>11

-------------------------------------------------------------------------------
(* A node is added. *)

(* With(id, node), for any table, path and key. *)
Added(T, p, key, id, node) ==
  [n \in DOMAIN T \union {id} |->
    IF n = id THEN node
    ELSE IF p # <<>> /\ n = p[Len(p)]
    THEN [T[n] EXCEPT !.items = Append(@, [key |-> key, value |-> id])]
    ELSE T[n]]

OneParent(T) ==
  \A m, n, i, j, c : Has(T, m, i, c) /\ Has(T, n, j, c) => m = n /\ i = j

(* A path leads from a node that nothing holds, each time to the last item. *)
PathSound(T, p) ==
  /\ p \in Seq(DOMAIN T)
  /\ \A k \in 1..(Len(p) - 1) : Has(T, p[k], Len(T[p[k]].items), p[k + 1])
  /\ p # <<>> => \A n, i : ~Has(T, n, i, p[1])

OnPath(p) == {p[k] : k \in 1..Len(p)}

LEMMA PathIncreases ==
  ASSUME NEW T, TableSound(T), NEW p, PathSound(T, p), NEW k \in 1..(Len(p) - 1)
  PROVE  p[k] < p[Len(p)]
<1> DEFINE d == Len(p)
           Bad == {j \in Nat : j # 0 /\ j < d /\ ~(p[d - j] < p[d])}
<1>1. d \in Nat /\ p \in Seq(DOMAIN T) /\ DOMAIN T \subseteq Nat
  BY DEF PathSound, TableSound
<1>2. SUFFICES ASSUME ~(p[k] < p[d]) PROVE FALSE
  OBVIOUS
<1>3. d - k \in Nat /\ d - k # 0 /\ d - k < d /\ d - (d - k) = k
  BY <1>1
<1>4. d - k \in Bad
  BY <1>2, <1>3
<1>5. PICK j \in Bad : \A i \in Bad : j <= i
  <2> HIDE DEF Bad
  <2>1. Bad \subseteq Nat
    BY DEF Bad
  <2> QED BY <1>4, <2>1, LeastNat
<1>6. j \in Nat /\ j # 0 /\ j < d /\ ~(p[d - j] < p[d])
  BY <1>5
<1>7. d - j \in 1..(d - 1) /\ d - j \in 1..d /\ (d - j) + 1 \in 1..d /\ d \in 1..d
      /\ (d - j) + 1 = d - (j - 1)
  BY <1>1, <1>6
<1>8. /\ p[d - j] \in Nat /\ p[d - (j - 1)] \in Nat /\ p[d] \in Nat
  BY <1>1, <1>7
<1>9. p[d - j] < p[d - (j - 1)]
  BY <1>7 DEF PathSound, TableSound
<1>10. CASE j = 1
  BY <1>1, <1>6, <1>9, <1>10
<1>11. CASE j # 1
  <2>1. j - 1 \in Nat /\ j - 1 # 0 /\ j - 1 < d /\ ~(j <= j - 1)
    BY <1>1, <1>6, <1>11
  <2>2. j - 1 \notin Bad
    BY <1>5, <2>1
  <2>3. p[d - (j - 1)] < p[d]
    BY <2>1, <2>2
  <2> QED BY <1>6, <1>8, <1>9, <2>3
<1> QED BY <1>10, <1>11

(* What a node holds is on the path only as its last item, one place on. *)
LEMMA HeldOnPath ==
  ASSUME NEW T, TableSound(T), OneParent(T), NEW p, PathSound(T, p),
         NEW n, NEW i, NEW c, Has(T, n, i, c), c \in OnPath(p)
  PROVE  \E k \in 1..(Len(p) - 1) : n = p[k] /\ i = Len(T[n].items)
<1>1. Len(p) \in Nat
  BY DEF PathSound
<1>2. PICK j \in 1..Len(p) : c = p[j]
  BY DEF OnPath
<1>3. j # 1
  BY <1>1, <1>2 DEF PathSound
<1>4. j - 1 \in 1..(Len(p) - 1) /\ (j - 1) + 1 = j
  BY <1>1, <1>3
<1>5. Has(T, p[j - 1], Len(T[p[j - 1]].items), p[j])
  BY <1>4 DEF PathSound
<1>6. n = p[j - 1] /\ i = Len(T[p[j - 1]].items)
  BY <1>2, <1>5 DEF OneParent
<1> QED BY <1>4, <1>6

(* A node with a number above all others may be added behind the path. *)
Addable(T, p, key, id, node) ==
  /\ TableSound(T) /\ OneParent(T) /\ PathSound(T, p)
  /\ key \in Keys
  /\ id \in Nat /\ \A n \in DOMAIN T : n < id
  /\ node \in NodeSet /\ node.items = <<>>

IsInnermost(p, n) == p # <<>> /\ n = p[Len(p)]

AddedTo(T, p, key, id, node, U) ==
  /\ TableSound(U)
  /\ id \notin DOMAIN T /\ DOMAIN U = DOMAIN T \union {id} /\ U[id] = node
  /\ \A n \in DOMAIN T : ~IsInnermost(p, n) => U[n] = T[n]
  /\ p # <<>> =>
       /\ p[Len(p)] \in DOMAIN T
       /\ U[p[Len(p)]].type = T[p[Len(p)]].type
       /\ U[p[Len(p)]].text = T[p[Len(p)]].text
       /\ U[p[Len(p)]].items =
            Append(T[p[Len(p)]].items, [key |-> key, value |-> id])
  /\ \A n, i, c : Has(U, n, i, c) <=>
       \/ Has(T, n, i, c)
       \/ IsInnermost(p, n) /\ i = Len(T[n].items) + 1 /\ c = id

(* The table stays one. *)
LEMMA AddedSound ==
  ASSUME NEW T, NEW p, NEW key, NEW id, NEW node, Addable(T, p, key, id, node),
         NEW U, U = Added(T, p, key, id, node)
  PROVE  AddedTo(T, p, key, id, node, U)
<1> SUFFICES ASSUME TableSound(T), PathSound(T, p), key \in Keys,
                    id \in Nat, \A n \in DOMAIN T : n < id,
                    node \in NodeSet, node.items = <<>>
             PROVE  AddedTo(T, p, key, id, node, U)
  BY DEF Addable
<1> DEFINE top == p[Len(p)]
           item == [key |-> key, value |-> id]
<1>1. PICK b \in Nat : DOMAIN T \subseteq 0..b
  BY DEF TableSound
<1>2. DOMAIN T \subseteq 0..id
  BY <1>1
<1>3. id \notin DOMAIN T
  BY <1>1
<1>4. DOMAIN U = DOMAIN T \union {id} /\ U[id] = node
  BY DEF Added
<1>5. \A n \in DOMAIN T : ~(p # <<>> /\ n = p[Len(p)]) => U[n] = T[n]
  BY <1>3 DEF Added
<1>6. ASSUME p # <<>>
      PROVE  /\ top \in DOMAIN T
             /\ U[top] = [type |-> T[top].type, text |-> T[top].text,
                          items |-> Append(T[top].items, item)]
             /\ Append(T[top].items, item) \in Seq(Entries)
             /\ Len(Append(T[top].items, item)) = Len(T[top].items) + 1
             /\ \A i \in 1..Len(T[top].items) :
                  Append(T[top].items, item)[i] = T[top].items[i]
             /\ Append(T[top].items, item)[Len(T[top].items) + 1] = item
  <2>1. p \in Seq(DOMAIN T) /\ Len(p) \in 1..Len(p)
    BY <1>6 DEF PathSound
  <2>2. top \in DOMAIN T
    BY <2>1
  <2>3. item \in Entries
    BY DEF Entries
  <2>4. U[top] = [T[top] EXCEPT !.items = Append(@, item)]
    BY <1>3, <1>6, <2>2 DEF Added
  <2> HIDE DEF top, item
  <2>5. /\ T[top] = [type |-> T[top].type, text |-> T[top].text, items |-> T[top].items]
        /\ T[top].items \in Seq(Entries) /\ Len(T[top].items) \in Nat
    BY <2>2, NodeFields
  <2>6. U[top] = [type |-> T[top].type, text |-> T[top].text,
                  items |-> Append(T[top].items, item)]
    BY <2>4, <2>5
  <2> QED BY <2>2, <2>3, <2>5, <2>6
<1>7. \A n, i, c : Has(U, n, i, c) <=>
        \/ Has(T, n, i, c)
        \/ p # <<>> /\ n = p[Len(p)] /\ i = Len(T[n].items) + 1 /\ c = id
  <2> SUFFICES ASSUME NEW n, NEW i, NEW c
               PROVE  Has(U, n, i, c) <=>
                        \/ Has(T, n, i, c)
                        \/ p # <<>> /\ n = top /\ i = Len(T[n].items) + 1 /\ c = id
    OBVIOUS
  <2>1. CASE p # <<>> /\ n = top
    <3>1. U[n].items = Append(T[n].items, item) /\ n \in DOMAIN T
      BY <1>6, <2>1
    <3>2. Len(T[n].items) \in Nat
      BY <3>1, NodeFields
    <3> HIDE DEF top
    <3>3. Len(U[n].items) = Len(T[n].items) + 1
      BY <1>6, <2>1, <3>1
    <3>4. \A j \in 1..Len(T[n].items) : U[n].items[j] = T[n].items[j]
      BY <1>6, <2>1, <3>1
    <3>5. U[n].items[Len(T[n].items) + 1].value = id
      BY <1>6, <2>1, <3>1
    <3>6. 1..(Len(T[n].items) + 1) =
            (1..Len(T[n].items)) \union {Len(T[n].items) + 1}
      BY <3>2
    <3>7. n \in DOMAIN U
      BY <1>4, <3>1
    <3> QED BY <2>1, <3>1, <3>2, <3>3, <3>4, <3>5, <3>6, <3>7 DEF Has
  <2>2. CASE ~(p # <<>> /\ n = top) /\ n = id
    <3>1. U[n].items = <<>> /\ Len(<<>>) = 0 /\ 1..0 = {}
      BY <1>4, <2>2
    <3> HIDE DEF top
    <3> QED BY <1>3, <2>2, <3>1 DEF Has
  <2>3. CASE ~(p # <<>> /\ n = top) /\ n # id
    <3>1. n \in DOMAIN U <=> n \in DOMAIN T
      BY <1>4, <2>3
    <3>2. n \in DOMAIN T => U[n] = T[n]
      BY <1>5, <2>3
    <3> HIDE DEF top
    <3> QED BY <2>3, <3>1, <3>2 DEF Has
  <2> QED BY <2>1, <2>2, <2>3
<1>8. \A n \in DOMAIN U : U[n] \in NodeSet
  <2> SUFFICES ASSUME NEW n \in DOMAIN U PROVE U[n] \in NodeSet
    OBVIOUS
  <2>1. CASE n = id
    BY <1>4, <2>1
  <2>2. CASE n # id /\ ~(p # <<>> /\ n = top)
    <3>1. n \in DOMAIN T /\ U[n] = T[n]
      BY <1>4, <1>5, <2>2
    <3> QED BY <3>1, NodeFields
  <2>3. CASE p # <<>> /\ n = top
    <3> HIDE DEF top, item
    <3>1. T[top] \in NodeSet
      BY <1>6, <2>3, NodeFields
    <3>2. /\ T[top].type \in Types
          /\ T[top].text \in Keys
      BY <3>1 DEF NodeSet
    <3> DEFINE x == T[top].type
               y == T[top].text
               s == Append(T[top].items, item)
    <3>3. U[n] = [type |-> x, text |-> y, items |-> s] /\ s \in Seq(Entries)
      BY <1>6, <2>3
    <3>4. x \in Types /\ y \in Keys
      BY <3>2
    <3> HIDE DEF x, y, s
    <3> QED BY <3>3, <3>4 DEF NodeSet
  <2> QED BY <2>1, <2>2, <2>3
<1>9. U \in [DOMAIN U -> NodeSet]
  <2>1. U = [n \in DOMAIN U |-> U[n]]
    BY <1>4, Zenon DEF Added
  <2> QED BY <1>8, <2>1
<1>10. DOMAIN U \subseteq 0..id
  BY <1>2, <1>4
<1>11. \A n, i, c : Has(U, n, i, c) => c \in DOMAIN U /\ n < c
  <2> SUFFICES ASSUME NEW n, NEW i, NEW c, Has(U, n, i, c)
               PROVE  c \in DOMAIN U /\ n < c
    OBVIOUS
  <2>1. CASE Has(T, n, i, c)
    BY <1>4, <2>1 DEF TableSound
  <2>2. CASE p # <<>> /\ n = p[Len(p)] /\ c = id
    BY <1>4, <1>6, <2>2
  <2> QED BY <1>7, <2>1, <2>2
<1>12. TableSound(U)
  <2> QED BY <1>9, <1>10, <1>11 DEF TableSound
<1>13. p # <<>> =>
         /\ top \in DOMAIN T /\ U[top].type = T[top].type /\ U[top].text = T[top].text
         /\ U[top].items = Append(T[top].items, item)
  <2> HIDE DEF top, item
  <2> QED BY <1>6
<1> QED BY <1>3, <1>4, <1>5, <1>7, <1>12, <1>13 DEF AddedTo, IsInnermost

LEMMA AddedShape ==
  ASSUME NEW T, NEW p, NEW key, NEW id, NEW node, Addable(T, p, key, id, node),
         NEW U, AddedTo(T, p, key, id, node, U)
  PROVE  OneParent(U) /\ PathSound(U, p) /\ PathSound(U, Append(p, id))
<1> SUFFICES ASSUME TableSound(T), OneParent(T), PathSound(T, p),
                    id \in Nat, \A n \in DOMAIN T : n < id
             PROVE  OneParent(U) /\ PathSound(U, p) /\ PathSound(U, Append(p, id))
  BY DEF Addable
<1> DEFINE d == Len(p)
           New(n, i, c) == p # <<>> /\ n = p[d] /\ i = Len(T[n].items) + 1 /\ c = id
<1>1. /\ id \notin DOMAIN T /\ DOMAIN U = DOMAIN T \union {id} /\ TableSound(U)
      /\ \A n \in DOMAIN T : ~(p # <<>> /\ n = p[d]) => U[n] = T[n]
      /\ p # <<>> => U[p[d]].items = Append(T[p[d]].items, [key |-> key, value |-> id])
      /\ \A n, i, c : Has(U, n, i, c) <=> Has(T, n, i, c) \/ New(n, i, c)
  BY DEF AddedTo, IsInnermost
<1>2. \A n, i, c : Has(T, n, i, c) => c # id
  BY <1>1 DEF TableSound
<1>3. OneParent(U)
  BY <1>1, <1>2 DEF OneParent
<1>4. p \in Seq(DOMAIN T) /\ d \in Nat /\ (p # <<>> => d \in 1..d)
  BY DEF PathSound
<1>5. p \in Seq(DOMAIN U)
  BY <1>1, <1>4
<1>6. \A k \in 1..(d - 1) : p[k] < p[d] /\ p[k] \in Nat /\ p[k] \in DOMAIN T /\ p # <<>>
  <2> SUFFICES ASSUME NEW k \in 1..(d - 1)
               PROVE  p[k] < p[d] /\ p[k] \in Nat /\ p[k] \in DOMAIN T /\ p # <<>>
    OBVIOUS
  <2>1. k \in 1..d /\ p # <<>>
    BY <1>4
  <2>2. p[k] \in DOMAIN T
    BY <1>4, <2>1
  <2>3. p[k] \in Nat
    BY <2>2 DEF TableSound
  <2>4. p[k] < p[d]
    BY PathIncreases
  <2> QED BY <2>1, <2>2, <2>3, <2>4
<1>7. \A k \in 1..(d - 1) : U[p[k]] = T[p[k]]
  BY <1>1, <1>6
<1>8. \A k \in 1..(d - 1) : Has(U, p[k], Len(U[p[k]].items), p[k + 1])
  BY <1>1, <1>7 DEF PathSound
<1>9. p # <<>> => \A n, i : ~Has(U, n, i, p[1])
  <2> SUFFICES ASSUME p # <<>>, NEW n, NEW i, Has(U, n, i, p[1]) PROVE FALSE
    OBVIOUS
  <2>1. p[1] \in DOMAIN T
    BY <1>4
  <2>2. p[1] # id
    BY <1>1, <2>1
  <2>3. Has(T, n, i, p[1])
    BY <1>1, <2>2
  <2> QED BY <2>3 DEF PathSound
<1>10. PathSound(U, p)
  BY <1>5, <1>8, <1>9 DEF PathSound
<1> DEFINE q == Append(p, id)
<1>11. /\ q \in Seq(DOMAIN U) /\ Len(q) = d + 1 /\ q[d + 1] = id
       /\ \A k \in 1..d : q[k] = p[k]
  BY <1>1, <1>4, <1>5
<1>12. ASSUME p # <<>>
       PROVE  Has(U, p[d], Len(U[p[d]].items), id)
  <2>1. p[d] \in DOMAIN T
    BY <1>4, <1>12
  <2>2. T[p[d]].items \in Seq(Entries) /\ Len(T[p[d]].items) \in Nat
    BY <2>1, NodeFields
  <2>3. U[p[d]].items = Append(T[p[d]].items, [key |-> key, value |-> id])
    BY <1>1, <1>12
  <2>4. Len(U[p[d]].items) = Len(T[p[d]].items) + 1
    BY <2>2, <2>3
  <2> QED BY <1>1, <1>12, <2>4
<1>13. \A k \in 1..((d + 1) - 1) : Has(U, q[k], Len(U[q[k]].items), q[k + 1])
  <2> SUFFICES ASSUME NEW k \in 1..d PROVE Has(U, q[k], Len(U[q[k]].items), q[k + 1])
    BY <1>4
  <2>1. q[k] = p[k] /\ d # 0
    BY <1>4, <1>11
  <2>2. CASE k = d
    <3>1. p # <<>>
      BY <2>1
    <3> QED BY <1>11, <1>12, <2>1, <2>2, <3>1
  <2>3. CASE k # d
    <3>1. k \in 1..(d - 1) /\ k + 1 \in 1..d
      BY <1>4, <2>3
    <3>2. q[k + 1] = p[k + 1]
      BY <1>11, <3>1
    <3> QED BY <1>8, <2>1, <3>1, <3>2
  <2> QED BY <2>2, <2>3
<1>14. \A n, i : ~Has(U, n, i, q[1])
  <2>1. CASE p = <<>>
    <3>1. q[1] = id
      BY <1>11, <2>1
    <3> QED BY <1>1, <1>2, <2>1, <3>1
  <2>2. CASE p # <<>>
    <3>1. q[1] = p[1]
      BY <1>4, <1>11, <2>2
    <3> QED BY <1>9, <2>2, <3>1
  <2> QED BY <2>1, <2>2
<1>15. PathSound(U, q)
  <2> HIDE DEF q
  <2> QED BY <1>11, <1>13, <1>14 DEF PathSound
<1> QED BY <1>3, <1>10, <1>15 DEF q

(* The container that ends leaves the path. *)
LEMMA ShorterPath ==
  ASSUME NEW T, NEW p, PathSound(T, p)
  PROVE  /\ PathSound(T, SubSeq(p, 1, Len(p) - 1))
         /\ Len(SubSeq(p, 1, Len(p) - 1)) = IF p = <<>> THEN 0 ELSE Len(p) - 1
         /\ \A k \in 1..(Len(p) - 1) : SubSeq(p, 1, Len(p) - 1)[k] = p[k]
<1> DEFINE q == SubSeq(p, 1, Len(p) - 1)
<1>1. p \in Seq(DOMAIN T) /\ Len(p) \in Nat
  BY DEF PathSound
<1>2. CASE p = <<>>
  <2>1. q = <<>> /\ Len(q) = 0 /\ 1..(0 - 1) = {}
    BY <1>2
  <2>2. PathSound(T, q)
    BY <2>1 DEF PathSound
  <2> QED BY <1>2, <2>1, <2>2
<1>3. CASE p # <<>>
  <2>1. Len(p) - 1 \in Nat /\ Len(p) - 1 <= Len(p)
    BY <1>1, <1>3
  <2>2. /\ q \in Seq(DOMAIN T) /\ Len(q) = Len(p) - 1
        /\ \A k \in 1..(Len(p) - 1) : q[k] = p[k]
    <3> DEFINE n == Len(p) - 1
               r == SubSeq(p, 1, n)
    <3>1. n \in Nat /\ n <= Len(p)
      BY <2>1
    <3> HIDE DEF n
    <3>2. r \in Seq(DOMAIN T) /\ DOMAIN r = 1..n /\ \A k \in 1..n : r[k] = p[k]
      BY <1>1, <3>1
    <3>3. DOMAIN r = 1..Len(r) /\ Len(r) \in Nat
      BY <3>2
    <3> HIDE DEF r
    <3>4. Len(r) = n
      BY <3>1, <3>2, <3>3
    <3> QED BY <3>2, <3>4 DEF n, r
  <2> HIDE DEF q
  <2>3. \A k \in 1..(Len(q) - 1) :
          k \in 1..(Len(p) - 1) /\ k + 1 \in 1..(Len(p) - 1)
    BY <2>1, <2>2
  <2>4. \A k \in 1..(Len(q) - 1) : Has(T, q[k], Len(T[q[k]].items), q[k + 1])
    BY <2>2, <2>3 DEF PathSound
  <2>5. q # <<>> => q[1] = p[1]
    <3> SUFFICES ASSUME q # <<>> PROVE q[1] = p[1]
      OBVIOUS
    <3>1. Len(q) # 0
      BY <2>2
    <3>2. 1 \in 1..(Len(p) - 1)
      BY <2>1, <2>2, <3>1
    <3> QED BY <2>2, <3>2
  <2>6. PathSound(T, q)
    BY <1>3, <2>2, <2>4, <2>5 DEF PathSound
  <2> QED BY <1>3, <2>2, <2>6 DEF q
<1> QED BY <1>2, <1>3

-------------------------------------------------------------------------------
(* The values after a node is added. *)

LEMMA ValueIs ==
  ASSUME NEW T, TableSound(T), NEW n \in DOMAIN T
  PROVE  Values(T)[n] =
           [type |-> T[n].type, text |-> T[n].text,
            items |-> [i \in 1..Len(T[n].items) |->
                         [key   |-> T[n].items[i].key,
                          value |-> Values(T)[T[n].items[i].value]]]]
<1> DEFINE v == Values(T)
<1>1. AreValues(T, v)
  BY ValuesAre
<1> HIDE DEF v
<1>2. v[n] = Filled(T, v, n)
  BY <1>1 DEF AreValues
<1>3. Filled(T, v, n) =
        [type |-> T[n].type, text |-> T[n].text,
         items |-> [i \in 1..Len(T[n].items) |->
                      [key   |-> T[n].items[i].key,
                       value |-> v[T[n].items[i].value]]]]
  BY FilledIs
<1> QED BY <1>2, <1>3 DEF v

LEMMA ValueFields ==
  ASSUME NEW T, TableSound(T), NEW n \in DOMAIN T
  PROVE  /\ Values(T)[n].type = T[n].type
         /\ Values(T)[n].text = T[n].text
         /\ Len(T[n].items) \in Nat
         /\ Len(Values(T)[n].items) = Len(T[n].items)
         /\ DOMAIN Values(T)[n].items = 1..Len(T[n].items)
         /\ \A i \in 1..Len(T[n].items) :
              Values(T)[n].items[i] =
                [key   |-> T[n].items[i].key,
                 value |-> Values(T)[T[n].items[i].value]]
         /\ Values(T)[n].items = [i \in 1..Len(T[n].items) |-> Values(T)[n].items[i]]
         /\ Values(T)[n] = [type |-> T[n].type, text |-> T[n].text,
                            items |-> Values(T)[n].items]
<1> DEFINE v == Values(T)
           s == [i \in 1..Len(T[n].items) |->
                  [key   |-> T[n].items[i].key,
                   value |-> v[T[n].items[i].value]]]
<1>1. Len(T[n].items) \in Nat
  BY NodeFields
<1>2. v[n] = [type |-> T[n].type, text |-> T[n].text, items |-> s]
  BY ValueIs
<1>3. /\ DOMAIN s = 1..Len(T[n].items) /\ Len(s) = Len(T[n].items)
      /\ s = [i \in 1..Len(T[n].items) |-> s[i]]
      /\ \A i \in 1..Len(T[n].items) :
           s[i] = [key |-> T[n].items[i].key, value |-> v[T[n].items[i].value]]
  <2> HIDE DEF v
  <2>1. s = [i \in 1..Len(T[n].items) |-> s[i]]
    BY Zenon
  <2>2. DOMAIN s = 1..Len(T[n].items)
    OBVIOUS
  <2>3. \A i \in 1..Len(T[n].items) :
           s[i] = [key |-> T[n].items[i].key, value |-> v[T[n].items[i].value]]
    BY Zenon
  <2> HIDE DEF s
  <2> QED BY <1>1, <2>1, <2>2, <2>3
<1> HIDE DEF s, v
<1>4. /\ v[n].items = s /\ v[n].type = T[n].type /\ v[n].text = T[n].text
      /\ v[n] = [type |-> T[n].type, text |-> T[n].text, items |-> v[n].items]
  BY <1>2
<1> QED BY <1>1, <1>3, <1>4 DEF v

LEMMA ValueOffPath ==
  ASSUME NEW T, NEW p, NEW key, NEW id, NEW node, Addable(T, p, key, id, node),
         NEW U, AddedTo(T, p, key, id, node, U),
         NEW n \in DOMAIN T \ OnPath(p)
  PROVE  Values(U)[n] = Values(T)[n]
<1> DEFINE S == DOMAIN T \ OnPath(p)
<1>1. TableSound(T) /\ OneParent(T) /\ PathSound(T, p) /\ TableSound(U)
  BY DEF Addable, AddedTo
<1>2. S \subseteq DOMAIN T \cap DOMAIN U
  BY DEF AddedTo
<1>3. \A m \in S : U[m] = T[m]
  <2> SUFFICES ASSUME NEW m \in S PROVE U[m] = T[m]
    OBVIOUS
  <2>1. p # <<>> => Len(p) \in 1..Len(p)
    BY <1>1 DEF PathSound
  <2>2. ~IsInnermost(p, m)
    BY <2>1 DEF IsInnermost, OnPath
  <2> QED BY <2>2 DEF AddedTo
<1>4. \A m \in S : \A i, c : Has(T, m, i, c) => c \in S
  <2> SUFFICES ASSUME NEW m \in S, NEW i, NEW c, Has(T, m, i, c) PROVE c \in S
    OBVIOUS
  <2>1. c \in DOMAIN T
    BY <1>1 DEF TableSound
  <2>2. ASSUME c \in OnPath(p) PROVE FALSE
    <3>1. PICK k \in 1..(Len(p) - 1) : m = p[k]
      BY <1>1, <2>2, HeldOnPath
    <3>2. k \in 1..Len(p)
      BY <1>1 DEF PathSound
    <3> QED BY <3>1, <3>2 DEF OnPath
  <2> QED BY <2>1, <2>2
<1> HIDE DEF S
<1>5. \A m \in S : Values(U)[m] = Values(T)[m]
  BY <1>1, <1>2, <1>3, <1>4, SameValues
<1> QED BY <1>5 DEF S

(* The new node has no items, so that it is its own value. *)
LEMMA ValueOfNew ==
  ASSUME NEW T, NEW p, NEW key, NEW id, NEW node, Addable(T, p, key, id, node),
         NEW U, AddedTo(T, p, key, id, node, U)
  PROVE  Values(U)[id] = node
<1>1. TableSound(U) /\ id \in DOMAIN U /\ U[id] = node /\ node.items = <<>>
  BY DEF Addable, AddedTo
<1>2. node = [type |-> node.type, text |-> node.text, items |-> <<>>]
  <2>1. U[id] = [type |-> U[id].type, text |-> U[id].text, items |-> U[id].items]
    BY <1>1, NodeFields
  <2> QED BY <1>1, <2>1
<1> DEFINE s == [i \in 1..Len(U[id].items) |->
                  [key   |-> U[id].items[i].key,
                   value |-> Values(U)[U[id].items[i].value]]]
<1>3. s = <<>>
  <2>1. Len(U[id].items) = 0 /\ 1..0 = {}
    BY <1>1
  <2>2. DOMAIN s = {}
    BY <2>1
  <2>3. s = [i \in {} |-> s[i]] /\ <<>> = [i \in {} |-> s[i]]
    BY <2>1, <2>2
  <2> HIDE DEF s
  <2> QED BY <2>3
<1>4. Values(U)[id] = [type |-> U[id].type, text |-> U[id].text, items |-> s]
  BY <1>1, ValueIs
<1> HIDE DEF s
<1> QED BY <1>1, <1>2, <1>3, <1>4

(* The innermost container has one more item. *)
LEMMA ValueOfInnermost ==
  ASSUME NEW T, NEW p, NEW key, NEW id, NEW node, Addable(T, p, key, id, node),
         NEW U, AddedTo(T, p, key, id, node, U), p # <<>>
  PROVE  Values(U)[p[Len(p)]] =
           [Values(T)[p[Len(p)]] EXCEPT !.items =
              Append(@, [key |-> key, value |-> node])]
<1> DEFINE top == p[Len(p)]
           v == Values(T)
           w == Values(U)
           l == Len(T[top].items)
           item == [key |-> key, value |-> node]
           entry == [key |-> key, value |-> id]
<1>1. /\ TableSound(T) /\ OneParent(T) /\ PathSound(T, p) /\ TableSound(U)
      /\ top \in DOMAIN T /\ top \in DOMAIN U
      /\ U[top].type = T[top].type /\ U[top].text = T[top].text
      /\ U[top].items = Append(T[top].items, entry)
      /\ Len(p) \in 1..Len(p)
  BY DEF Addable, AddedTo, PathSound
<1>2. /\ v[top] = [type |-> T[top].type, text |-> T[top].text, items |-> v[top].items]
      /\ Len(v[top].items) = l /\ v[top].items = [i \in 1..l |-> v[top].items[i]]
      /\ \A i \in 1..l : v[top].items[i] =
           [key |-> T[top].items[i].key, value |-> v[T[top].items[i].value]]
      /\ l \in Nat
  BY <1>1, ValueFields
<1>3. /\ T[top].items \in Seq(Entries)
      /\ Len(U[top].items) = l + 1 /\ U[top].items[l + 1] = entry
      /\ \A i \in 1..l : U[top].items[i] = T[top].items[i]
  <2>1. T[top].items \in Seq(Entries)
    BY <1>1, NodeFields
  <2> HIDE DEF top, entry
  <2> QED BY <1>1, <2>1
<1>4. /\ w[top] = [type |-> U[top].type, text |-> U[top].text, items |-> w[top].items]
      /\ w[top].items = [i \in 1..(l + 1) |-> w[top].items[i]]
      /\ \A i \in 1..(l + 1) : w[top].items[i] =
           [key |-> U[top].items[i].key, value |-> w[U[top].items[i].value]]
  <2>1. /\ w[top] = [type |-> U[top].type, text |-> U[top].text, items |-> w[top].items]
        /\ w[top].items = [i \in 1..Len(U[top].items) |-> w[top].items[i]]
        /\ \A i \in 1..Len(U[top].items) : w[top].items[i] =
             [key |-> U[top].items[i].key, value |-> w[U[top].items[i].value]]
    BY <1>1, ValueFields
  <2> HIDE DEF top, w, l
  <2> QED BY <1>3, <2>1
<1>5. w[id] = node
  BY ValueOfNew
<1>6. \A i \in 1..l : w[T[top].items[i].value] = v[T[top].items[i].value]
  <2> SUFFICES ASSUME NEW i \in 1..l
               PROVE  w[T[top].items[i].value] = v[T[top].items[i].value]
    OBVIOUS
  <2> DEFINE c == T[top].items[i].value
  <2>1. Has(T, top, i, c)
    BY <1>1 DEF Has
  <2>2. c \in DOMAIN T
    BY <1>1, <2>1 DEF TableSound
  <2>3. ASSUME c \in OnPath(p) PROVE FALSE
    <3>1. PICK k \in 1..(Len(p) - 1) : top = p[k]
      BY <1>1, <2>1, <2>3, HeldOnPath
    <3>2. p[k] < p[Len(p)]
      BY <1>1, PathIncreases
    <3>3. top \in Nat
      BY <1>1 DEF TableSound
    <3> QED BY <3>1, <3>2, <3>3
  <2> QED BY <2>2, <2>3, ValueOffPath
<1> HIDE DEF top, v, w, l
<1>7. \A i \in 1..l : w[top].items[i] = v[top].items[i]
  <2> SUFFICES ASSUME NEW i \in 1..l PROVE w[top].items[i] = v[top].items[i]
    OBVIOUS
  <2>1. i \in 1..(l + 1)
    BY <1>2
  <2>2. w[top].items[i] = [key |-> U[top].items[i].key, value |-> w[U[top].items[i].value]]
    BY <1>4, <2>1
  <2>3. U[top].items[i] = T[top].items[i] /\ w[T[top].items[i].value] = v[T[top].items[i].value]
    BY <1>3, <1>6
  <2>4. v[top].items[i] = [key |-> T[top].items[i].key, value |-> v[T[top].items[i].value]]
    BY <1>2
  <2> QED BY <2>2, <2>3, <2>4, Zenon
<1>8. w[top].items[l + 1] = item
  <2>1. l + 1 \in 1..(l + 1)
    BY <1>2
  <2> QED BY <1>3, <1>4, <1>5, <2>1
<1> HIDE DEF item
<1> DEFINE s == v[top].items
           t == w[top].items
<1>9. t = Append(s, item)
  <2>1. s = [i \in 1..l |-> s[i]] /\ t = [i \in 1..(l + 1) |-> t[i]] /\ Len(s) = l
    BY <1>2, <1>4
  <2>2. t[l + 1] = item /\ \A i \in 1..l : t[i] = s[i]
    BY <1>7, <1>8
  <2> HIDE DEF s, t
  <2>3. Append(s, item) = [i \in 1..(l + 1) |-> IF i = l + 1 THEN item ELSE s[i]]
    BY <1>2, <2>1
  <2>4. \A i \in 1..(l + 1) : t[i] = IF i = l + 1 THEN item ELSE s[i]
    BY <1>2, <2>2
  <2> QED BY <2>1, <2>3, <2>4
<1>10. w[top] = [type |-> T[top].type, text |-> T[top].text, items |-> Append(s, item)]
  BY <1>1, <1>4, <1>9
<1>11. v[top] = [type |-> T[top].type, text |-> T[top].text, items |-> s]
  BY <1>2
<1> HIDE DEF s, t
<1>12. w[top] = [v[top] EXCEPT !.items = Append(s, item)]
  BY <1>10, <1>11
<1>13. v[top].items = s
  BY DEF s
<1> QED BY <1>12, <1>13 DEF top, v, w, item

(* Along the path the last item is the value of the next container. *)
LEMMA ValueDown ==
  ASSUME NEW T, TableSound(T), NEW p, PathSound(T, p), NEW k \in 1..(Len(p) - 1)
  PROVE  /\ p[k] \in DOMAIN T /\ Len(T[p[k]].items) \in 1..Len(T[p[k]].items)
         /\ T[p[k]].items[Len(T[p[k]].items)].value = p[k + 1]
         /\ Values(T)[p[k]].items[Len(Values(T)[p[k]].items)].value = Values(T)[p[k + 1]]
<1>1. Has(T, p[k], Len(T[p[k]].items), p[k + 1])
  BY DEF PathSound
<1>2. /\ p[k] \in DOMAIN T /\ Len(T[p[k]].items) \in 1..Len(T[p[k]].items)
      /\ T[p[k]].items[Len(T[p[k]].items)].value = p[k + 1]
  BY <1>1 DEF Has
<1> DEFINE l == Len(T[p[k]].items)
<1>3. /\ Len(Values(T)[p[k]].items) = l
      /\ Values(T)[p[k]].items[l] =
           [key |-> T[p[k]].items[l].key, value |-> Values(T)[T[p[k]].items[l].value]]
  BY <1>2, ValueFields
<1> QED BY <1>2, <1>3

(* In w the value of a container on the path is that in v, but for the     *)
(* value of its last item.                                                 *)
LastReplaced(v, w, p, k) ==
  w[p[k]] = [v[p[k]] EXCEPT !.items[Len(v[p[k]].items)].value = w[p[k + 1]]]

(* So it is when a node is added behind the innermost one. *)
LEMMA ValueOnPath ==
  ASSUME NEW T, NEW p, NEW key, NEW id, NEW node, Addable(T, p, key, id, node),
         NEW U, AddedTo(T, p, key, id, node, U), NEW k \in 1..(Len(p) - 1)
  PROVE  LastReplaced(Values(T), Values(U), p, k)
<1> DEFINE n == p[k]
           v == Values(T)
           w == Values(U)
           l == Len(T[n].items)
           x == w[p[k + 1]]
<1>1. /\ TableSound(T) /\ OneParent(T) /\ PathSound(T, p) /\ TableSound(U)
      /\ DOMAIN U = DOMAIN T \union {id}
  BY DEF Addable, AddedTo
<1>2. n \in DOMAIN T /\ l \in 1..l /\ T[n].items[l].value = p[k + 1] /\ n < p[Len(p)]
  BY <1>1, ValueDown, PathIncreases
<1>3. U[n] = T[n]
  <2>1. n \in Nat
    BY <1>1, <1>2 DEF TableSound
  <2>2. ~IsInnermost(p, n)
    BY <1>2, <2>1 DEF IsInnermost
  <2> QED BY <1>2, <2>2 DEF AddedTo
<1>4. /\ l \in Nat
      /\ v[n] = [type |-> T[n].type, text |-> T[n].text, items |-> v[n].items]
      /\ Len(v[n].items) = l /\ DOMAIN v[n].items = 1..l
      /\ v[n].items = [i \in 1..l |-> v[n].items[i]]
      /\ \A i \in 1..l : v[n].items[i] =
           [key |-> T[n].items[i].key, value |-> v[T[n].items[i].value]]
  BY <1>1, <1>2, ValueFields
<1>5. /\ w[n] = [type |-> T[n].type, text |-> T[n].text, items |-> w[n].items]
      /\ w[n].items = [i \in 1..l |-> w[n].items[i]]
      /\ \A i \in 1..l : w[n].items[i] =
           [key |-> T[n].items[i].key, value |-> w[T[n].items[i].value]]
  <2>1. /\ w[n] = [type |-> U[n].type, text |-> U[n].text, items |-> w[n].items]
        /\ w[n].items = [i \in 1..Len(U[n].items) |-> w[n].items[i]]
        /\ \A i \in 1..Len(U[n].items) : w[n].items[i] =
             [key |-> U[n].items[i].key, value |-> w[U[n].items[i].value]]
    BY <1>1, <1>2, ValueFields
  <2> HIDE DEF n, w
  <2> QED BY <1>3, <2>1
<1>6. \A i \in 1..l : i # l => w[T[n].items[i].value] = v[T[n].items[i].value]
  <2> SUFFICES ASSUME NEW i \in 1..l, i # l
               PROVE  w[T[n].items[i].value] = v[T[n].items[i].value]
    OBVIOUS
  <2> DEFINE c == T[n].items[i].value
  <2>1. Has(T, n, i, c)
    BY <1>2 DEF Has
  <2>2. c \in DOMAIN T
    BY <1>1, <2>1 DEF TableSound
  <2>3. ASSUME c \in OnPath(p) PROVE FALSE
    <3>1. PICK j \in 1..(Len(p) - 1) : n = p[j] /\ i = Len(T[n].items)
      BY <1>1, <2>1, <2>3, HeldOnPath
    <3> QED BY <3>1
  <2> QED BY <2>2, <2>3, ValueOffPath
<1> HIDE DEF n, v, w, l, x
<1> DEFINE s == v[n].items
           t == w[n].items
           last == [s[l] EXCEPT !.value = x]
<1>7. w[T[n].items[l].value] = x
  BY <1>2 DEF x, w
<1>8. t[l] = last
  <2>1. s[l] = [key |-> T[n].items[l].key, value |-> v[T[n].items[l].value]]
    BY <1>2, <1>4
  <2>2. t[l] = [key |-> T[n].items[l].key, value |-> x]
    BY <1>2, <1>5, <1>7
  <2> HIDE DEF s, t
  <2> QED BY <2>1, <2>2
<1>9. \A i \in 1..l : i # l => t[i] = s[i]
  <2> SUFFICES ASSUME NEW i \in 1..l, i # l PROVE t[i] = s[i]
    OBVIOUS
  <2>1. t[i] = [key |-> T[n].items[i].key, value |-> w[T[n].items[i].value]]
    BY <1>5
  <2>2. s[i] = [key |-> T[n].items[i].key, value |-> v[T[n].items[i].value]]
    BY <1>4
  <2> QED BY <1>6, <2>1, <2>2, Zenon
<1>10. DOMAIN s = 1..l /\ t = [i \in 1..l |-> t[i]] /\ Len(s) = l
  BY <1>4, <1>5
<1> HIDE DEF last
<1>11. t = [s EXCEPT ![l] = last]
  <2> HIDE DEF s, t
  <2>1. [s EXCEPT ![l] = last] = [i \in 1..l |-> IF i = l THEN last ELSE s[i]]
    BY <1>10
  <2>2. \A i \in 1..l : t[i] = IF i = l THEN last ELSE s[i]
    BY <1>8, <1>9
  <2> QED BY <1>10, <2>1, <2>2
<1>12. w[n] = [v[n] EXCEPT !.items = [s EXCEPT ![l] = last]]
  <2>1. w[n] = [type |-> T[n].type, text |-> T[n].text, items |-> t]
    BY <1>5
  <2>2. v[n] = [type |-> T[n].type, text |-> T[n].text, items |-> s]
    BY <1>4
  <2> HIDE DEF s, t
  <2> QED BY <1>11, <2>1, <2>2
<1>13. [v[n] EXCEPT !.items[Len(v[n].items)].value = x] =
         [v[n] EXCEPT !.items = [s EXCEPT ![l] = last]]
  BY <1>10 DEF last
<1>14. w[n] = [v[n] EXCEPT !.items[Len(v[n].items)].value = x]
  BY <1>12, <1>13
<1> QED BY <1>14, Zenon DEF n, v, w, x, LastReplaced

-------------------------------------------------------------------------------
(* The value with the item inserted. *)

(* The right edge of a value, depth containers deep. *)
IsEdge(at, value, depth) ==
  at = [k \in 1..depth |->
         IF k = 1 THEN value
         ELSE at[k - 1].items[Len(at[k - 1].items)].value]

(* That edge with an item added to its last container. *)
IsPut(put, at, depth, item) ==
  put = [k \in 1..depth |->
          IF k = depth THEN [at[k] EXCEPT !.items = Append(@, item)]
          ELSE [at[k] EXCEPT !.items[Len(at[k].items)].value = put[k + 1]]]

LEMMA EdgeUnique ==
  ASSUME NEW depth \in Nat, NEW value, NEW a, IsEdge(a, value, depth),
         NEW b, IsEdge(b, value, depth)
  PROVE  a = b
<1> DEFINE Bad == {k \in Nat : k \in 1..depth /\ a[k] # b[k]}
<1>1. CASE Bad = {}
  <2>1. \A k \in 1..depth : a[k] = b[k]
    BY <1>1
  <2>2. /\ a = [k \in 1..depth |-> a[k]]
        /\ b = [k \in 1..depth |-> b[k]]
    BY Zenon DEF IsEdge
  <2> QED BY <2>1, <2>2
<1>2. CASE Bad # {}
  <2>1. PICK k \in Bad : \A j \in Bad : k <= j
    <3> HIDE DEF Bad
    <3>1. Bad \subseteq Nat
      BY DEF Bad
    <3> QED BY <1>2, <3>1, LeastNat
  <2>2. k \in 1..depth /\ a[k] # b[k] /\ k \in Nat
    BY <2>1
  <2>3. CASE k = 1
    BY <2>2, <2>3, Zenon DEF IsEdge
  <2>4. CASE k # 1
    <3>1. k - 1 \in 1..depth /\ k - 1 \in Nat /\ ~(k <= k - 1)
      BY <2>2, <2>4
    <3>2. a[k - 1] = b[k - 1]
      BY <2>1, <3>1
    <3>3. /\ a[k] = a[k - 1].items[Len(a[k - 1].items)].value
          /\ b[k] = b[k - 1].items[Len(b[k - 1].items)].value
      BY <2>2, <2>4, Zenon DEF IsEdge
    <3> QED BY <2>2, <3>2, <3>3, Zenon
  <2> QED BY <2>3, <2>4
<1> QED BY <1>1, <1>2

LEMMA PutUnique ==
  ASSUME NEW depth \in Nat, NEW at, NEW item, NEW a, IsPut(a, at, depth, item),
         NEW b, IsPut(b, at, depth, item)
  PROVE  a = b
<1> DEFINE Bad == {k \in Nat : depth - k \in 1..depth /\ a[depth - k] # b[depth - k]}
<1>1. CASE Bad = {}
  <2>1. \A k \in 1..depth : a[k] = b[k]
    <3> SUFFICES ASSUME NEW k \in 1..depth PROVE a[k] = b[k]
      OBVIOUS
    <3>1. depth - k \in Nat /\ depth - (depth - k) = k
      OBVIOUS
    <3>2. depth - k \notin Bad
      BY <1>1
    <3>3. depth - (depth - k) \in 1..depth
      BY <3>1
    <3>4. a[depth - (depth - k)] = b[depth - (depth - k)]
      BY <3>1, <3>2, <3>3
    <3> QED BY <3>1, <3>4
  <2>2. /\ a = [k \in 1..depth |-> a[k]]
        /\ b = [k \in 1..depth |-> b[k]]
    BY Zenon DEF IsPut
  <2> QED BY <2>1, <2>2
<1>2. CASE Bad # {}
  <2>1. PICK j \in Bad : \A i \in Bad : j <= i
    <3> HIDE DEF Bad
    <3>1. Bad \subseteq Nat
      BY DEF Bad
    <3> QED BY <1>2, <3>1, LeastNat
  <2> DEFINE k == depth - j
  <2>2. k \in 1..depth /\ a[k] # b[k] /\ j \in Nat
    BY <2>1
  <2>3. CASE k = depth
    <3> HIDE DEF k
    <3> QED BY <2>2, <2>3, Zenon DEF IsPut
  <2>4. CASE k # depth
    <3>1. k + 1 \in 1..depth /\ j - 1 \in Nat /\ depth - (j - 1) = k + 1 /\ ~(j <= j - 1)
      BY <2>2, <2>4
    <3>2. a[depth - (j - 1)] = b[depth - (j - 1)]
      <4>1. j - 1 \notin Bad
        BY <2>1, <3>1
      <4>2. depth - (j - 1) \in 1..depth
        BY <3>1
      <4> QED BY <3>1, <4>1, <4>2
    <3>3. a[k + 1] = b[k + 1]
      BY <3>1, <3>2
    <3> HIDE DEF k
    <3>4. /\ a[k] = [at[k] EXCEPT !.items[Len(at[k].items)].value = a[k + 1]]
          /\ b[k] = [at[k] EXCEPT !.items[Len(at[k].items)].value = b[k + 1]]
      BY <2>2, <2>4, Zenon DEF IsPut
    <3> QED BY <2>2, <3>3, <3>4, Zenon
  <2> QED BY <2>3, <2>4
<1> QED BY <1>1, <1>2

LEMMA InsertIs ==
  ASSUME NEW depth \in Nat, NEW value, NEW item,
         NEW at, IsEdge(at, value, depth), NEW put, IsPut(put, at, depth, item)
  PROVE  Tree!Insert(value, depth, item) = put[1]
<1> DEFINE theEdge == CHOOSE a : IsEdge(a, value, depth)
           thePut == CHOOSE b : IsPut(b, theEdge, depth, item)
<1>1. theEdge = at
  <2>1. IsEdge(theEdge, value, depth)
    BY Zenon
  <2> HIDE DEF theEdge
  <2> QED BY <2>1, EdgeUnique
<1>2. thePut = put
  <2> HIDE DEF theEdge
  <2>1. IsPut(thePut, theEdge, depth, item)
    BY <1>1, Zenon
  <2> HIDE DEF thePut
  <2> QED BY <1>1, <2>1, PutUnique
<1>3. Tree!Insert(value, depth, item) = thePut[1]
  BY Zenon DEF Tree!Insert, IsEdge, IsPut
<1> QED BY <1>2, <1>3

LEMMA InsertAdded ==
  ASSUME NEW T, NEW p, NEW key, NEW id, NEW node, Addable(T, p, key, id, node),
         NEW U, AddedTo(T, p, key, id, node, U), p # <<>>
  PROVE  Tree!Insert(Values(T)[p[1]], Len(p), [key |-> key, value |-> node]) =
           Values(U)[p[1]]
<1>0. \A k \in 1..(Len(p) - 1) : LastReplaced(Values(T), Values(U), p, k)
  BY ValueOnPath, Zenon
<1> DEFINE v == Values(T)
           w == Values(U)
           d == Len(p)
           item == [key |-> key, value |-> node]
           at == [k \in 1..d |-> v[p[k]]]
           put == [k \in 1..d |-> w[p[k]]]
<1>1. TableSound(T) /\ PathSound(T, p) /\ d \in Nat /\ 1 \in 1..d /\ d \in 1..d
  BY DEF Addable, PathSound
<1>2. IsEdge(at, v[p[1]], d)
  <2>1. \A k \in 1..d : k # 1 => v[p[k]] = at[k - 1].items[Len(at[k - 1].items)].value
    <3> SUFFICES ASSUME NEW k \in 1..d, k # 1
                 PROVE  v[p[k]] = at[k - 1].items[Len(at[k - 1].items)].value
      OBVIOUS
    <3>1. k - 1 \in 1..(d - 1) /\ k - 1 \in 1..d /\ (k - 1) + 1 = k
      BY <1>1
    <3>2. at[k - 1] = v[p[k - 1]]
      BY <3>1, Zenon
    <3>3. v[p[k - 1]].items[Len(v[p[k - 1]].items)].value = v[p[(k - 1) + 1]]
      BY <1>1, <3>1, ValueDown
    <3> HIDE DEF at, v, d
    <3> QED BY <3>1, <3>2, <3>3
  <2>2. \A k \in 1..d :
          v[p[k]] = IF k = 1 THEN v[p[1]]
                    ELSE at[k - 1].items[Len(at[k - 1].items)].value
    <3> HIDE DEF at, v, d
    <3> QED BY <2>1, Zenon
  <2>3. at = [k \in 1..d |-> IF k = 1 THEN v[p[1]]
                             ELSE at[k - 1].items[Len(at[k - 1].items)].value]
    <3> HIDE DEF v, d
    <3> QED BY <2>2, Zenon
  <2> QED BY <2>3, Zenon DEF IsEdge
<1>3. IsPut(put, at, d, item)
  <2>1. w[p[d]] = [at[d] EXCEPT !.items = Append(@, item)]
    <3>1. at[d] = v[p[d]]
      BY <1>1, Zenon
    <3>2. w[p[d]] = [v[p[d]] EXCEPT !.items = Append(@, item)]
      BY ValueOfInnermost
    <3> QED BY <3>1, <3>2, Zenon
  <2>2. \A k \in 1..d : k # d =>
          w[p[k]] = [at[k] EXCEPT !.items[Len(at[k].items)].value = put[k + 1]]
    <3> SUFFICES ASSUME NEW k \in 1..d, k # d
                 PROVE  w[p[k]] = [at[k] EXCEPT !.items[Len(at[k].items)].value = put[k + 1]]
      OBVIOUS
    <3>1. k \in 1..(d - 1) /\ k + 1 \in 1..d
      BY <1>1
    <3>2. at[k] = v[p[k]] /\ put[k + 1] = w[p[k + 1]]
      BY <3>1, Zenon
    <3>3. w[p[k]] = [v[p[k]] EXCEPT !.items[Len(v[p[k]].items)].value = w[p[k + 1]]]
      BY <1>0, <3>1, Zenon DEF LastReplaced
    <3> HIDE DEF at, put, v, w, d
    <3> QED BY <3>2, <3>3, Zenon
  <2>3. \A k \in 1..d :
          w[p[k]] = IF k = d THEN [at[k] EXCEPT !.items = Append(@, item)]
                    ELSE [at[k] EXCEPT !.items[Len(at[k].items)].value = put[k + 1]]
    <3> HIDE DEF at, put, v, w, d, item
    <3> QED BY <2>1, <2>2, Zenon
  <2>4. put = [k \in 1..d |->
                 IF k = d THEN [at[k] EXCEPT !.items = Append(@, item)]
                 ELSE [at[k] EXCEPT !.items[Len(at[k].items)].value = put[k + 1]]]
    <3> HIDE DEF at, v, w, d, item
    <3> QED BY <2>3, Zenon
  <2> HIDE DEF at, put, d, item
  <2> QED BY <2>4, Zenon DEF IsPut
<1>4. put[1] = w[p[1]]
  BY <1>1, Zenon
<1>5. Tree!Insert(v[p[1]], d, item) = put[1]
  <2> HIDE DEF at, put, v, w, d, item
  <2> QED BY <1>1, <1>2, <1>3, InsertIs
<1> QED BY <1>4, <1>5

-------------------------------------------------------------------------------
(* The events. *)

Positions == {"key", "value", "item"}

YamlInv ==
  /\ open \in Seq(Positions)
  /\ stage \in {"stream", "document", "root"} => open = <<>>
  /\ stage = "content" => open # <<>>

(* What the nodes read so far, the path and the first node have to do with *)
(* one another and with the events.                                        *)
DocumentInv ==
  /\ YamlInv
  /\ TableSound(nodes) /\ OneParent(nodes) /\ PathSound(nodes, path)
  /\ pending \in Keys
  /\ first # NoNode => first \in DOMAIN nodes /\ nodes[first].type = "MAP"
  /\ path # <<>> /\ first # NoNode => first = path[1]
  /\ IF outcome = "parsing" THEN Len(path) = Len(open) ELSE path = <<>>
  /\ \/ outcome = "idle"
     \/ outcome = "parsing" /\ stage \in {"stream", "document", "root"}
     => first = NoNode

LEMMA PlacedType ==
  ASSUME open \in Seq(Positions)
  PROVE  Placed \in Seq(Positions) /\ Len(Placed) = Len(open)
<1>1. CASE open = <<>>
  BY <1>1 DEF Placed, Inside
<1>2. CASE open # <<>>
  <2>1. Len(open) \in 1..Len(open)
    BY <1>2
  <2>2. open[Len(open)] \in Positions
    BY <2>1
  <2>3. NextPosition[open[Len(open)]] \in Positions
    BY <2>2 DEF NextPosition, Positions
  <2> QED BY <1>2, <2>1, <2>3 DEF Placed, Inside
<1> QED BY <1>1, <1>2

LEMMA ShorterOpen ==
  ASSUME NEW s \in Seq(Positions), s # <<>>
  PROVE  /\ SubSeq(s, 1, Len(s) - 1) \in Seq(Positions)
         /\ Len(SubSeq(s, 1, Len(s) - 1)) = Len(s) - 1
<1> DEFINE n == Len(s) - 1
           t == SubSeq(s, 1, n)
<1>1. n \in Nat /\ n <= Len(s)
  <2>1. Len(s) \in Nat \ {0}
    OBVIOUS
  <2> QED BY <2>1
<1> HIDE DEF n
<1>2. t \in Seq(Positions) /\ DOMAIN t = 1..n
  BY <1>1
<1>3. DOMAIN t = 1..Len(t) /\ Len(t) \in Nat
  BY <1>2
<1> HIDE DEF t
<1>4. Len(t) = n
  BY <1>1, <1>2, <1>3
<1> QED BY <1>2, <1>4 DEF n, t

(* How each event moves the open containers. *)
LEMMA Opens ==
  ASSUME YamlInv, MappingStart \/ SequenceStart
  PROVE  /\ YamlInv' /\ Len(open') = Len(open) + 1 /\ stage' = "content"
         /\ (stage = "content" <=> open # <<>>)
<1>1. PICK position \in Positions : open' = Append(Placed, position)
  BY DEF MappingStart, SequenceStart, Positions
<1>2. Placed \in Seq(Positions) /\ Len(Placed) = Len(open)
  BY PlacedType DEF YamlInv
<1>3. open' \in Seq(Positions) /\ Len(open') = Len(open) + 1 /\ open' # <<>>
  BY <1>1, <1>2
<1>4. stage' = "content" /\ stage \in {"root", "content"}
  BY DEF MappingStart, SequenceStart, ContainerAllowed
<1> QED BY <1>3, <1>4 DEF YamlInv

LEMMA Places ==
  ASSUME YamlInv, NEW text, Inside, Scalar(text)
  PROVE  YamlInv' /\ Len(open') = Len(open) /\ stage' = "content"
<1>1. stage = "content" /\ stage' = "content" /\ open' = Placed
  BY DEF Scalar, YamlInv, Inside
<1>2. Placed \in Seq(Positions) /\ Len(Placed) = Len(open)
  BY PlacedType DEF YamlInv
<1>3. open \in Seq(Positions) /\ open # <<>>
  BY DEF Inside, YamlInv
<1>4. open' # <<>>
  BY <1>1, <1>2, <1>3
<1> QED BY <1>1, <1>2, <1>4 DEF YamlInv

LEMMA Closes ==
  ASSUME YamlInv, MappingEnd \/ SequenceEnd
  PROVE  /\ YamlInv' /\ open # <<>> /\ Len(open') = Len(open) - 1
         /\ stage' \in {"content", "closed"}
<1>1. /\ stage = "content" /\ open' = SubSeq(open, 1, Len(open) - 1)
      /\ stage' = IF Len(open) = 1 THEN "closed" ELSE "content"
  BY DEF MappingEnd, SequenceEnd, ContainerEnd
<1>2. open \in Seq(Positions) /\ open # <<>>
  BY <1>1 DEF YamlInv
<1>3. open' \in Seq(Positions) /\ Len(open') = Len(open) - 1
  BY <1>1, <1>2, ShorterOpen
<1>4. Len(open) \in Nat /\ Len(open) # 0
  BY <1>2
<1>5. Len(open) # 1 => open' # <<>>
  BY <1>3, <1>4
<1> QED BY <1>1, <1>2, <1>3, <1>5 DEF YamlInv

LEMMA Passes ==
  ASSUME YamlInv,
         \/ StreamStart \/ DocumentStart \/ DocumentEnd \/ StreamEnd \/ SyntaxError
         \/ Restart \/ UNCHANGED yamlVars
  PROVE  YamlInv'
<1>1. CASE Restart
  <2>1. open' = <<>> /\ stage' = "stream"
    BY <1>1 DEF Restart
  <2> QED BY <2>1 DEF YamlInv
<1>2. CASE ~Restart
  <2>1. open' = open
    BY <1>2 DEF StreamStart, DocumentStart, DocumentEnd, StreamEnd, SyntaxError, yamlVars
  <2>2. \/ stage' = stage
        \/ stage = "stream" /\ stage' = "document"
        \/ stage = "document" /\ stage' = "root"
        \/ stage' = "end"
    BY <1>2 DEF StreamStart, DocumentStart, DocumentEnd, StreamEnd, SyntaxError, yamlVars
  <2> QED BY <2>1, <2>2 DEF YamlInv
<1> QED BY <1>1, <1>2

-------------------------------------------------------------------------------
(* The steps. *)

LEMMA NewNode ==
  ASSUME NEW type, type \in Types,
         NEW text \in Keys
  PROVE  /\ Node(type, text) \in NodeSet /\ Node(type, text).items = <<>>
         /\ Node(type, text).type = type
         /\ Tree!Value(type, text) = Node(type, text)
<1>1. <<>> \in Seq(Entries)
  OBVIOUS
<1> QED BY <1>1 DEF Node, NodeSet, Tree!Value

LEMMA NodeJoins ==
  ASSUME DocumentInv, NEW id, NEW node \in NodeSet, node.items = <<>>, NodeAdded(id, node)
  PROVE  /\ Addable(nodes, path, pending, id, node)
         /\ AddedTo(nodes, path, pending, id, node, nodes')
         /\ TableSound(nodes') /\ OneParent(nodes')
         /\ PathSound(nodes', path) /\ PathSound(nodes', Append(path, id))
         /\ id \in Nat /\ id \in DOMAIN nodes' /\ nodes'[id] = node
         /\ pending' = NoText /\ pending' \in Keys
<1>1. Addable(nodes, path, pending, id, node)
  BY DEF DocumentInv, NodeAdded, Addable
<1>2. nodes' = Added(nodes, path, pending, id, node)
  BY Zenon DEF NodeAdded, With, Innermost, Added
<1>3. AddedTo(nodes, path, pending, id, node, nodes')
  BY <1>1, <1>2, AddedSound
<1>4. OneParent(nodes') /\ PathSound(nodes', path) /\ PathSound(nodes', Append(path, id))
  BY <1>1, <1>3, AddedShape
<1>5. TableSound(nodes') /\ id \in DOMAIN nodes' /\ nodes'[id] = node
  BY <1>3 DEF AddedTo
<1> QED BY <1>1, <1>3, <1>4, <1>5 DEF NodeAdded, Keys

(* The first node stays what it is. *)
LEMMA FirstStays ==
  ASSUME DocumentInv, NEW id, NEW node \in NodeSet, node.items = <<>>, NodeAdded(id, node),
         first # NoNode
  PROVE  first \in DOMAIN nodes' /\ nodes'[first].type = "MAP"
<1>1. AddedTo(nodes, path, pending, id, node, nodes')
  BY NodeJoins
<1>2. first \in DOMAIN nodes /\ nodes[first].type = "MAP"
  BY DEF DocumentInv
<1>3. CASE IsInnermost(path, first)
  BY <1>1, <1>2, <1>3 DEF AddedTo, IsInnermost
<1>4. CASE ~IsInnermost(path, first)
  BY <1>1, <1>2, <1>4 DEF AddedTo
<1> QED BY <1>3, <1>4

LEMMA HasDocument ==
  ASSUME DocumentInv
  PROVE  /\ first = NoNode => Document = Tree!NoDoc
         /\ first # NoNode => Document = Values(nodes)[first] /\ Document # Tree!NoDoc
<1>1. Tree!NoDoc = Node("NULL", NoText) /\ Tree!NoDoc.type = "NULL"
  BY DEF Tree!NoDoc, Tree!Value, Node
<1>2. first # NoNode => Values(nodes)[first].type = "MAP"
  BY ValueFields DEF DocumentInv
<1> QED BY <1>1, <1>2 DEF Document

(* A node behind the innermost container grows the document there. *)
LEMMA DocumentGrows ==
  ASSUME DocumentInv, outcome = "parsing", path # <<>>,
         NEW id, NEW node \in NodeSet, node.items = <<>>, NodeAdded(id, node),
         first' = first
  PROVE  Document' = Tree!WithNode(node)
<1>1. CASE first = NoNode
  <2>1. Document = Tree!NoDoc
    BY <1>1, HasDocument
  <2>2. Document' = Document
    BY <1>1 DEF Document
  <2> QED BY <2>1, <2>2 DEF Tree!WithNode
<1>2. CASE first # NoNode
  <2>1. first = path[1] /\ Len(path) = Len(open)
    BY <1>2 DEF DocumentInv
  <2>2. Tree!Insert(Values(nodes)[path[1]], Len(path), [key |-> pending, value |-> node]) =
          Values(nodes')[path[1]]
    BY NodeJoins, InsertAdded
  <2>3. Document = Values(nodes)[first] /\ Document # Tree!NoDoc
    BY <1>2, HasDocument
  <2>4. Document' = Values(nodes')[first]
    BY <1>2 DEF Document
  <2> QED BY <2>1, <2>2, <2>3, <2>4 DEF Tree!WithNode
<1> QED BY <1>1, <1>2

(* Without a new node the document stays. *)
LEMMA DocumentStays ==
  ASSUME nodes' = nodes, first' = first
  PROVE  Document' = Document
BY DEF Document

LEMMA EmptyTable ==
  /\ TableSound(NoNodes) /\ OneParent(NoNodes) /\ PathSound(NoNodes, <<>>)
<1>1. DOMAIN NoNodes = {} /\ NoNodes \in [{} -> NodeSet]
  BY DEF NoNodes
<1>2. \A n, i, c : ~Has(NoNodes, n, i, c)
  BY <1>1 DEF Has
<1>3. TableSound(NoNodes)
  <2>1. DOMAIN NoNodes \subseteq 0..0 /\ 0 \in Nat
    BY <1>1
  <2> QED BY <1>1, <1>2, <2>1 DEF TableSound
<1>4. Len(<<>>) = 0 /\ 1..(0 - 1) = {} /\ <<>> \in Seq({})
  OBVIOUS
<1>5. PathSound(NoNodes, <<>>)
  BY <1>1, <1>4 DEF PathSound
<1> QED BY <1>2, <1>3, <1>5 DEF OneParent

LEMMA NothingRead ==
  ASSUME first = NoNode
  PROVE  Document = Tree!NoDoc
BY DEF Document, Tree!NoDoc, Tree!Value, Node

LEMMA StartsEmpty ==
  ASSUME NodesInit
  PROVE  DocumentInv /\ Tree!TreeInit
<1>1. YamlInv
  <2>1. open = <<>> /\ stage = "stream" /\ <<>> \in Seq(Positions)
    BY DEF NodesInit, Init
  <2> QED BY <2>1 DEF YamlInv
<1>2. DocumentInv
  BY <1>1, EmptyTable DEF NodesInit, DocumentInv, Keys
<1>3. Document = Tree!NoDoc
  BY NothingRead DEF NodesInit
<1> QED BY <1>2, <1>3 DEF NodesInit, Tree!TreeInit, Init, Tree!Init, NoEvent, Tree!NoEvent

(* The events of the two modules are the same ones. *)
LEMMA SameEvents ==
  /\ MappingStart <=> Tree!MappingStart
  /\ SequenceStart <=> Tree!SequenceStart
  /\ \A text : Scalar(text) <=> Tree!Scalar(text)
  /\ MappingEnd <=> Tree!MappingEnd
  /\ SequenceEnd <=> Tree!SequenceEnd
  /\ StreamStart <=> Tree!StreamStart
  /\ DocumentStart <=> Tree!DocumentStart
  /\ DocumentEnd <=> Tree!DocumentEnd
  /\ StreamEnd <=> Tree!StreamEnd
  /\ SyntaxError <=> Tree!SyntaxError
  /\ Restart <=> Tree!Restart
  /\ Inside <=> Tree!Inside
  /\ Position = Tree!Position
<1>1. /\ Placed = Tree!Placed /\ (Inside <=> Tree!Inside) /\ Position = Tree!Position
      /\ NoEvent = Tree!NoEvent
  BY Zenon DEF Placed, Inside, NextPosition, Position, NoEvent,
         Tree!Placed, Tree!Inside, Tree!NextPosition, Tree!Position, Tree!NoEvent
<1>2. /\ MappingStart <=> Tree!MappingStart
      /\ SequenceStart <=> Tree!SequenceStart
  BY <1>1, Zenon
  DEF MappingStart, SequenceStart, ContainerAllowed, Emit,
      Tree!MappingStart, Tree!SequenceStart, Tree!ContainerAllowed, Tree!Emit
<1>3. \A text : Scalar(text) <=> Tree!Scalar(text)
  BY <1>1, Zenon DEF Scalar, Emit, Tree!Scalar, Tree!Emit
<1>4. /\ MappingEnd <=> Tree!MappingEnd
      /\ SequenceEnd <=> Tree!SequenceEnd
  BY <1>1, Zenon
  DEF MappingEnd, SequenceEnd, ContainerEnd, Emit,
      Tree!MappingEnd, Tree!SequenceEnd, Tree!ContainerEnd, Tree!Emit
<1>5. /\ StreamStart <=> Tree!StreamStart
      /\ DocumentStart <=> Tree!DocumentStart
      /\ DocumentEnd <=> Tree!DocumentEnd
      /\ StreamEnd <=> Tree!StreamEnd
      /\ SyntaxError <=> Tree!SyntaxError
      /\ Restart <=> Tree!Restart
  BY <1>1, Zenon
  DEF StreamStart, DocumentStart, DocumentEnd, StreamEnd, SyntaxError, Restart, Emit,
      Tree!StreamStart, Tree!DocumentStart, Tree!DocumentEnd, Tree!StreamEnd,
      Tree!SyntaxError, Tree!Restart, Tree!Emit
<1> QED BY <1>1, <1>2, <1>3, <1>4, <1>5

LEMMA ContainerStep ==
  ASSUME NoNode \notin Nat, DocumentInv, outcome = "parsing", outcome' = "parsing",
         NEW type \in {"MAP", "SEQUENCE"}, MappingStart \/ SequenceStart,
         NodesContainer(type)
  PROVE  DocumentInv' /\ Tree!TreeContainer(type)
<1> DEFINE node == Node(type, NoText)
<1>1. PICK id \in DOMAIN nodes' :
        /\ NodeAdded(id, node)
        /\ first' = IF path = <<>> /\ type = "MAP" THEN id ELSE first
        /\ path' = Append(path, id)
  BY DEF NodesContainer
<1>2. /\ node \in NodeSet /\ node.items = <<>> /\ node.type = type
      /\ Tree!Value(type, NoText) = node
  BY NewNode DEF Keys, Types
<1> HIDE DEF node
<1>3. /\ Addable(nodes, path, pending, id, node)
      /\ AddedTo(nodes, path, pending, id, node, nodes')
      /\ TableSound(nodes') /\ OneParent(nodes') /\ PathSound(nodes', Append(path, id))
      /\ id \in Nat /\ id \in DOMAIN nodes' /\ nodes'[id] = node
      /\ pending' = NoText /\ pending' \in Keys
  BY <1>1, <1>2, NodeJoins
<1>4. /\ YamlInv' /\ Len(open') = Len(open) + 1 /\ stage' = "content"
      /\ (stage = "content" <=> open # <<>>) /\ stage \in {"root", "content"}
  BY Opens DEF DocumentInv, MappingStart, SequenceStart, ContainerAllowed
<1>5. /\ path \in Seq(DOMAIN nodes) /\ Len(path) \in Nat /\ Len(path) = Len(open)
      /\ open \in Seq(Positions)
  BY DEF DocumentInv, PathSound, YamlInv
<1>6. path = <<>> <=> open = <<>>
  BY <1>5
<1>7. /\ Len(path') = Len(open') /\ path' # <<>>
      /\ path # <<>> => path'[1] = path[1]
      /\ path = <<>> => path'[1] = id
  BY <1>1, <1>4, <1>5
<1>8. path = <<>> => first = NoNode
  BY <1>4, <1>6 DEF DocumentInv
<1>9. first' # NoNode =>
        first' \in DOMAIN nodes' /\ nodes'[first'].type = "MAP" /\ first' = path'[1]
  <2>1. CASE path = <<>>
    BY <1>1, <1>2, <1>3, <1>7, <1>8, <2>1
  <2>2. CASE path # <<>>
    <3>1. first' = first
      BY <1>1, <2>2
    <3>2. first # NoNode => first \in DOMAIN nodes' /\ nodes'[first].type = "MAP"
      BY <1>1, <1>2, FirstStays
    <3>3. first # NoNode => first = path[1]
      BY <2>2 DEF DocumentInv
    <3> QED BY <1>7, <2>2, <3>1, <3>2, <3>3
  <2> QED BY <2>1, <2>2
<1>10. DocumentInv'
  <2>1. PathSound(nodes', path')
    BY <1>1, <1>3
  <2> QED BY <1>3, <1>4, <1>7, <1>9, <2>1 DEF DocumentInv
<1>11. CASE path # <<>>
  <2>1. first' = first
    BY <1>1, <1>11
  <2>2. Document' = Tree!WithNode(node)
    BY <1>1, <1>2, <1>11, <2>1, DocumentGrows
  <2>3. Tree!Inside
    BY <1>6, <1>11 DEF Tree!Inside
  <2>4. Document' = Tree!WithNode(Tree!Value(type, NoText))
    BY <1>2, <2>2, Zenon
  <2> QED BY <1>3, <1>10, <2>3, <2>4, Zenon DEF Tree!TreeContainer
<1>12. CASE path = <<>>
  <2>1. ~Tree!Inside
    BY <1>6, <1>12 DEF Tree!Inside
  <2>2. CASE type = "MAP"
    <3>1. first' = id /\ id # NoNode
      BY <1>1, <1>3, <1>12, <2>2
    <3>2. Values(nodes')[id] = node
      BY <1>3, ValueOfNew
    <3>3. Document' = node
      BY <3>1, <3>2 DEF Document
    <3> QED BY <1>2, <1>3, <1>10, <2>1, <2>2, <3>3 DEF Tree!TreeContainer
  <2>3. CASE type = "SEQUENCE"
    <3>1. first' = NoNode
      BY <1>1, <1>8, <1>12, <2>3
    <3>2. Document' = Node("NULL", NoText)
      BY <3>1 DEF Document
    <3>3. Document' = Tree!NoDoc
      BY <3>2 DEF Tree!NoDoc, Tree!Value, Node
    <3> QED BY <1>3, <1>10, <2>1, <2>3, <3>3 DEF Tree!TreeContainer
  <2> QED BY <2>2, <2>3
<1> QED BY <1>11, <1>12

LEMMA ScalarStep ==
  ASSUME NoNode \notin Nat, DocumentInv, outcome = "parsing", outcome' = "parsing",
         NEW text \in Texts, Inside, Scalar(text), NodesKey(text) \/ NodesScalar(text)
  PROVE  DocumentInv' /\ Tree!TreeScalar(text)
<1>1. YamlInv' /\ Len(open') = Len(open) /\ stage' = "content"
  BY Places DEF DocumentInv
<1>2. /\ path \in Seq(DOMAIN nodes) /\ Len(path) = Len(open) /\ open \in Seq(Positions)
      /\ open # <<>>
  BY DEF DocumentInv, PathSound, YamlInv, Inside
<1>3. path # <<>>
  BY <1>2
<1>4. Position = Tree!Position
  BY SameEvents
<1>5. CASE NodesKey(text)
  <2>1. Document' = Document
    BY <1>5, DocumentStays DEF NodesKey
  <2>2. DocumentInv'
    BY <1>1, <1>5 DEF DocumentInv, NodesKey, Keys
  <2> QED BY <1>4, <1>5, <2>1, <2>2 DEF NodesKey, Tree!TreeScalar
<1>6. CASE NodesScalar(text)
  <2> DEFINE node == Node(ScalarType[text], text)
  <2>1. PICK id \in DOMAIN nodes' : NodeAdded(id, node)
    BY <1>6 DEF NodesScalar
  <2>2. /\ node \in NodeSet /\ node.items = <<>>
        /\ Tree!Value(ScalarType[text], text) = node
    BY NewNode DEF Keys, Types
  <2> HIDE DEF node
  <2>3. /\ TableSound(nodes') /\ OneParent(nodes') /\ PathSound(nodes', path)
        /\ pending' = NoText /\ pending' \in Keys
    BY <2>1, <2>2, NodeJoins
  <2>4. first' = first /\ path' = path /\ Position # "key"
    BY <1>6 DEF NodesScalar
  <2>5. first # NoNode => first \in DOMAIN nodes' /\ nodes'[first].type = "MAP"
    BY <2>1, <2>2, FirstStays
  <2>6. DocumentInv'
    BY <1>1, <2>3, <2>4, <2>5 DEF DocumentInv
  <2>7. Document' = Tree!WithNode(node)
    BY <1>3, <2>1, <2>2, <2>4, DocumentGrows
  <2> QED BY <1>4, <2>2, <2>3, <2>4, <2>6, <2>7 DEF Tree!TreeScalar
<1> QED BY <1>5, <1>6

LEMMA EndStep ==
  ASSUME DocumentInv, outcome = "parsing", outcome' = "parsing", MappingEnd \/ SequenceEnd,
         path' = SubSeq(path, 1, Len(path) - 1), UNCHANGED <<nodes, first, pending>>
  PROVE  DocumentInv' /\ Document' = Document
<1>1. /\ YamlInv' /\ open # <<>> /\ Len(open') = Len(open) - 1
      /\ stage' \in {"content", "closed"}
  BY Closes DEF DocumentInv
<1>2. /\ path \in Seq(DOMAIN nodes) /\ Len(path) = Len(open) /\ Len(path) \in Nat
      /\ open \in Seq(Positions)
  BY DEF DocumentInv, PathSound, YamlInv
<1>3. path # <<>>
  BY <1>1, <1>2
<1>4. /\ PathSound(nodes, path') /\ Len(path') = Len(path) - 1
      /\ \A k \in 1..(Len(path) - 1) : path'[k] = path[k]
  <2>1. PathSound(nodes, path)
    BY DEF DocumentInv
  <2> QED BY <1>3, <2>1, ShorterPath
<1>5. path' # <<>> => path'[1] = path[1]
  <2> SUFFICES ASSUME path' # <<>> PROVE path'[1] = path[1]
    OBVIOUS
  <2>1. path' \in Seq(DOMAIN nodes)
    BY <1>4 DEF PathSound
  <2>2. Len(path') # 0
    <3>1. \A q \in Seq(DOMAIN nodes) : q # <<>> => Len(q) # 0
      OBVIOUS
    <3> QED BY <2>1, <3>1
  <2>3. 1 \in 1..(Len(path) - 1)
    BY <1>2, <1>4, <2>2
  <2> QED BY <1>4, <2>3
<1>6. Len(path') = Len(open')
  BY <1>1, <1>2, <1>4
<1>7. DocumentInv'
  BY <1>1, <1>3, <1>4, <1>5, <1>6 DEF DocumentInv
<1> QED BY <1>7, DocumentStays

LEMMA EventStep ==
  ASSUME NoNode \notin Nat, DocumentInv, NodesEvent
  PROVE  DocumentInv' /\ Tree!TreeEvent
<1>1. outcome = "parsing" /\ outcome' = "parsing"
  BY DEF NodesEvent
<1>2. CASE MappingStart /\ NodesContainer("MAP")
  BY <1>1, <1>2, ContainerStep, SameEvents DEF Tree!TreeEvent
<1>3. CASE SequenceStart /\ NodesContainer("SEQUENCE")
  BY <1>1, <1>3, ContainerStep, SameEvents DEF Tree!TreeEvent
<1>4. CASE \E text \in Texts : Inside /\ Scalar(text) /\ (NodesKey(text) \/ NodesScalar(text))
  BY <1>1, <1>4, ScalarStep, SameEvents DEF Tree!TreeEvent
<1>5. CASE /\ MappingEnd \/ SequenceEnd
           /\ path' = SubSeq(path, 1, Len(path) - 1)
           /\ UNCHANGED <<nodes, first, pending>>
  <2>1. DocumentInv' /\ Document' = Document
    BY <1>1, <1>5, EndStep
  <2> QED BY <1>1, <1>5, <2>1, SameEvents DEF Tree!TreeEvent
<1>6. CASE (StreamStart \/ DocumentStart) /\ UNCHANGED <<nodes, first, path, pending>>
  <2>1. YamlInv'
    BY <1>6, Passes DEF DocumentInv
  <2>2. open' = open /\ (stage \in {"stream", "document"})
    BY <1>6 DEF StreamStart, DocumentStart
  <2>3. DocumentInv'
    BY <1>1, <1>6, <2>1, <2>2 DEF DocumentInv
  <2>4. Document' = Document
    BY <1>6, DocumentStays
  <2> QED BY <1>1, <1>6, <2>3, <2>4, SameEvents DEF Tree!TreeEvent
<1> QED BY <1>2, <1>3, <1>4, <1>5, <1>6 DEF NodesEvent

LEMMA BeginStep ==
  ASSUME DocumentInv, NodesBegin
  PROVE  DocumentInv' /\ Tree!TreeBegin
<1>1. outcome = "idle" /\ UNCHANGED <<nodes, first, path, pending>>
  BY DEF NodesBegin
<1>2. path = <<>> /\ first = NoNode
  BY <1>1 DEF DocumentInv
<1>3. Document' = Document
  BY <1>1, DocumentStays
<1>4. YamlInv'
  BY Passes DEF DocumentInv, NodesBegin
<1>5. CASE Restart /\ outcome' = "parsing"
  <2>1. Len(path') = Len(open')
    BY <1>1, <1>2, <1>5 DEF Restart
  <2>2. DocumentInv'
    BY <1>1, <1>2, <1>4, <1>5, <2>1 DEF DocumentInv
  <2> QED BY <1>1, <1>3, <1>5, <2>2, SameEvents DEF Tree!TreeBegin
<1>6. CASE UNCHANGED yamlVars /\ outcome' = "failed"
  <2>1. DocumentInv'
    BY <1>1, <1>2, <1>4, <1>6 DEF DocumentInv
  <2> QED BY <1>1, <1>3, <1>6, <2>1 DEF Tree!TreeBegin, yamlVars, Tree!yamlVars
<1> QED BY <1>5, <1>6 DEF NodesBegin

LEMMA ReturnStep ==
  ASSUME DocumentInv, NodesReturn
  PROVE  DocumentInv' /\ Tree!TreeReturn
<1>1. /\ outcome = "parsing" /\ outcome' \in {"parsed", "failed"}
      /\ path' = <<>> /\ pending' = NoText /\ UNCHANGED <<nodes, first>>
  BY DEF NodesReturn
<1>2. YamlInv'
  BY Passes DEF DocumentInv, NodesReturn
<1>3. PathSound(nodes, <<>>)
  <2>1. Len(<<>>) = 0 /\ 1..(0 - 1) = {} /\ <<>> \in Seq(DOMAIN nodes)
    OBVIOUS
  <2> QED BY <2>1 DEF PathSound
<1>4. DocumentInv'
  BY <1>1, <1>2, <1>3 DEF DocumentInv, Keys
<1>5. Document' = Document
  BY <1>1, DocumentStays
<1> QED BY <1>1, <1>4, <1>5, SameEvents DEF NodesReturn, Tree!TreeReturn

LEMMA DiscardStep ==
  ASSUME DocumentInv, NodesDiscard
  PROVE  DocumentInv' /\ Tree!TreeDiscard
<1>1. /\ outcome \in {"parsed", "failed"} /\ outcome' = "idle"
      /\ nodes' = NoNodes /\ first' = NoNode /\ UNCHANGED <<yamlVars, path, pending>>
  BY DEF NodesDiscard
<1>2. YamlInv'
  BY <1>1, Passes DEF DocumentInv
<1>3. path = <<>>
  BY <1>1 DEF DocumentInv
<1>4. DocumentInv'
  BY <1>1, <1>2, <1>3, EmptyTable DEF DocumentInv
<1>5. Document' = Tree!NoDoc
  BY <1>1 DEF Document, Tree!NoDoc, Tree!Value, Node
<1> QED BY <1>1, <1>4, <1>5 DEF Tree!TreeDiscard, yamlVars, Tree!yamlVars

(* A crash may end any event: of libyaml's variables nothing is left to say. *)
LEMMA CrashStep ==
  ASSUME NodesCrash
  PROVE  Tree!TreeCrash
<1>1. Document' = Tree!NoDoc
  BY DEF NodesCrash, Document, Tree!NoDoc, Tree!Value, Node
<1> QED BY <1>1 DEF NodesCrash, Tree!TreeCrash

SessionInv == outcome = "crashed" \/ DocumentInv

LEMMA SessionStep ==
  ASSUME NoNode \notin Nat, SessionInv, [NodesNext]_nodesVars
  PROVE  SessionInv' /\ [Tree!TreeNext]_Tree!treeVars
<1>1. CASE NodesCrash
  BY <1>1, CrashStep DEF SessionInv, NodesCrash, Tree!TreeNext
<1>2. CASE UNCHANGED nodesVars
  <2>1. UNCHANGED <<yamlVars, outcome, nodes, first, path, pending>>
    BY <1>2 DEF nodesVars, yamlVars
  <2>2. Document' = Document
    BY <2>1, DocumentStays
  <2>3. DocumentInv => DocumentInv'
    BY <2>1 DEF DocumentInv, YamlInv, yamlVars
  <2> QED BY <2>1, <2>2, <2>3 DEF SessionInv, Tree!treeVars, yamlVars
<1>3. CASE NodesBegin \/ NodesEvent \/ NodesReturn \/ NodesDiscard
  <2>1. DocumentInv
    BY <1>3 DEF SessionInv, NodesBegin, NodesEvent, NodesReturn, NodesDiscard
  <2> QED
    BY <1>3, <2>1, BeginStep, EventStep, ReturnStep, DiscardStep DEF SessionInv, Tree!TreeNext
<1> QED BY <1>1, <1>2, <1>3 DEF NodesNext

(* The table of nodes implements the document, for every set of texts and  *)
(* every kind of document libyaml can hand out: a node added to the flat   *)
(* table, behind the innermost open container, is that node inserted in    *)
(* the nested value, however deep the container lies in it and whatever    *)
(* the values beside it, and nothing else of the document changes.         *)
THEOREM TableIsDocument ==
  ASSUME NoNode \notin Nat
  PROVE  NodesSpec => ImplementsTree
<1>1. NodesInit => SessionInv /\ Tree!TreeInit
  BY StartsEmpty DEF SessionInv
<1>2. SessionInv /\ [NodesNext]_nodesVars => SessionInv' /\ [Tree!TreeNext]_Tree!treeVars
  BY SessionStep
<1> QED BY <1>1, <1>2, PTL DEF NodesSpec, ImplementsTree, Tree!TreeSpec
==============================================================================
