--------------------------- MODULE FlatMapProofs ---------------------------
(***************************************************************************)
(* Linear probing for tables of any size, any keys and any hash.           *)
(*                                                                         *)
(* A table is Sound when no key is in it twice and every place that a      *)
(* probe for an entry visits before it reaches the entry is used.  While   *)
(* a place is free, that is what makes find() right; inserting at the      *)
(* place where the probe stops preserves it, and so does the deletion that *)
(* shifts entries back.  Places are compared by their distance on the      *)
(* circle, which turns the wrap around the end into linear arithmetic.     *)
(***************************************************************************)
EXTENDS FlatMap, FoldLemmas, FiniteSetTheorems

Entry == [key : Key, val : Val]

(* A table with c places, those in use and what they hold. *)
Table(s, c) == c \in Nat \ {0} /\ s \in [0 .. c - 1 -> Entry \cup {Free}]
Used(s) == {i \in DOMAIN s : s[i] # Free}
Contents(s) == {s[i] : i \in Used(s)}

Hashed == hash \in [Key -> Nat]
Home(c, key) == hash[key] % c

(* The place d steps on from h, and the steps from h to i. *)
On(c, h, d) == IF h + d < c THEN h + d ELSE (h + d) - c
Dist(c, h, i) == IF h <= i THEN i - h ELSE (i - h) + c

(* A probe for the entry at i, or for a key, meets no free place before i. *)
Reached(s, c, key, i) ==
  \A d \in 0 .. c - 1 : d < Dist(c, Home(c, key), i) => s[On(c, Home(c, key), d)] # Free

Sound(s, c) ==
  /\ Table(s, c)
  /\ \A i \in 0 .. c - 1 : s[i] # Free => Reached(s, c, s[i].key, i)
  /\ \A i, j \in 0 .. c - 1 : s[i] # Free /\ s[j] # Free /\ s[i].key = s[j].key => i = j

HasRoom(s, c) == \E z \in 0 .. c - 1 : s[z] = Free

(* The map holds what the table holds. *)
Mirrors(m, s) ==
  \A k \in Key : \/ m[k] = << >> /\ \A e \in Contents(s) : e.key # k
                 \/ \E e \in Contents(s) : e.key = k /\ m[k] = <<e.val>>

MInv ==
  /\ Hashed /\ Sound(slots, Cap(slots))
  /\ size = Cardinality(Used(slots)) /\ size * 10 <= Cap(slots) * 7
  /\ map \in [Key -> {<< >>} \cup {<<v>> : v \in Val}] /\ Mirrors(map, slots)

----------------------------------------------------------------------------
(* The circle of places. *)

(* On and Dist are inverse to each other. *)
LEMMA Circle ==
  ASSUME NEW c \in Nat \ {0}, NEW h \in 0 .. c - 1
  PROVE  /\ \A d \in 0 .. c - 1 : On(c, h, d) \in 0 .. c - 1 /\ Dist(c, h, On(c, h, d)) = d
         /\ \A i \in 0 .. c - 1 : Dist(c, h, i) \in 0 .. c - 1 /\ On(c, h, Dist(c, h, i)) = i
BY DEF On, Dist

(* The code takes a step on modulo the capacity. *)
LEMMA OnIs ==
  ASSUME NEW c \in Nat \ {0}, NEW h \in 0 .. c - 1, NEW d \in 0 .. c - 1
  PROVE  (h + d) % c = On(c, h, d)
<1>1. Plus(c, h, d) = IF h + d < c THEN h + d ELSE (h + d) - c
  BY Wraps DEF Below
<1> QED BY <1>1 DEF Plus, On

(* What lies between two places. *)
LEMMA Between ==
  ASSUME NEW c \in Nat \ {0}, NEW h \in 0 .. c - 1, NEW a \in 0 .. c - 1, NEW b \in 0 .. c - 1
  PROVE  /\ Dist(c, h, a) < Dist(c, h, b) => Dist(c, h, b) = Dist(c, h, a) + Dist(c, a, b)
         /\ Dist(c, h, b) >= Dist(c, a, b) => Dist(c, h, a) = Dist(c, h, b) - Dist(c, a, b)
         /\ Dist(c, h, a) = Dist(c, h, b) => a = b
         /\ Dist(c, a, b) = 0 <=> a = b
BY DEF Dist

(* Seen from i the place z lies beyond the hole, and p not between the two: *)
(* a way that passes the hole before p passes z as well.                    *)
LEMMA Past ==
  ASSUME NEW c \in Nat \ {0}, NEW i \in 0 .. c - 1, NEW h \in 0 .. c - 1,
         NEW hole \in 0 .. c - 1, NEW p \in 0 .. c - 1, NEW z \in 0 .. c - 1,
         Dist(c, i, hole) < Dist(c, i, z), p # hole, p # z,
         ~(Dist(c, i, p) > Dist(c, i, hole) /\ Dist(c, i, p) <= Dist(c, i, z) - 1),
         Dist(c, h, hole) < Dist(c, h, p)
  PROVE  Dist(c, h, z) < Dist(c, h, p)
BY DEF Dist

(* The condition of erase() says that the hole lies on the probe for j. *)
LEMMA MovableIs ==
  ASSUME NEW c \in Nat \ {0}, NEW hole \in 0 .. c - 1, NEW j \in 0 .. c - 1,
         NEW home \in 0 .. c - 1, hole # j
  PROVE  Movable(hole, j, home) <=> Dist(c, home, j) >= Dist(c, hole, j)
BY DEF Movable, Dist

(* What a table's type says. *)
LEMMA TableFacts ==
  ASSUME NEW s, NEW c, Table(s, c)
  PROVE  /\ c \in Nat \ {0} /\ DOMAIN s = 0 .. c - 1 /\ Cap(s) = c
         /\ \A i \in 0 .. c - 1 : s[i] # Free =>
              s[i] \in Entry /\ s[i].key \in Key /\ s[i] = [key |-> s[i].key, val |-> s[i].val]
         /\ IsFiniteSet(Used(s)) /\ Cardinality(Used(s)) \in Nat
<1>1. c \in Nat \ {0} /\ DOMAIN s = 0 .. c - 1
  BY DEF Table
<1>2. Cap(s) = c /\ IsFiniteSet(0 .. c - 1)
  <2>1. 0 \in Int /\ c - 1 \in Int /\ ~(0 > c - 1) /\ (c - 1) - 0 + 1 = c
    BY <1>1
  <2> QED BY <1>1, <2>1, FS_Interval DEF Cap
<1>3. ASSUME NEW i \in 0 .. c - 1, s[i] # Free
      PROVE  s[i] \in Entry /\ s[i].key \in Key /\ s[i] = [key |-> s[i].key, val |-> s[i].val]
  <2>1. s[i] \in Entry
    BY <1>3 DEF Table
  <2> QED BY <2>1 DEF Entry
<1>4. Used(s) \in SUBSET (0 .. c - 1)
  BY <1>1 DEF Used
<1>5. IsFiniteSet(Used(s)) /\ Cardinality(Used(s)) \in Nat
  BY <1>2, <1>4, FS_Subset, FS_CardinalityType
<1> QED BY <1>1, <1>2, <1>3, <1>5

(* A key's own place is a place. *)
LEMMA HomeIn ==
  ASSUME Hashed, NEW c \in Nat \ {0}, NEW key \in Key
  PROVE  Home(c, key) \in 0 .. c - 1
<1>1. hash[key] \in Nat
  BY DEF Hashed
<1> QED BY <1>1 DEF Home

(* A table that is not full has room. *)
LEMMA RoomLeft ==
  ASSUME NEW s, NEW c, Table(s, c), Cardinality(Used(s)) < c
  PROVE  HasRoom(s, c)
<1>1. c \in Nat \ {0} /\ DOMAIN s = 0 .. c - 1 /\ Cap(s) = c
  BY TableFacts
<1>2. SUFFICES ASSUME \A z \in 0 .. c - 1 : s[z] # Free PROVE FALSE
  BY DEF HasRoom
<1>3. Used(s) = DOMAIN s
  BY <1>1, <1>2 DEF Used
<1> QED BY <1>1, <1>3 DEF Cap

----------------------------------------------------------------------------
(* Where a probe stops: at the key, or at the first free place. *)

(* find_slot's loop in a table with a free place. *)
LEMMA Stops ==
  ASSUME Hashed, NEW s, NEW c, Table(s, c), HasRoom(s, c), NEW key \in Key
  PROVE  /\ StopsAt(s, key) \in 0 .. c - 1
         /\ s[StopsAt(s, key)] = Free \/ Holds(s, StopsAt(s, key), key)
         /\ Reached(s, c, key, StopsAt(s, key))
         /\ \A j \in 0 .. c - 1 :
              Holds(s, j, key) =>
                Dist(c, Home(c, key), StopsAt(s, key)) <= Dist(c, Home(c, key), j)
<1> DEFINE h == Home(c, key)
           Stop(i) == s[i] = Free \/ Holds(s, i, key)
           D == {d \in 0 .. c - 1 : Stop((h + d) % c)}
           m == Min(D)
<1>1. c \in Nat \ {0} /\ Cap(s) = c
  BY TableFacts
<1>2. h \in 0 .. c - 1
  BY <1>1, HomeIn
<1>3. StopsAt(s, key) = (h + m) % c
  <2>1. StopsAt(s, key) = ((hash[key] % Cap(s)) +
          Min({d \in 0 .. Cap(s) - 1 : Stop(((hash[key] % Cap(s)) + d) % Cap(s))})) % Cap(s)
    BY DEF StopsAt, ProbeFrom, Ideal
  <2> HIDE DEF Stop
  <2>2. hash[key] % Cap(s) = h
    BY <1>1, Zenon DEF Home
  <2>3. {d \in 0 .. Cap(s) - 1 : Stop(((hash[key] % Cap(s)) + d) % Cap(s))} = D
    BY <1>1, <2>2
  <2> HIDE DEF h, D
  <2> QED BY <1>1, <2>1, <2>2, <2>3, Zenon
<1> HIDE DEF h
<1>4. D = {d \in 0 .. c - 1 : Stop(On(c, h, d))}
  <2>1. \A d \in 0 .. c - 1 : (h + d) % c = On(c, h, d)
    BY <1>1, <1>2, OnIs
  <2> HIDE DEF Stop
  <2> QED BY <2>1, Zenon
<1>5. PICK z \in 0 .. c - 1 : s[z] = Free
  BY DEF HasRoom
<1>6. \A j \in 0 .. c - 1 : Stop(j) => Dist(c, h, j) \in D
  <2> HIDE DEF Stop, D
  <2>1. \A j \in 0 .. c - 1 : Dist(c, h, j) \in 0 .. c - 1 /\ On(c, h, Dist(c, h, j)) = j
    BY <1>1, <1>2, Circle
  <2> QED BY <1>4, <2>1
<1>7. D # {} /\ D \in SUBSET Nat
  BY <1>1, <1>5, <1>6
<1> HIDE DEF D
<1>8. m \in D /\ \A d \in D : m <= d
  BY <1>7, MinOfNats
<1> HIDE DEF m
<1> DEFINE i == On(c, h, m)
<1>9. StopsAt(s, key) = i /\ i \in 0 .. c - 1 /\ Dist(c, h, i) = m /\ Stop(i)
  <2>1. m \in 0 .. c - 1 /\ Stop(i)
    BY <1>4, <1>8
  <2>2. StopsAt(s, key) = i
    BY <1>1, <1>2, <1>3, <2>1, OnIs
  <2>3. i \in 0 .. c - 1 /\ Dist(c, h, i) = m
    BY <1>1, <1>2, <2>1, Circle
  <2> QED BY <2>1, <2>2, <2>3
<1>10. Reached(s, c, key, i)
  <2> SUFFICES ASSUME NEW d \in 0 .. c - 1, d < m PROVE s[On(c, h, d)] # Free
    BY <1>9 DEF Reached, h
  <2>1. d \notin D
    BY <1>1, <1>7, <1>8
  <2> QED BY <1>4, <2>1
<1>11. \A j \in 0 .. c - 1 : Holds(s, j, key) => m <= Dist(c, h, j)
  BY <1>6, <1>8
<1> HIDE DEF i
<1> QED BY <1>9, <1>10, <1>11 DEF h

(* In a sound table the probe finds the key's own entry. *)
LEMMA StopsAtKey ==
  ASSUME Hashed, NEW s, NEW c, Sound(s, c), HasRoom(s, c), NEW key \in Key,
         NEW j \in 0 .. c - 1, Holds(s, j, key)
  PROVE  StopsAt(s, key) = j
<1> DEFINE i == StopsAt(s, key)
           h == Home(c, key)
<1>1. Table(s, c) /\ c \in Nat \ {0}
  BY DEF Sound, Table
<1>2. /\ i \in 0 .. c - 1 /\ (s[i] = Free \/ Holds(s, i, key))
      /\ Dist(c, h, i) <= Dist(c, h, j)
  BY <1>1, Stops
<1>3. h \in 0 .. c - 1
  BY <1>1, HomeIn
<1> HIDE DEF i, h
<1>4. CASE Holds(s, i, key)
  BY <1>2, <1>4 DEF Sound, Holds, i
<1>5. CASE s[i] = Free
  <2>1. Dist(c, h, i) \in 0 .. c - 1 /\ On(c, h, Dist(c, h, i)) = i
    BY <1>1, <1>2, <1>3, Circle
  <2>2. Reached(s, c, key, j)
    BY DEF Sound, Holds
  <2>3. ~(Dist(c, h, i) < Dist(c, h, j))
    BY <1>5, <2>1, <2>2 DEF Reached, h
  <2>4. Dist(c, h, j) \in 0 .. c - 1
    BY <1>1, <1>3, Circle
  <2>5. Dist(c, h, i) = Dist(c, h, j)
    BY <1>1, <1>2, <2>1, <2>3, <2>4
  <2>6. i = j
    BY <1>1, <1>2, <1>3, <2>5, Between
  <2> QED BY <2>6 DEF i
<1> QED BY <1>2, <1>4, <1>5

(* What find() returns. *)
LEMMA FindIs ==
  ASSUME Hashed, NEW s, NEW c, Sound(s, c), HasRoom(s, c), NEW key \in Key
  PROVE  /\ (\A e \in Contents(s) : e.key # key) =>
              Find(s, key) = << >> /\ s[StopsAt(s, key)] = Free
         /\ \A e \in Contents(s) : e.key = key =>
              /\ Find(s, key) = <<e.val>> /\ s[StopsAt(s, key)] = e
              /\ StopsAt(s, key) \in Used(s)
<1> DEFINE i == StopsAt(s, key)
<1>1. Table(s, c) /\ c \in Nat \ {0} /\ DOMAIN s = 0 .. c - 1
  BY TableFacts DEF Sound
<1>2. i \in 0 .. c - 1 /\ (s[i] = Free \/ Holds(s, i, key))
  BY <1>1, Stops
<1>3. ASSUME \A e \in Contents(s) : e.key # key
      PROVE  Find(s, key) = << >> /\ s[i] = Free
  <2>1. s[i] = Free
    BY <1>1, <1>2, <1>3 DEF Contents, Used, Holds
  <2> QED BY <2>1 DEF Find
<1>4. ASSUME NEW e \in Contents(s), e.key = key
      PROVE  Find(s, key) = <<e.val>> /\ s[i] = e /\ i \in Used(s)
  <2>1. PICK j \in 0 .. c - 1 : s[j] = e /\ s[j] # Free
    BY <1>1 DEF Contents, Used
  <2>2. i = j
    BY <1>4, <2>1, StopsAtKey DEF Holds
  <2> QED BY <1>1, <2>1, <2>2 DEF Find, Used
<1> QED BY <1>3, <1>4

(* Inserting where the probe stops. *)
LEMMA PlaceSound ==
  ASSUME Hashed, NEW s, NEW c, Sound(s, c), HasRoom(s, c), NEW key \in Key, NEW val \in Val
  PROVE  LET t == Place(s, key, val)
         IN  /\ Sound(t, c)
             /\ Contents(t) = {e \in Contents(s) : e.key # key} \cup {[key |-> key, val |-> val]}
             /\ Used(t) = Used(s) \cup {StopsAt(s, key)}
<1> DEFINE t == Place(s, key, val)
           i == StopsAt(s, key)
           new == [key |-> key, val |-> val]
<1>1. Table(s, c) /\ c \in Nat \ {0} /\ DOMAIN s = 0 .. c - 1
  BY TableFacts DEF Sound
<1>2. /\ i \in 0 .. c - 1 /\ (s[i] = Free \/ Holds(s, i, key))
      /\ Reached(s, c, key, i)
  BY <1>1, Stops
<1>3. new \in Entry /\ new # Free /\ new.key = key
  BY MapAssumption DEF Entry
<1>4. t = [s EXCEPT ![i] = new]
  BY DEF Place
<1>5. \A j \in 0 .. c - 1 : j # i /\ s[j] # Free => s[j].key # key
  <2> SUFFICES ASSUME NEW j \in 0 .. c - 1, s[j] # Free, s[j].key = key PROVE j = i
    OBVIOUS
  <2> QED BY StopsAtKey DEF Holds
<1> HIDE DEF t, i, new
<1>6. /\ DOMAIN t = 0 .. c - 1 /\ t[i] = new /\ Table(t, c)
      /\ \A j \in 0 .. c - 1 : j # i => t[j] = s[j]
  BY <1>1, <1>2, <1>3, <1>4 DEF Table
<1>7. \A j \in 0 .. c - 1 : s[j] # Free => t[j] # Free
  BY <1>3, <1>6
<1>8. ASSUME NEW j \in 0 .. c - 1, t[j] # Free PROVE Reached(t, c, t[j].key, j)
  <2> DEFINE k == t[j].key
  <2>1. k \in Key /\ Reached(s, c, k, j)
    <3>1. CASE j = i
      BY <1>2, <1>3, <1>6, <3>1
    <3>2. CASE j # i
      BY <1>1, <1>6, <1>8, <3>2, TableFacts DEF Sound
    <3> QED BY <3>1, <3>2
  <2>2. Home(c, k) \in 0 .. c - 1
    BY <1>1, <2>1, HomeIn
  <2> HIDE DEF k
  <2>3. \A d \in 0 .. c - 1 : On(c, Home(c, k), d) \in 0 .. c - 1
    BY <1>1, <2>2, Circle
  <2>4. Reached(t, c, k, j)
    BY <1>7, <2>1, <2>3 DEF Reached
  <2> QED BY <2>4 DEF k
<1>9. ASSUME NEW j \in 0 .. c - 1, NEW l \in 0 .. c - 1,
             t[j] # Free, t[l] # Free, t[j].key = t[l].key
      PROVE  j = l
  BY <1>3, <1>5, <1>6, <1>9 DEF Sound
<1>10. Sound(t, c)
  BY <1>6, <1>8, <1>9 DEF Sound
<1>11. Used(t) = Used(s) \cup {i}
  BY <1>1, <1>2, <1>3, <1>6 DEF Used
<1>12. Contents(t) = {e \in Contents(s) : e.key # key} \cup {new}
  <2>1. ASSUME NEW j \in Used(t)
        PROVE  t[j] \in {e \in Contents(s) : e.key # key} \cup {new}
    BY <1>1, <1>5, <1>6, <2>1 DEF Contents, Used
  <2>2. ASSUME NEW e \in Contents(s), e.key # key PROVE e \in Contents(t)
    <3>1. PICK j \in 0 .. c - 1 : s[j] # Free /\ s[j] = e
      BY <1>1 DEF Contents, Used
    <3>2. j # i
      BY <1>2, <2>2, <3>1 DEF Holds
    <3> QED BY <1>6, <3>1, <3>2 DEF Contents, Used
  <2>3. new \in Contents(t)
    BY <1>2, <1>3, <1>6 DEF Contents, Used
  <2> QED BY <2>1, <2>2, <2>3 DEF Contents
<1> QED BY <1>10, <1>11, <1>12 DEF t, i, new

----------------------------------------------------------------------------
(* grow(): the loop over the used places, and what it has done after n. *)

FillOne(s, t, i) == IF s[i - 1] = Free THEN t ELSE Place(t, s[i - 1].key, s[i - 1].val)

Filled(s, a, q) == InTurn(LAMBDA t, i : FillOne(s, t, i), a, q)

(* The table after every place, as a function of the number of places. *)
LEMMA FillLoop ==
  ASSUME NEW s, NEW c \in Nat \ {0}, Cap(s) = c, NEW A, NEW a0 \in A,
         a0 = [i \in 0 .. 2 * c - 1 |-> Free],
         \A a \in A, i \in 1 .. c : FillOne(s, a, i) \in A
  PROVE  \E w : /\ w[0] = a0 /\ Grow(s) = w[c]
                /\ \A i \in 1 .. c : w[i] = FillOne(s, w[i - 1], i)
<1> DEFINE q == [i \in 1 .. c |-> i]
           F == [x \in A \X (1 .. c) |-> FillOne(s, x[1], x[2])]
           Q(f) == f = [t \in SUBSET (1 .. c) |->
                          IF t = {} THEN a0 ELSE FillOne(s, f[t \ {Max(t)}], q[Max(t)])]
<1>1. DOMAIN q = 1 .. c /\ \A i \in 1 .. c : q[i] = i
  OBVIOUS
<1>2. \A a \in A, i \in 1 .. c : F[<<a, i>>] = FillOne(s, a, i)
  OBVIOUS
<1>3. StepOn(F, A, c)
  <2> HIDE DEF F
  <2> QED BY <1>2 DEF StepOn
<1> HIDE DEF F
<1>4. \E f : Q(f)
  <2>1. PICK f : FoldsIn(f, F, A, a0, c)
    BY <1>3, FoldExists
  <2>2. Q(f)
    <3> HIDE DEF q
    <3>1. ASSUME NEW t \in SUBSET (1 .. c)
          PROVE  f[t] = IF t = {} THEN a0 ELSE FillOne(s, f[t \ {Max(t)}], q[Max(t)])
      <4>1. CASE t = {}
        BY <2>1, <4>1 DEF FoldsIn
      <4>2. CASE t # {}
        <5> DEFINE m == Max(t)
        <5>1. m \in 1 .. c /\ f[t \ {m}] \in A /\ f[t] = F[<<f[t \ {m}], m>>]
          BY <2>1, <4>2, Zenon DEF FoldsIn
        <5> HIDE DEF m
        <5>2. f[t] = FillOne(s, f[t \ {m}], q[m])
          <6>1. q[m] = m
            BY <1>1, <5>1
          <6>2. F[<<f[t \ {m}], m>>] = FillOne(s, f[t \ {m}], m)
            BY <1>2, <5>1, Zenon
          <6> QED BY <5>1, <6>1, <6>2, Zenon
        <5> QED BY <4>2, <5>2 DEF m
      <4> QED BY <4>1, <4>2
    <3>2. f = [t \in SUBSET (1 .. c) |-> f[t]]
      BY <2>1 DEF FoldsIn
    <3> QED BY <3>1, <3>2, Zenon
  <2> QED BY <2>2
<1>5. PICK h : Q(h) /\ Grow(s) = Whole(h, c)
  <2> DEFINE g == CHOOSE f : Q(f)
  <2>1. Q(g)
    BY <1>4, Zenon
  <2>2. Grow(s) = g[1 .. c]
    <3>1. Grow(s) = Filled(s, [i \in 0 .. 2 * Cap(s) - 1 |-> Free], [i \in 1 .. Cap(s) |-> i])
      BY DEF Grow, Filled, FillOne, InTurn, MapThenFoldSet
    <3>2. Filled(s, a0, q) = g[DOMAIN q]
      BY <1>1 DEF Filled, InTurn, MapThenFoldSet
    <3> HIDE DEF g
    <3> QED BY <1>1, <3>1, <3>2, Zenon
  <2> HIDE DEF g
  <2> QED BY <2>1, <2>2, Zenon DEF Whole
<1>6. Folds(h, F, A, a0, c)
  <2> HIDE DEF q
  <2>1. h[{}] = a0
    BY <1>5, Zenon
  <2>2. ASSUME NEW t \in SUBSET (1 .. c), t # {}, Max(t) \in 1 .. c, h[t \ {Max(t)}] \in A
        PROVE  h[t] = F[<<h[t \ {Max(t)}], Max(t)>>]
    <3>1. h[t] = FillOne(s, h[t \ {Max(t)}], q[Max(t)])
      BY <1>5, <2>2, Zenon
    <3> QED BY <1>1, <1>2, <2>2, <3>1
  <2> QED BY <2>1, <2>2, Zenon DEF Folds
<1>7. /\ Whole(h, 0) = a0
      /\ \A i \in 0 .. c : Whole(h, i) \in A
      /\ \A i \in 1 .. c : Whole(h, i) = F[<<Whole(h, i - 1), i>>]
  BY <1>3, <1>6, FoldStep
<1> DEFINE w == [i \in 0 .. c |-> Whole(h, i)]
<1>8. w[0] = a0 /\ Grow(s) = w[c]
  BY <1>5, <1>7
<1>9. ASSUME NEW i \in 1 .. c PROVE w[i] = FillOne(s, w[i - 1], i)
  <2>1. i - 1 \in 0 .. c /\ i \in 0 .. c
    OBVIOUS
  <2>2. w[i] = Whole(h, i) /\ w[i - 1] = Whole(h, i - 1)
    BY <2>1
  <2> QED BY <1>2, <1>7, <2>1, <2>2
<1> HIDE DEF w
<1> QED BY <1>8, <1>9

(* grow() keeps every entry, in a table twice as large. *)
LEMMA GrowSound ==
  ASSUME Hashed, NEW s, NEW c, Sound(s, c)
  PROVE  /\ Sound(Grow(s), 2 * c) /\ Contents(Grow(s)) = Contents(s)
         /\ Cardinality(Used(Grow(s))) = Cardinality(Used(s))
<1> DEFINE b == 2 * c
           a0 == [i \in 0 .. b - 1 |-> Free]
           A == [0 .. b - 1 -> Entry \cup {Free}]
           Before(n) == {i \in Used(s) : i < n}
<1>1. /\ Table(s, c) /\ c \in Nat \ {0} /\ DOMAIN s = 0 .. c - 1 /\ Cap(s) = c
      /\ \A i \in 0 .. c - 1 : s[i] # Free =>
           s[i] \in Entry /\ s[i].key \in Key /\ s[i] = [key |-> s[i].key, val |-> s[i].val]
  BY TableFacts DEF Sound
<1>2. b \in Nat \ {0} /\ c < b
  BY <1>1
<1>3. \A i \in 1 .. c : s[i - 1] # Free => s[i - 1].key \in Key /\ s[i - 1].val \in Val
  <2> SUFFICES ASSUME NEW i \in 1 .. c, s[i - 1] # Free
               PROVE  s[i - 1].key \in Key /\ s[i - 1].val \in Val
    OBVIOUS
  <2>1. i - 1 \in 0 .. c - 1
    BY <1>1
  <2>2. s[i - 1] \in Entry
    BY <1>1, <2>1
  <2> QED BY <2>2 DEF Entry
<1>4. ASSUME NEW a \in A, NEW i \in 1 .. c PROVE FillOne(s, a, i) \in A
  <2>1. CASE s[i - 1] = Free
    BY <2>1 DEF FillOne
  <2>2. CASE s[i - 1] # Free
    <3>1. [key |-> s[i - 1].key, val |-> s[i - 1].val] \in Entry
      BY <1>3, <2>2 DEF Entry
    <3> QED BY <2>2, <3>1 DEF FillOne, Place
  <2> QED BY <2>1, <2>2
<1>5. a0 \in A /\ a0 = [i \in 0 .. 2 * c - 1 |-> Free]
  OBVIOUS
<1>6. PICK w : /\ w[0] = a0 /\ Grow(s) = w[c]
               /\ \A i \in 1 .. c : w[i] = FillOne(s, w[i - 1], i)
  <2> HIDE DEF A, a0
  <2> QED BY <1>1, <1>4, <1>5, FillLoop
<1> DEFINE G(n) == /\ Sound(w[n], b) /\ Contents(w[n]) = {s[i] : i \in Before(n)}
                   /\ Cardinality(Used(w[n])) = Cardinality(Before(n))
           S == {n \in 0 .. c : G(n)}
<1>7. G(0)
  <2>1. Before(0) = {}
    BY <1>1 DEF Used
  <2>2. DOMAIN a0 = 0 .. b - 1 /\ (\A i \in 0 .. b - 1 : a0[i] = Free) /\ Used(a0) = {}
    BY DEF Used
  <2>3. Sound(a0, b)
    <3>1. Table(a0, b)
      BY <1>2, <1>5 DEF Table
    <3> HIDE DEF a0
    <3> QED BY <2>2, <3>1 DEF Sound
  <2>4. Contents(a0) = {}
    BY <2>2, Zenon DEF Contents
  <2> HIDE DEF a0, Before
  <2> QED BY <1>6, <2>1, <2>2, <2>3, <2>4
<1>8. ASSUME NEW n \in 1 .. c, G(n - 1) PROVE G(n)
  <2> DEFINE u == w[n - 1]
             e == s[n - 1]
             B == Before(n - 1)
  <2>1. n - 1 \in 0 .. c - 1
    BY <1>1
  <2>2. w[n] = FillOne(s, u, n)
    BY <1>6
  <2>3. /\ IsFiniteSet(B) /\ Cardinality(B) <= c /\ n - 1 \notin B
    <3>1. B \in SUBSET (0 .. c - 1) /\ n - 1 \notin B
      BY <1>1 DEF Used
    <3>2. IsFiniteSet(0 .. c - 1) /\ Cardinality(0 .. c - 1) = c
      <4>1. 0 \in Int /\ c - 1 \in Int /\ ~(0 > c - 1) /\ (c - 1) - 0 + 1 = c
        BY <1>1
      <4> QED BY <4>1, FS_Interval
    <3> HIDE DEF B
    <3> QED BY <3>1, <3>2, FS_Subset
  <2>4. CASE e = Free
    <3>1. Before(n) = B
      BY <1>1, <2>1, <2>4 DEF Used
    <3>2. w[n] = u
      BY <2>2, <2>4 DEF FillOne
    <3> HIDE DEF B, Before
    <3> QED BY <1>8, <3>1, <3>2 DEF B
  <2>5. CASE e # Free
    <3>1. Before(n) = B \cup {n - 1}
      BY <1>1, <2>1, <2>5 DEF Used
    <3>2. /\ e.key \in Key /\ e.val \in Val /\ e = [key |-> e.key, val |-> e.val]
          /\ e \in Entry
      BY <1>1, <1>3, <2>1, <2>5
    <3>3. w[n] = Place(u, e.key, e.val)
      BY <2>2, <2>5 DEF FillOne
    <3>4. /\ Sound(u, b) /\ Contents(u) = {s[i] : i \in B}
          /\ Cardinality(Used(u)) = Cardinality(B)
      BY <1>8
    <3>5. \A x \in Contents(u) : x.key # e.key
      <4> SUFFICES ASSUME NEW i \in B PROVE s[i].key # e.key
        BY <3>4
      <4>1. i \in 0 .. c - 1 /\ s[i] # Free /\ i # n - 1
        BY <1>1, <2>1 DEF Used
      <4> QED BY <2>1, <2>5, <4>1 DEF Sound
    <3>6. Table(u, b) /\ IsFiniteSet(Used(u)) /\ Cardinality(Used(u)) \in Nat
      BY <3>4, TableFacts DEF Sound
    <3>7. HasRoom(u, b)
      <4>1. Cardinality(Used(u)) < b
        BY <1>1, <2>3, <3>4, <3>6
      <4> QED BY <3>6, <4>1, RoomLeft
    <3> HIDE DEF B, u, e, b, Before
    <3>8. StopsAt(u, e.key) \notin Used(u)
      BY <3>2, <3>4, <3>5, <3>7, FindIs DEF Used
    <3>9. /\ Sound(w[n], b) /\ Used(w[n]) = Used(u) \cup {StopsAt(u, e.key)}
          /\ Contents(w[n]) = {x \in Contents(u) : x.key # e.key} \cup {e}
      BY <3>2, <3>3, <3>4, <3>7, PlaceSound
    <3>10. Cardinality(Used(w[n])) = Cardinality(B) + 1
      <4>1. Cardinality(Used(u) \cup {StopsAt(u, e.key)}) = Cardinality(Used(u)) + 1
        BY <3>6, <3>8, FS_AddElement
      <4> QED BY <3>4, <3>9, <4>1
    <3>11. Cardinality(Before(n)) = Cardinality(B) + 1
      BY <2>3, <3>1, FS_AddElement
    <3>12. Contents(w[n]) = {s[i] : i \in Before(n)}
      <4>1. Contents(w[n]) = {s[i] : i \in B} \cup {s[n - 1]}
        BY <3>4, <3>5, <3>9 DEF e
      <4> QED BY <3>1, <4>1
    <3> QED BY <3>9, <3>10, <3>11, <3>12
  <2> QED BY <2>4, <2>5
<1>9. 0 .. c \subseteq S
  <2>1. 0 \in S
    BY <1>1, <1>7
  <2>2. ASSUME NEW i \in 1 .. c, i - 1 \in S PROVE i \in S
    <3>1. G(i - 1)
      BY <2>2
    <3>2. G(i)
      BY <1>8, <3>1
    <3> QED BY <3>2
  <2> HIDE DEF S
  <2> QED BY <1>1, <2>1, <2>2, InductUpTo
<1>10. G(c)
  <2>1. c \in 0 .. c
    BY <1>1
  <2> QED BY <1>9, <2>1
<1>11. Before(c) = Used(s)
  BY <1>1 DEF Used
<1> HIDE DEF Before
<1>12. /\ Sound(w[c], b) /\ Contents(w[c]) = {s[i] : i \in Used(s)}
       /\ Cardinality(Used(w[c])) = Cardinality(Used(s))
  BY <1>10, <1>11, Zenon
<1> QED BY <1>6, <1>12, Zenon DEF Contents

----------------------------------------------------------------------------
(* erase(): the loop that shifts entries back. *)

Sweeps(c) == [slots : [0 .. c - 1 -> Entry \cup {Free}], hole : 0 .. c - 1, done : BOOLEAN]

(* One round, case by case. *)
LEMMA ShiftIs ==
  ASSUME NEW c \in Nat \ {0}, NEW e \in Sweeps(c), NEW j \in 0 .. c - 1
  PROVE  LET n == ShiftBack(e, j)
             movable == Movable(e.hole, j, Home(c, e.slots[j].key))
         IN  /\ n \in Sweeps(c)
             /\ e.done => n = e
             /\ ~e.done /\ e.slots[j] = Free =>
                  n.done /\ n.slots = e.slots /\ n.hole = e.hole
             /\ ~e.done /\ e.slots[j] # Free /\ movable =>
                  n.slots = [e.slots EXCEPT ![e.hole] = e.slots[j]] /\ n.hole = j /\ ~n.done
             /\ ~e.done /\ e.slots[j] # Free /\ ~movable => n = e
<1> DEFINE n == ShiftBack(e, j)
           movable == Movable(e.hole, j, Home(c, e.slots[j].key))
<1>1. /\ e.slots \in [0 .. c - 1 -> Entry \cup {Free}] /\ e.hole \in 0 .. c - 1
      /\ e.done \in BOOLEAN /\ e = [slots |-> e.slots, hole |-> e.hole, done |-> e.done]
  BY DEF Sweeps
<1>2. Ideal(e.slots, e.slots[j].key) = Home(c, e.slots[j].key)
  <2>1. Cap(e.slots) = c
    BY <1>1, TableFacts DEF Table
  <2> QED BY <2>1, Zenon DEF Ideal, Home
<1>3. CASE e.done
  <2>1. n = [e EXCEPT !.done = TRUE]
    BY <1>3 DEF ShiftBack
  <2>2. n = e
    BY <1>1, <1>3, <2>1
  <2> QED BY <1>3, <2>2
<1>4. CASE ~e.done /\ e.slots[j] = Free
  <2>1. n = [e EXCEPT !.done = TRUE]
    BY <1>4 DEF ShiftBack
  <2> HIDE DEF n
  <2>2. n = [slots |-> e.slots, hole |-> e.hole, done |-> TRUE]
    BY <1>1, <2>1
  <2>3. n \in Sweeps(c)
    BY <1>1, <2>2 DEF Sweeps
  <2> QED BY <1>4, <2>2, <2>3 DEF n
<1>5. CASE ~e.done /\ e.slots[j] # Free /\ movable
  <2>1. n = [e EXCEPT !.slots[e.hole] = e.slots[j], !.hole = j]
    BY <1>2, <1>5 DEF ShiftBack
  <2> HIDE DEF n
  <2>2. n = [slots |-> [e.slots EXCEPT ![e.hole] = e.slots[j]], hole |-> j, done |-> FALSE]
    BY <1>1, <1>5, <2>1
  <2>3. n \in Sweeps(c)
    BY <1>1, <2>2 DEF Sweeps
  <2> QED BY <1>5, <2>2, <2>3 DEF n
<1>6. CASE ~e.done /\ e.slots[j] # Free /\ ~movable
  <2>1. n = e
    BY <1>2, <1>6 DEF ShiftBack
  <2> QED BY <1>6, <2>1
<1> QED BY <1>1, <1>3, <1>4, <1>5, <1>6

Shifted(a, q) == InTurn(ShiftBack, a, q)
Route(s, i) == [d \in 1 .. Cap(s) - 1 |-> (i + d) % Cap(s)]
Emptied(e) == [e.slots EXCEPT ![e.hole] = Free]

Rounds(w, a, c, i) ==
  /\ w[0] = a /\ \A d \in 0 .. c - 1 : w[d] \in Sweeps(c)
  /\ \A d \in 1 .. c - 1 : w[d] = ShiftBack(w[d - 1], On(c, i, d))

(* The sweep after every place, as a function of the number of places. *)
LEMMA ShiftLoop ==
  ASSUME NEW s, NEW c \in Nat \ {0}, Cap(s) = c, NEW i \in 0 .. c - 1, NEW a0 \in Sweeps(c)
  PROVE  \E w : Rounds(w, a0, c, i) /\ Shifted(a0, Route(s, i)) = w[c - 1]
<1> DEFINE A == Sweeps(c)
           n == c - 1
           q == [d \in 1 .. c - 1 |-> (i + d) % c]
           F == [x \in A \X (1 .. n) |-> ShiftBack(x[1], q[x[2]])]
           Q(f) == f = [t \in SUBSET DOMAIN q |->
                          IF t = {} THEN a0 ELSE ShiftBack(f[t \ {Max(t)}], q[Max(t)])]
<1>1. n \in Nat /\ DOMAIN q = 1 .. n
  OBVIOUS
<1>2. \A d \in 1 .. n : q[d] = On(c, i, d) /\ q[d] \in 0 .. c - 1
  <2> SUFFICES ASSUME NEW d \in 1 .. n PROVE q[d] = On(c, i, d) /\ q[d] \in 0 .. c - 1
    OBVIOUS
  <2>1. d \in 0 .. c - 1 /\ q[d] = (i + d) % c
    OBVIOUS
  <2>2. q[d] = On(c, i, d)
    BY <2>1, OnIs
  <2> QED BY <2>1, <2>2, Circle
<1> HIDE DEF n, q
<1>3. \A a \in A, d \in 1 .. n : F[<<a, d>>] = ShiftBack(a, q[d])
  OBVIOUS
<1> HIDE DEF F
<1>4. \A a \in A, d \in 1 .. n : ShiftBack(a, q[d]) \in A
  <2> SUFFICES ASSUME NEW a \in A, NEW d \in 1 .. n PROVE ShiftBack(a, q[d]) \in A
    OBVIOUS
  <2>1. q[d] \in 0 .. c - 1
    BY <1>2
  <2> QED BY <2>1, ShiftIs
<1>5. StepOn(F, A, n)
  BY <1>3, <1>4, Zenon DEF StepOn
<1> HIDE DEF A
<1>6. \E f : Q(f)
  <2>1. PICK f : FoldsIn(f, F, A, a0, n)
    BY <1>1, <1>5, FoldExists DEF A
  <2>2. Q(f)
    BY <1>1, <1>3, <2>1, Zenon DEF FoldsIn
  <2> QED BY <2>2, Zenon
<1>7. PICK h : Q(h) /\ Shifted(a0, q) = Whole(h, n)
  <2> DEFINE g == CHOOSE f : Q(f)
  <2>1. Q(g)
    BY <1>6, Zenon
  <2>2. Shifted(a0, q) = g[1 .. n]
    BY <1>1 DEF Shifted, InTurn, MapThenFoldSet
  <2> HIDE DEF g
  <2> QED BY <2>1, <2>2, Zenon DEF Whole
<1>8. Folds(h, F, A, a0, n)
  BY <1>1, <1>3, <1>7 DEF Folds
<1>9. /\ Whole(h, 0) = a0
      /\ \A d \in 0 .. n : Whole(h, d) \in A
      /\ \A d \in 1 .. n : Whole(h, d) = F[<<Whole(h, d - 1), d>>]
  <2>1. a0 \in A
    BY DEF A
  <2> QED BY <1>1, <1>5, <1>8, <2>1, FoldStep
<1> DEFINE w == [d \in 0 .. n |-> Whole(h, d)]
<1>10. w[0] = a0 /\ w[n] = Whole(h, n) /\ \A d \in 0 .. n : w[d] \in A
  BY <1>1, <1>9
<1>11. ASSUME NEW d \in 1 .. n PROVE w[d] = ShiftBack(w[d - 1], On(c, i, d))
  <2>1. d - 1 \in 0 .. n /\ d \in 0 .. n
    BY <1>1
  <2>2. w[d] = Whole(h, d) /\ w[d - 1] = Whole(h, d - 1)
    BY <2>1
  <2> HIDE DEF w
  <2>3. w[d] = ShiftBack(w[d - 1], q[d])
    BY <1>3, <1>9, <2>1, <2>2, Zenon
  <2> QED BY <1>2, <2>3
<1>12. Route(s, i) = q
  BY DEF q, Route
<1> HIDE DEF w
<1>13. Rounds(w, a0, c, i)
  BY <1>10, <1>11 DEF n, A, Rounds
<1> QED BY <1>7, <1>10, <1>12, <1>13 DEF n

----------------------------------------------------------------------------
(***************************************************************************)
(* The sweep once it has passed the d-th place after i, all of them used.  *)
(* The entry that is erased, or a copy of one that moved on, is in the     *)
(* hole.  Ahead of the hole nothing has changed; the entries between hole  *)
(* and d have their homes between the hole and themselves; and the table   *)
(* without the hole's entry holds what s holds without the entry at i.     *)
(***************************************************************************)
Ahead(s, c, i, e) ==
  \A x \in 0 .. c - 1 : x > Dist(c, i, e.hole) => e.slots[On(c, i, x)] = s[On(c, i, x)]

Settled(s, c, i, e, d) ==
  \A x \in 0 .. c - 1 :
    x > Dist(c, i, e.hole) /\ x <= d =>
      Dist(c, Home(c, s[On(c, i, x)].key), On(c, i, x)) < x - Dist(c, i, e.hole)

SameUse(s, c, t) == \A p \in 0 .. c - 1 : t[p] = Free <=> s[p] = Free

OthersReached(c, e) ==
  \A p \in 0 .. c - 1 :
    p # e.hole /\ e.slots[p] # Free => Reached(e.slots, c, e.slots[p].key, p)

OthersOnce(c, e) ==
  \A p, q \in 0 .. c - 1 :
    /\ p # e.hole /\ q # e.hole /\ e.slots[p] # Free /\ e.slots[q] # Free
    /\ e.slots[p].key = e.slots[q].key
    => p = q

Others(e) == {e.slots[p] : p \in Used(e.slots) \ {e.hole}}

Swept(s, c, i, e, d) ==
  /\ e \in Sweeps(c) /\ ~e.done /\ Dist(c, i, e.hole) <= d
  /\ \A x \in 0 .. c - 1 : x <= d => s[On(c, i, x)] # Free
  /\ Ahead(s, c, i, e) /\ Settled(s, c, i, e, d)
  /\ SameUse(s, c, e.slots) /\ OthersReached(c, e) /\ OthersOnce(c, e)
  /\ Others(e) = Contents(s) \ {s[i]}

(* Before the first round. *)
LEMMA SweptInit ==
  ASSUME NEW s, NEW c, Sound(s, c), NEW i \in 0 .. c - 1, s[i] # Free
  PROVE  Swept(s, c, i, [slots |-> s, hole |-> i, done |-> FALSE], 0)
<1> DEFINE e == [slots |-> s, hole |-> i, done |-> FALSE]
<1>1. Table(s, c) /\ c \in Nat \ {0} /\ DOMAIN s = 0 .. c - 1
  BY TableFacts DEF Sound
<1>2. e \in Sweeps(c) /\ e.slots = s /\ e.hole = i /\ ~e.done
  BY <1>1 DEF Table, Sweeps
<1> HIDE DEF e
<1>3. Dist(c, i, e.hole) = 0 /\ On(c, i, 0) = i
  BY <1>1, <1>2 DEF Dist, On
<1>4. Ahead(s, c, i, e) /\ SameUse(s, c, e.slots)
  BY <1>2, Zenon DEF Ahead, SameUse
<1>5. Settled(s, c, i, e, 0)
  BY <1>3 DEF Settled
<1>6. \A x \in 0 .. c - 1 : x <= 0 => s[On(c, i, x)] # Free
  BY <1>3
<1>7. OthersReached(c, e) /\ OthersOnce(c, e)
  BY <1>2, Zenon DEF OthersReached, OthersOnce, Sound
<1>8. Others(e) = Contents(s) \ {s[i]}
  <2>1. ASSUME NEW p \in Used(s), s[p] = s[i] PROVE p = i
    BY <1>1, <2>1 DEF Sound, Used
  <2> QED BY <1>2, <2>1 DEF Others, Contents
<1>9. Dist(c, i, e.hole) <= 0
  BY <1>3
<1> QED BY <1>2, <1>4, <1>5, <1>6, <1>7, <1>8, <1>9 DEF Swept, e

(* A round that meets a used place. *)
LEMMA SweptStep ==
  ASSUME Hashed, NEW s, NEW c, Sound(s, c), NEW i \in 0 .. c - 1, NEW e,
         NEW d \in 1 .. c - 1, Swept(s, c, i, e, d - 1), s[On(c, i, d)] # Free
  PROVE  Swept(s, c, i, ShiftBack(e, On(c, i, d)), d)
<1> DEFINE j == On(c, i, d)
           n == ShiftBack(e, j)
           g == Dist(c, i, e.hole)
           hole == e.hole
           home == Home(c, s[j].key)
<1>1. Table(s, c) /\ c \in Nat \ {0} /\ DOMAIN s = 0 .. c - 1
  BY TableFacts DEF Sound
<1>2. /\ e \in Sweeps(c) /\ ~e.done /\ hole \in 0 .. c - 1
      /\ e.slots \in [0 .. c - 1 -> Entry \cup {Free}] /\ DOMAIN e.slots = 0 .. c - 1
  BY DEF Swept, Sweeps
<1>3. j \in 0 .. c - 1 /\ Dist(c, i, j) = d /\ g \in 0 .. c - 1 /\ On(c, i, g) = hole
  <2>1. d \in 0 .. c - 1
    BY <1>1
  <2> QED BY <1>1, <1>2, <2>1, Circle
<1>4. g < d /\ hole # j
  <2>1. g <= d - 1
    BY DEF Swept
  <2> QED BY <1>1, <1>3, <2>1
<1>5. Dist(c, hole, j) = d - g
  <2>1. Dist(c, i, j) = g + Dist(c, hole, j)
    BY <1>1, <1>2, <1>3, <1>4, Between
  <2>2. Dist(c, hole, j) \in 0 .. c - 1
    BY <1>1, <1>2, <1>3, Circle
  <2> QED BY <1>1, <1>3, <2>1, <2>2
<1>6. e.slots[j] = s[j] /\ s[j] # Free /\ s[j].key \in Key
  <2>1. e.slots[j] = s[j]
    BY <1>3, <1>4 DEF Swept, Ahead
  <2> QED BY <1>1, <1>3, <2>1, TableFacts
<1>7. home \in 0 .. c - 1
  BY <1>1, <1>6, HomeIn
<1>8. \A x \in 0 .. c - 1 : x <= d => s[On(c, i, x)] # Free
  BY <1>1 DEF Swept
<1>9. Movable(hole, j, home) <=> Dist(c, home, j) >= d - g
  BY <1>1, <1>2, <1>3, <1>4, <1>5, <1>7, MovableIs
<1>10. CASE ~Movable(hole, j, home)
  <2>1. n = e
    BY <1>1, <1>2, <1>3, <1>6, <1>10, ShiftIs
  <2>2. Settled(s, c, i, e, d)
    <3> SUFFICES ASSUME NEW x \in 0 .. c - 1, x > g, x <= d
                 PROVE  Dist(c, Home(c, s[On(c, i, x)].key), On(c, i, x)) < x - g
      BY DEF Settled
    <3>1. CASE x = d
      <4>1. Dist(c, home, j) \in 0 .. c - 1
        BY <1>1, <1>3, <1>7, Circle
      <4> HIDE DEF g
      <4>2. Dist(c, home, j) < d - g
        BY <1>1, <1>3, <1>9, <1>10, <4>1
      <4> QED BY <3>1, <4>2
    <3>2. CASE x # d
      <4>1. x <= d - 1
        BY <1>1, <3>2
      <4> QED BY <4>1 DEF Swept, Settled
    <3> QED BY <3>1, <3>2
  <2>3. g <= d
    BY <1>3, <1>4
  <2> QED BY <1>8, <2>1, <2>2, <2>3 DEF Swept
<1>11. CASE Movable(hole, j, home)
  <2> DEFINE t == n.slots
  <2>1. /\ n \in Sweeps(c) /\ t = [e.slots EXCEPT ![hole] = e.slots[j]]
        /\ n.hole = j /\ ~n.done
    BY <1>1, <1>2, <1>3, <1>6, <1>11, ShiftIs
  <2>2. /\ t[hole] = s[j] /\ DOMAIN t = 0 .. c - 1
        /\ \A p \in 0 .. c - 1 : p # hole => t[p] = e.slots[p]
    BY <1>2, <1>6, <2>1
  <2> HIDE DEF n, j, hole, home
  <2>3. s[hole] # Free
    BY <1>3, <1>4, <1>8
  <2>4. SameUse(s, c, t)
    <3>1. SameUse(s, c, e.slots)
      BY DEF Swept
    <3> QED BY <1>6, <2>2, <2>3, <3>1 DEF SameUse
  <2>5. \A p \in 0 .. c - 1 : t[p] = Free <=> e.slots[p] = Free
    BY <2>4 DEF SameUse, Swept
  <2>6. ASSUME NEW k \in Key, NEW p \in 0 .. c - 1, Reached(e.slots, c, k, p)
        PROVE  Reached(t, c, k, p)
    <3>1. Home(c, k) \in 0 .. c - 1
      BY <1>1, HomeIn
    <3>2. \A x \in 0 .. c - 1 : On(c, Home(c, k), x) \in 0 .. c - 1
      BY <1>1, <3>1, Circle
    <3> QED BY <2>5, <2>6, <3>2 DEF Reached
  <2>7. Reached(e.slots, c, s[j].key, hole)
    <3>1. Reached(e.slots, c, s[j].key, j)
      BY <1>3, <1>4, <1>6 DEF Swept, OthersReached, hole
    <3>2. Dist(c, home, j) >= Dist(c, hole, j)
      BY <1>5, <1>9, <1>11
    <3>3. Dist(c, home, hole) = Dist(c, home, j) - Dist(c, hole, j)
      BY <1>1, <1>2, <1>3, <1>7, <3>2, Between
    <3>4. Dist(c, home, hole) <= Dist(c, home, j) /\ Dist(c, home, j) \in 0 .. c - 1
          /\ Dist(c, home, hole) \in 0 .. c - 1
      <4>1. /\ Dist(c, hole, j) \in 0 .. c - 1 /\ Dist(c, home, j) \in 0 .. c - 1
            /\ Dist(c, home, hole) \in 0 .. c - 1
        BY <1>1, <1>2, <1>3, <1>7, Circle
      <4> QED BY <1>1, <3>3, <4>1
    <3>5. \A x \in 0 .. c - 1 : x < Dist(c, home, hole) => x < Dist(c, home, j)
      BY <1>1, <3>4
    <3> QED BY <3>1, <3>5 DEF Reached, home
  <2>8. OthersReached(c, n)
    <3> SUFFICES ASSUME NEW p \in 0 .. c - 1, p # j, t[p] # Free
                 PROVE  Reached(t, c, t[p].key, p)
      BY <2>1 DEF OthersReached
    <3>1. CASE p = hole
      BY <1>6, <2>2, <2>6, <2>7, <3>1
    <3>2. CASE p # hole
      <4>1. t[p] = e.slots[p] /\ e.slots[p] # Free /\ Reached(e.slots, c, e.slots[p].key, p)
        BY <2>2, <3>2 DEF Swept, OthersReached, hole
      <4>2. e.slots[p].key \in Key
        BY <1>1, <1>2, <4>1, TableFacts DEF Table
      <4> QED BY <2>6, <4>1, <4>2
    <3> QED BY <3>1, <3>2
  <2>9. OthersOnce(c, n)
    <3> SUFFICES ASSUME NEW p \in 0 .. c - 1, NEW q \in 0 .. c - 1, p # j, q # j,
                        t[p] # Free, t[q] # Free, t[p].key = t[q].key
                 PROVE  p = q
      BY <2>1 DEF OthersOnce
    <3> DEFINE src(x) == IF x = hole THEN j ELSE x
    <3>1. \A x \in 0 .. c - 1 : x # j =>
            src(x) \in 0 .. c - 1 /\ src(x) # hole /\ t[x] = e.slots[src(x)]
      BY <1>3, <1>4, <1>6, <2>2 DEF j, hole
    <3> HIDE DEF src
    <3>2. src(p) = src(q)
      BY <3>1 DEF Swept, OthersOnce, hole
    <3> QED BY <3>2 DEF src
  <2>10. Others(n) = Others(e)
    <3>1. Used(t) = Used(e.slots) /\ hole \in Used(t) /\ j \in Used(t)
      BY <1>2, <1>3, <1>6, <2>2, <2>5 DEF Used
    <3>2. ASSUME NEW p \in Used(t) \ {j} PROVE t[p] \in Others(e)
      <4>1. CASE p = hole
        BY <1>4, <1>6, <2>2, <3>1, <4>1 DEF Others, hole, j
      <4>2. CASE p # hole
        BY <2>2, <3>1, <4>2 DEF Others, hole, Used
      <4> QED BY <4>1, <4>2
    <3>3. ASSUME NEW p \in Used(t) \ {hole} PROVE e.slots[p] \in Others(n)
      <4>1. CASE p = j
        BY <1>4, <1>6, <2>1, <2>2, <3>1, <4>1 DEF Others, hole, j
      <4>2. CASE p # j
        BY <2>1, <2>2, <3>1, <4>2 DEF Others, Used
      <4> QED BY <4>1, <4>2
    <3> QED BY <2>1, <3>1, <3>2, <3>3 DEF Others, hole
  <2>11. Dist(c, i, n.hole) = d
    BY <1>3, <2>1
  <2>12. Ahead(s, c, i, n)
    <3> SUFFICES ASSUME NEW x \in 0 .. c - 1, x > d PROVE t[On(c, i, x)] = s[On(c, i, x)]
      BY <2>11 DEF Ahead
    <3>1. On(c, i, x) \in 0 .. c - 1 /\ Dist(c, i, On(c, i, x)) = x
      BY <1>1, Circle
    <3>2. x > g
      BY <1>1, <1>3, <1>4
    <3>3. On(c, i, x) # hole
      BY <1>3, <3>1, <3>2 DEF hole
    <3> QED BY <2>2, <3>1, <3>2, <3>3 DEF Swept, Ahead, hole
  <2>13. Settled(s, c, i, n, d)
    BY <1>1, <2>11 DEF Settled
  <2>14. Others(n) = Contents(s) \ {s[i]}
    BY <2>10 DEF Swept
  <2>15. Dist(c, i, n.hole) <= d
    BY <1>1, <2>11
  <2>16. Swept(s, c, i, n, d)
    BY <1>8, <2>1, <2>4, <2>8, <2>9, <2>12, <2>13, <2>14, <2>15 DEF Swept
  <2> QED BY <2>16 DEF n, j
<1> QED BY <1>10, <1>11

(* The round that meets a free place: the hole is emptied. *)
LEMMA SweptEnd ==
  ASSUME Hashed, NEW s, NEW c, Sound(s, c), NEW i \in 0 .. c - 1, NEW e,
         NEW d \in 1 .. c - 1, Swept(s, c, i, e, d - 1), s[On(c, i, d)] = Free
  PROVE  /\ Sound(Emptied(e), c) /\ Contents(Emptied(e)) = Contents(s) \ {s[i]}
         /\ e.hole \in Used(s) /\ Used(Emptied(e)) = Used(s) \ {e.hole}
<1> DEFINE z == On(c, i, d)
           g == Dist(c, i, e.hole)
           hole == e.hole
           t == Emptied(e)
<1>1. Table(s, c) /\ c \in Nat \ {0} /\ DOMAIN s = 0 .. c - 1
  BY TableFacts DEF Sound
<1>2. /\ e \in Sweeps(c) /\ hole \in 0 .. c - 1
      /\ e.slots \in [0 .. c - 1 -> Entry \cup {Free}] /\ DOMAIN e.slots = 0 .. c - 1
  BY DEF Swept, Sweeps
<1>3. z \in 0 .. c - 1 /\ Dist(c, i, z) = d /\ g \in 0 .. c - 1 /\ On(c, i, g) = hole
  <2>1. d \in 0 .. c - 1
    BY <1>1
  <2> QED BY <1>1, <1>2, <2>1, Circle
<1>4. g < d
  <2>1. g <= d - 1
    BY DEF Swept
  <2> QED BY <1>1, <1>3, <2>1
<1>5. e.slots[z] = Free /\ s[hole] # Free
  <2>1. e.slots[z] = Free
    BY <1>3 DEF Swept, SameUse
  <2>2. g <= d - 1
    BY <1>1, <1>3, <1>4
  <2> QED BY <1>3, <2>1, <2>2 DEF Swept
<1>6. /\ t[hole] = Free /\ DOMAIN t = 0 .. c - 1 /\ Table(t, c)
      /\ \A p \in 0 .. c - 1 : p # hole => t[p] = e.slots[p]
  BY <1>1, <1>2 DEF Table, Emptied
<1> HIDE DEF t, z, hole
<1>7. ASSUME NEW p \in 0 .. c - 1, t[p] # Free PROVE Reached(t, c, t[p].key, p)
  <2> DEFINE h == Home(c, t[p].key)
             x == Dist(c, i, p)
  <2>1. p # hole /\ t[p] = e.slots[p] /\ e.slots[p] # Free
    BY <1>6, <1>7
  <2>2. Reached(e.slots, c, t[p].key, p)
    BY <2>1 DEF Swept, OthersReached, hole
  <2>3. h \in 0 .. c - 1
    BY <1>1, <1>6, <1>7, HomeIn, TableFacts
  <2>4. x \in 0 .. c - 1 /\ On(c, i, x) = p
    BY <1>1, Circle
  <2>5. Dist(c, h, hole) >= Dist(c, h, p)
    <3> SUFFICES ASSUME Dist(c, h, hole) < Dist(c, h, p) PROVE FALSE
      <4>1. Dist(c, h, hole) \in 0 .. c - 1 /\ Dist(c, h, p) \in 0 .. c - 1
        BY <1>1, <1>2, <2>3, Circle
      <4> QED BY <1>1, <4>1
    <3> HIDE DEF h
    <3>1. CASE x > g /\ x <= d - 1
      <4>1. t[p] = s[p]
        BY <2>1, <2>4, <3>1 DEF Swept, Ahead
      <4>2. Dist(c, h, p) < x - g
        BY <2>4, <3>1, <4>1 DEF Swept, Settled, h
      <4>3. x = g + Dist(c, hole, p)
        BY <1>1, <1>2, <3>1, Between DEF hole
      <4>4. Dist(c, h, p) = Dist(c, h, hole) + Dist(c, hole, p)
        BY <1>1, <1>2, <2>3, Between
      <4>5. /\ Dist(c, h, hole) \in 0 .. c - 1 /\ Dist(c, hole, p) \in 0 .. c - 1
            /\ Dist(c, h, p) \in 0 .. c - 1
        BY <1>1, <1>2, <2>3, Circle
      <4> HIDE DEF x, g
      <4> QED BY <1>1, <1>3, <2>4, <4>2, <4>3, <4>4, <4>5
    <3>2. CASE ~(x > g /\ x <= d - 1)
      <4>1. p # z
        BY <1>5, <2>1
      <4>2. Dist(c, h, z) < Dist(c, h, p)
        BY <1>1, <1>2, <1>3, <1>4, <2>1, <2>3, <3>2, <4>1, Past DEF hole
      <4>3. Dist(c, h, z) \in 0 .. c - 1 /\ On(c, h, Dist(c, h, z)) = z
        BY <1>1, <1>3, <2>3, Circle
      <4> QED BY <1>5, <2>2, <4>2, <4>3 DEF Reached, h
    <3> QED BY <3>1, <3>2
  <2> SUFFICES ASSUME NEW y \in 0 .. c - 1, y < Dist(c, h, p) PROVE t[On(c, h, y)] # Free
    BY DEF Reached
  <2>6. e.slots[On(c, h, y)] # Free
    BY <2>2 DEF Reached
  <2> HIDE DEF h
  <2>7. On(c, h, y) \in 0 .. c - 1 /\ Dist(c, h, On(c, h, y)) = y
    BY <1>1, <2>3, Circle
  <2>8. On(c, h, y) # hole
    <3>1. Dist(c, h, hole) \in 0 .. c - 1 /\ Dist(c, h, p) \in 0 .. c - 1
      BY <1>1, <1>2, <2>3, Circle
    <3>2. y # Dist(c, h, hole)
      BY <1>1, <2>5, <3>1
    <3> QED BY <2>7, <3>2
  <2> QED BY <1>6, <2>6, <2>7, <2>8
<1>8. ASSUME NEW p \in 0 .. c - 1, NEW q \in 0 .. c - 1,
             t[p] # Free, t[q] # Free, t[p].key = t[q].key
      PROVE  p = q
  <2>1. /\ p # hole /\ t[p] = e.slots[p] /\ q # hole /\ t[q] = e.slots[q]
    BY <1>6, <1>8
  <2> QED BY <1>8, <2>1 DEF Swept, OthersOnce, hole
<1>9. Sound(t, c)
  BY <1>6, <1>7, <1>8 DEF Sound
<1>10. Used(t) = Used(e.slots) \ {hole} /\ Used(e.slots) = Used(s) /\ hole \in Used(s)
  <2>1. \A p \in 0 .. c - 1 : e.slots[p] = Free <=> s[p] = Free
    BY DEF Swept, SameUse
  <2> QED BY <1>1, <1>2, <1>5, <1>6, <2>1 DEF Used
<1>11. Contents(t) = Others(e)
  <2>1. \A p \in Used(t) : t[p] = e.slots[p]
    BY <1>6 DEF Used
  <2> QED BY <1>10, <2>1 DEF Contents, Others, hole
<1>12. Contents(t) = Contents(s) \ {s[i]}
  BY <1>11 DEF Swept
<1> QED BY <1>9, <1>10, <1>12 DEF t, hole

(* erase() of a key that is there removes its entry and nothing else. *)
LEMMA EraseSound ==
  ASSUME Hashed, NEW s, NEW c, Sound(s, c), HasRoom(s, c), NEW key \in Key,
         Find(s, key) # << >>
  PROVE  LET t == EraseSlot(s, key)
         IN  /\ Sound(t, c) /\ Contents(t) = {e \in Contents(s) : e.key # key}
             /\ \E p \in Used(s) : Used(t) = Used(s) \ {p}
<1> DEFINE i == StopsAt(s, key)
           a0 == [slots |-> s, hole |-> i, done |-> FALSE]
           D == {d \in 1 .. c - 1 : s[On(c, i, d)] = Free}
           m == Min(D)
<1>1. Table(s, c) /\ c \in Nat \ {0} /\ DOMAIN s = 0 .. c - 1 /\ Cap(s) = c
  BY TableFacts DEF Sound
<1>2. i \in 0 .. c - 1 /\ s[i] # Free /\ s[i].key = key
  <2>1. i \in 0 .. c - 1 /\ (s[i] = Free \/ Holds(s, i, key))
    BY <1>1, Stops
  <2>2. s[i] # Free
    BY DEF Find
  <2> QED BY <2>1, <2>2 DEF Holds
<1>3. Swept(s, c, i, a0, 0)
  BY <1>2, SweptInit
<1>4. a0 \in Sweeps(c)
  BY <1>3 DEF Swept
<1> HIDE DEF a0, i
<1>5. PICK w : Rounds(w, a0, c, i) /\ Shifted(a0, Route(s, i)) = w[c - 1]
  BY <1>1, <1>2, <1>4, ShiftLoop
<1>6. EraseSlot(s, key) = Emptied(w[c - 1])
  <2>1. EraseSlot(s, key) = Emptied(Shifted(a0, Route(s, i)))
    BY DEF EraseSlot, Emptied, Shifted, Route, a0, i
  <2> QED BY <1>5, <2>1, Zenon
<1>7. m \in D /\ \A d \in D : m <= d
  <2>1. PICK y \in 0 .. c - 1 : s[y] = Free
    BY DEF HasRoom
  <2>2. Dist(c, i, y) \in 0 .. c - 1 /\ On(c, i, Dist(c, i, y)) = y /\ Dist(c, i, y) # 0
    BY <1>1, <1>2, <2>1, Circle, Between
  <2>3. Dist(c, i, y) \in D
    BY <1>1, <2>1, <2>2
  <2>4. D \in SUBSET Nat
    BY <1>1
  <2> HIDE DEF D
  <2> QED BY <2>3, <2>4, MinOfNats
<1> HIDE DEF m
<1>8. m \in 1 .. c - 1 /\ s[On(c, i, m)] = Free /\ m - 1 \in 0 .. c - 1 /\ c - 1 \in Nat
      /\ \A d \in 1 .. c - 1 : d < m => s[On(c, i, d)] # Free
  BY <1>1, <1>7
<1> HIDE DEF D
<1> DEFINE last == w[m - 1]
           G(d) == /\ d < m => Swept(s, c, i, w[d], d)
                   /\ d >= m => /\ Swept(s, c, i, last, m - 1)
                                /\ w[d].done /\ w[d].slots = last.slots
                                /\ w[d].hole = last.hole
           S == {d \in 0 .. c - 1 : G(d)}
<1>9. ASSUME NEW d \in 1 .. c - 1, G(d - 1) PROVE G(d)
  <2> DEFINE j == On(c, i, d)
             e == w[d - 1]
  <2>1. /\ d - 1 \in 0 .. c - 1 /\ d \in 0 .. c - 1 /\ e \in Sweeps(c)
        /\ w[d] = ShiftBack(e, j)
    BY <1>1, <1>5 DEF Rounds
  <2>2. j \in 0 .. c - 1
    BY <1>1, <1>2, <2>1, Circle
  <2>3. CASE d < m
    <3>1. Swept(s, c, i, e, d - 1)
      BY <1>1, <1>8, <1>9, <2>3
    <3>2. s[j] # Free
      BY <1>8, <2>3
    <3>3. Swept(s, c, i, w[d], d)
      BY <1>2, <2>1, <3>1, <3>2, SweptStep
    <3> QED BY <1>1, <1>8, <2>3, <3>3
  <2>4. CASE d = m
    <3>1. Swept(s, c, i, e, d - 1) /\ e = last
      BY <1>1, <1>8, <1>9, <2>4
    <3>2. e.slots[j] = Free /\ ~e.done
      <4>1. s[j] = Free
        BY <1>8, <2>4
      <4>2. ~e.done /\ \A p \in 0 .. c - 1 : e.slots[p] = Free <=> s[p] = Free
        BY <3>1 DEF Swept, SameUse
      <4> QED BY <2>2, <4>1, <4>2
    <3>3. w[d].done /\ w[d].slots = e.slots /\ w[d].hole = e.hole
      <4> DEFINE n == ShiftBack(e, j)
      <4> HIDE DEF e, j
      <4>1. n.done /\ n.slots = e.slots /\ n.hole = e.hole
        BY <1>1, <2>1, <2>2, <3>2, ShiftIs
      <4> QED BY <2>1, <4>1, Zenon
    <3> QED BY <1>1, <2>4, <3>1, <3>3
  <2>5. CASE d > m
    <3>1. d - 1 >= m
      BY <1>1, <1>8, <2>5
    <3>2. /\ Swept(s, c, i, last, m - 1) /\ e.done /\ e.slots = last.slots
          /\ e.hole = last.hole
      BY <1>9, <3>1
    <3>3. w[d] = e
      BY <1>1, <2>1, <2>2, <3>2, ShiftIs
    <3> QED BY <1>1, <1>8, <2>5, <3>2, <3>3
  <2> QED BY <1>1, <1>8, <2>3, <2>4, <2>5
<1>10. 0 .. c - 1 \subseteq S
  <2>1. G(0)
    BY <1>1, <1>3, <1>5, <1>8 DEF Rounds
  <2>2. 0 \in S
    BY <1>1, <2>1
  <2>3. ASSUME NEW d \in 1 .. c - 1, d - 1 \in S PROVE d \in S
    <3>1. G(d - 1) /\ d \in 0 .. c - 1
      BY <1>1, <2>3
    <3>2. G(d)
      BY <1>9, <3>1
    <3> QED BY <3>1, <3>2
  <2> HIDE DEF S
  <2> QED BY <1>8, <2>2, <2>3, InductUpTo
<1>11. /\ Swept(s, c, i, last, m - 1) /\ w[c - 1].slots = last.slots
       /\ w[c - 1].hole = last.hole
  <2>1. c - 1 \in S /\ c - 1 >= m
    BY <1>1, <1>8, <1>10
  <2> QED BY <2>1
<1> DEFINE t == Emptied(last)
<1>12. EraseSlot(s, key) = t
  BY <1>6, <1>11, Zenon DEF Emptied
<1> HIDE DEF last
<1>13. /\ Sound(t, c) /\ Contents(t) = Contents(s) \ {s[i]}
       /\ last.hole \in Used(s) /\ Used(t) = Used(s) \ {last.hole}
  BY <1>2, <1>8, <1>11, SweptEnd
<1> HIDE DEF t
<1>14. Contents(s) \ {s[i]} = {e \in Contents(s) : e.key # key}
  <2>1. ASSUME NEW p \in Used(s), s[p].key = key PROVE p = i
    BY <1>1, <1>2, <2>1 DEF Sound, Used
  <2> QED BY <1>2, <2>1 DEF Contents
<1> QED BY <1>12, <1>13, <1>14

----------------------------------------------------------------------------
(* The map. *)

(* What the invariant says of the table in use. *)
LEMMA MapFacts ==
  ASSUME MInv
  PROVE  /\ Sound(slots, Cap(slots)) /\ Cap(slots) \in Nat \ {0} /\ size \in Nat
         /\ size < Cap(slots) /\ HasRoom(slots, Cap(slots))
<1> DEFINE c == Cap(slots)
<1>1. Sound(slots, c) /\ Table(slots, c) /\ c \in Nat \ {0}
  BY DEF MInv, Sound, Table
<1>2. size \in Nat /\ size = Cardinality(Used(slots))
  BY <1>1, TableFacts DEF MInv
<1>3. size * 10 <= c * 7
  BY DEF MInv
<1> HIDE DEF c
<1>4. size < c
  BY <1>1, <1>2, <1>3
<1>5. HasRoom(slots, c)
  BY <1>1, <1>2, <1>4, RoomLeft
<1> QED BY <1>1, <1>2, <1>4, <1>5 DEF c

(* The empty table. *)
LEMMA MapInit == Init => MInv
<1> SUFFICES ASSUME Init PROVE MInv
  OBVIOUS
<1> DEFINE c == InitialCap
<1>1. c \in Nat \ {0} /\ slots = [i \in 0 .. c - 1 |-> Free] /\ size = 0
  BY MapAssumption DEF Init
<1>2. Hashed
  BY MapAssumption DEF Init, Hashed
<1>3. Table(slots, c) /\ \A i \in 0 .. c - 1 : slots[i] = Free
  BY <1>1 DEF Table
<1>4. Used(slots) = {} /\ Sound(slots, c) /\ Cap(slots) = c
  BY <1>1, <1>3, TableFacts DEF Used, Sound
<1>5. Contents(slots) = {}
  BY <1>4, Zenon DEF Contents
<1>6. Cardinality({}) = 0
  BY FS_EmptySet
<1>7. map = [k \in Key |-> << >>]
  BY DEF Init
<1>8. map \in [Key -> {<< >>} \cup {<<v>> : v \in Val}] /\ Mirrors(map, slots)
  BY <1>5, <1>7 DEF Mirrors
<1> HIDE DEF c
<1>9. size = Cardinality(Used(slots)) /\ size * 10 <= Cap(slots) * 7
  <2>1. size = Cardinality(Used(slots))
    BY <1>1, <1>4, <1>6, Zenon
  <2>2. 0 * 10 <= c * 7
    BY <1>1
  <2> QED BY <1>1, <1>4, <2>1, <2>2
<1> QED BY <1>2, <1>4, <1>8, <1>9 DEF MInv

(* The table that insert() writes to: the one in use, or a larger copy. *)
LEMMA RoomMade ==
  ASSUME MInv
  PROVE  LET s == IF LoadExceeded THEN Grow(slots) ELSE slots
         IN  /\ Sound(s, Cap(s)) /\ HasRoom(s, Cap(s)) /\ Contents(s) = Contents(slots)
             /\ Cardinality(Used(s)) = size /\ (size + 1) * 10 <= Cap(s) * 7
<1> DEFINE s == IF LoadExceeded THEN Grow(slots) ELSE slots
           c == Cap(slots)
<1>1. Sound(slots, c) /\ c \in Nat \ {0} /\ size \in Nat /\ size < c /\ HasRoom(slots, c)
  BY MapFacts
<1>2. Hashed /\ size = Cardinality(Used(slots)) /\ size * 10 <= c * 7
  BY DEF MInv
<1>3. CASE ~LoadExceeded
  <2>1. s = slots /\ (size + 1) * 10 <= c * 7
    <3>1. ~((size + 1) * 10 > c * 7) /\ s = slots
      BY <1>3 DEF LoadExceeded
    <3> HIDE DEF c, s
    <3> QED BY <1>1, <3>1
  <2> QED BY <1>1, <1>2, <2>1
<1>4. CASE LoadExceeded
  <2>1. s = Grow(slots)
    BY <1>4
  <2> HIDE DEF s, c
  <2>2. /\ Sound(s, 2 * c) /\ Contents(s) = Contents(slots)
        /\ Cardinality(Used(s)) = size
    BY <1>1, <1>2, <2>1, GrowSound
  <2>3. Table(s, 2 * c) /\ Cap(s) = 2 * c
    BY <2>2, TableFacts DEF Sound
  <2>4. size < 2 * c /\ (size + 1) * 10 <= (2 * c) * 7
    BY <1>1, <1>2
  <2>5. HasRoom(s, 2 * c)
    BY <2>2, <2>3, <2>4, RoomLeft
  <2>6. /\ Sound(s, Cap(s)) /\ HasRoom(s, Cap(s)) /\ (size + 1) * 10 <= Cap(s) * 7
    BY <2>2, <2>3, <2>4, <2>5
  <2> QED BY <2>2, <2>6 DEF s
<1> QED BY <1>3, <1>4

(* insert(): the entry of the key becomes the new one. *)
LEMMA InsertKeeps ==
  ASSUME MInv, NEW key \in Key, NEW val \in Val, Insert(key, val)
  PROVE  MInv'
<1> DEFINE s == IF LoadExceeded THEN Grow(slots) ELSE slots
           c == Cap(s)
           t == Place(s, key, val)
           new == [key |-> key, val |-> val]
           i == StopsAt(s, key)
<1>1. /\ Sound(s, c) /\ HasRoom(s, c) /\ Contents(s) = Contents(slots)
      /\ Cardinality(Used(s)) = size /\ (size + 1) * 10 <= c * 7
  BY RoomMade
<1>2. Hashed /\ size \in Nat
  BY MapFacts DEF MInv
<1>3. /\ slots' = t /\ map' = [map EXCEPT ![key] = <<val>>] /\ hash' = hash
      /\ size' = IF Find(s, key) = << >> THEN size + 1 ELSE size
  BY DEF Insert
<1> HIDE DEF s
<1>4. /\ Sound(t, c) /\ Used(t) = Used(s) \cup {i}
      /\ Contents(t) = {e \in Contents(s) : e.key # key} \cup {new}
  BY <1>1, <1>2, PlaceSound
<1>5. Table(s, c) /\ IsFiniteSet(Used(s)) /\ c \in Nat \ {0}
  BY <1>1, TableFacts DEF Sound
<1>6. Table(t, c) /\ Cap(t) = c
  BY <1>4, TableFacts DEF Sound
<1> HIDE DEF c, t, i
<1>7. size' = Cardinality(Used(t)) /\ size' <= size + 1 /\ size' \in Nat
  <2>1. CASE \A e \in Contents(s) : e.key # key
    <3>1. Find(s, key) = << >> /\ i \notin Used(s)
      BY <1>1, <1>2, <2>1, FindIs DEF Used, i
    <3>2. Cardinality(Used(t)) = size + 1
      BY <1>1, <1>4, <1>5, <3>1, FS_AddElement
    <3> QED BY <1>2, <1>3, <3>1, <3>2
  <2>2. CASE \E e \in Contents(s) : e.key = key
    <3>1. PICK e \in Contents(s) : e.key = key
      BY <2>2
    <3>2. Find(s, key) = <<e.val>> /\ i \in Used(s)
      BY <1>1, <1>2, <3>1, FindIs DEF i
    <3>3. Find(s, key) # << >> /\ Used(t) = Used(s)
      BY <1>4, <3>2
    <3> QED BY <1>1, <1>2, <1>3, <3>3
  <2> QED BY <2>1, <2>2
<1>8. size' * 10 <= c * 7
  BY <1>1, <1>2, <1>5, <1>7
<1>9. map' \in [Key -> {<< >>} \cup {<<v>> : v \in Val}]
  BY <1>3 DEF MInv
<1>10. Mirrors(map', t)
  <2> SUFFICES ASSUME NEW k \in Key
               PROVE  \/ map'[k] = << >> /\ \A e \in Contents(t) : e.key # k
                      \/ \E e \in Contents(t) : e.key = k /\ map'[k] = <<e.val>>
    BY DEF Mirrors
  <2>1. CASE k = key
    <3>1. new \in Contents(t) /\ new.key = k /\ new.val = val
      BY <1>4, <2>1
    <3>2. map'[k] = <<val>>
      BY <1>3, <2>1 DEF MInv
    <3> HIDE DEF new
    <3> QED BY <3>1, <3>2
  <2>2. CASE k # key
    <3>1. map'[k] = map[k]
      BY <1>3, <2>2 DEF MInv
    <3>2. \A e : e \in Contents(t) /\ e.key = k <=> e \in Contents(slots) /\ e.key = k
      BY <1>1, <1>4, <2>2
    <3>3. \/ map[k] = << >> /\ \A e \in Contents(slots) : e.key # k
          \/ \E e \in Contents(slots) : e.key = k /\ map[k] = <<e.val>>
      BY DEF MInv, Mirrors
    <3> QED BY <3>1, <3>2, <3>3, Zenon
  <2> QED BY <2>1, <2>2
<1>11. Sound(slots, Cap(slots))' /\ Hashed'
  <2>1. Sound(slots', c)
    BY <1>3, <1>4
  <2>2. Cap(slots') = c
    BY <1>3, <1>6
  <2> QED BY <1>2, <1>3, <2>1, <2>2 DEF Sound, Reached, Home, Hashed
<1> QED BY <1>3, <1>6, <1>7, <1>8, <1>9, <1>10, <1>11 DEF MInv

(* erase() of a key that is there. *)
LEMMA EraseKeeps ==
  ASSUME MInv, NEW key \in Key, Erase(key)
  PROVE  MInv'
<1> DEFINE c == Cap(slots)
           t == EraseSlot(slots, key)
<1>1. Sound(slots, c) /\ c \in Nat \ {0} /\ size \in Nat /\ HasRoom(slots, c)
  BY MapFacts
<1>2. Hashed /\ size = Cardinality(Used(slots)) /\ size * 10 <= c * 7
  BY DEF MInv
<1>3. /\ Find(slots, key) # << >> /\ slots' = t /\ map' = [map EXCEPT ![key] = << >>]
      /\ hash' = hash /\ size' = size - 1
  BY DEF Erase
<1>4. /\ Sound(t, c) /\ Contents(t) = {e \in Contents(slots) : e.key # key}
      /\ \E p \in Used(slots) : Used(t) = Used(slots) \ {p}
  BY <1>1, <1>2, <1>3, EraseSound
<1>5. IsFiniteSet(Used(slots)) /\ Cap(t) = c
  BY <1>1, <1>4, TableFacts DEF Sound
<1> HIDE DEF c, t
<1>6. size' = Cardinality(Used(t)) /\ size' * 10 <= c * 7
  <2>1. PICK p \in Used(slots) : Used(t) = Used(slots) \ {p}
    BY <1>4
  <2>2. Cardinality(Used(t)) = size - 1
    BY <1>2, <1>5, <2>1, FS_RemoveElement
  <2> QED BY <1>1, <1>2, <1>3, <2>2
<1>7. map' \in [Key -> {<< >>} \cup {<<v>> : v \in Val}]
  BY <1>3 DEF MInv
<1>8. Mirrors(map', t)
  <2> SUFFICES ASSUME NEW k \in Key
               PROVE  \/ map'[k] = << >> /\ \A e \in Contents(t) : e.key # k
                      \/ \E e \in Contents(t) : e.key = k /\ map'[k] = <<e.val>>
    BY DEF Mirrors
  <2>1. CASE k = key
    BY <1>3, <1>4, <2>1 DEF MInv
  <2>2. CASE k # key
    <3>1. map'[k] = map[k]
      BY <1>3, <2>2 DEF MInv
    <3>2. \A e : e \in Contents(t) /\ e.key = k <=> e \in Contents(slots) /\ e.key = k
      BY <1>4, <2>2
    <3>3. \/ map[k] = << >> /\ \A e \in Contents(slots) : e.key # k
          \/ \E e \in Contents(slots) : e.key = k /\ map[k] = <<e.val>>
      BY DEF MInv, Mirrors
    <3> QED BY <3>1, <3>2, <3>3, Zenon
  <2> QED BY <2>1, <2>2
<1>9. Sound(slots, Cap(slots))' /\ Hashed'
  <2>1. Sound(slots', c)
    BY <1>3, <1>4
  <2>2. Cap(slots') = c
    BY <1>3, <1>5
  <2> QED BY <1>2, <1>3, <2>1, <2>2 DEF Sound, Reached, Home, Hashed
<1> QED BY <1>3, <1>5, <1>6, <1>7, <1>8, <1>9 DEF MInv

----------------------------------------------------------------------------

(* The inductive invariant: the table is sound, not too full, and mirrors map. *)
LEMMA MapAlways == Spec => []MInv
<1>1. Init => MInv
  BY MapInit
<1>2. MInv /\ [Next]_vars => MInv'
  <2> SUFFICES ASSUME MInv, [Next]_vars PROVE MInv'
    OBVIOUS
  <2>1. ASSUME NEW key \in Key, NEW val \in Val, Insert(key, val) PROVE MInv'
    BY <2>1, InsertKeeps
  <2>2. ASSUME NEW key \in Key, Erase(key) PROVE MInv'
    BY <2>2, EraseKeeps
  <2>3. CASE UNCHANGED vars
    BY <2>3 DEF vars, MInv, Hashed, Sound, Table, Reached, Home, Used, Contents, Mirrors, Cap
  <2>4. ASSUME NEW key \in Key, EraseAbsent(key) PROVE MInv'
    BY <2>3, <2>4 DEF EraseAbsent
  <2> QED BY <2>1, <2>2, <2>3, <2>4 DEF Next
<1> QED BY <1>1, <1>2, PTL DEF Spec

(***************************************************************************)
(* find_slot, insert and erase always meet a free place: their probing     *)
(* loops end, and size_ is exact, for every hash, every number of keys and *)
(* every sequence of calls.                                                *)
(***************************************************************************)
THEOREM ProbesEndThm == Spec => []ProbesEnd
<1>1. MInv => ProbesEnd
  <2> SUFFICES ASSUME MInv PROVE ProbesEnd
    OBVIOUS
  <2>1. size < Cap(slots) /\ size = Cardinality(Used(slots))
    BY MapFacts DEF MInv
  <2> QED BY <2>1 DEF ProbesEnd, Used
<1> QED BY <1>1, MapAlways, PTL

(***************************************************************************)
(* find() returns what the calls so far stored, for every hash and across  *)
(* deletions that shift entries back around the end of the table and       *)
(* growth that rehashes them all.                                          *)
(***************************************************************************)
THEOREM FindsWhatWasStoredThm == Spec => []FindsWhatWasStored
<1>1. MInv => FindsWhatWasStored
  <2> SUFFICES ASSUME MInv, NEW key \in Key PROVE Find(slots, key) = map[key]
    BY DEF FindsWhatWasStored
  <2>1. Sound(slots, Cap(slots)) /\ HasRoom(slots, Cap(slots)) /\ Hashed
    BY MapFacts DEF MInv
  <2>2. \/ map[key] = << >> /\ \A e \in Contents(slots) : e.key # key
        \/ \E e \in Contents(slots) : e.key = key /\ map[key] = <<e.val>>
    BY DEF MInv, Mirrors
  <2> QED BY <2>1, <2>2, FindIs
<1> QED BY <1>1, MapAlways, PTL

============================================================================
