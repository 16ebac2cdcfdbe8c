--------------------------- MODULE LogMessageProofs ---------------------------
(* For any names and values: BaseMsg lists each default field once, with its       *)
(* latest value, and in the place where it was first listed; a JSON object has     *)
(* what the log() call gave, else the default, else the message's own.             *)
EXTENDS LogMessage, TLAPS, FiniteSetTheorems, WellFoundedInduction

-----------------------------------------------------------------------------
(* Lists of fields                                                               *)

\* In a list that names no field twice, addField() overwrites the field of that
\* name in its place, or appends the new one.
LEMMA AddFieldIs ==
  ASSUME NEW fields \in Seq(Field), NEW new \in Field,
         \A i, j \in DOMAIN fields : fields[i].key = fields[j].key => i = j
  PROVE  \/ /\ \A i \in DOMAIN fields : fields[i].key # new.key
            /\ AddField(fields, new) = Append(fields, new)
         \/ \E i \in DOMAIN fields :
              /\ fields[i].key = new.key
              /\ AddField(fields, new) = [fields EXCEPT ![i] = new]
<1> DEFINE same == {i \in DOMAIN fields : fields[i].key = new.key}
<1>1. CASE same = {}
  BY <1>1 DEF AddField
<1>2. CASE same # {}
  <2>1. PICK i \in DOMAIN fields : fields[i].key = new.key
    BY <1>2
  <2>2. same = {i}
    BY <2>1
  <2>3. (CHOOSE k \in same : \A j \in same : k <= j) = i
    BY <2>1, <2>2
  <2> QED
    BY <1>2, <2>1, <2>3 DEF AddField
<1> QED
  BY <1>1, <1>2

\* A list that has the names and values of the table t, each name once.
Lists(list, t) ==
  /\ \A i, j \in DOMAIN list : list[i].key = list[j].key => i = j
  /\ \A i \in DOMAIN list : list[i].value = t[list[i].key]
  /\ \A k \in Key : (\E i \in DOMAIN list : list[i].key = k) <=> t[k] # Absent

\* It keeps the list without duplicates and up to date, and every field's place.
LEMMA AddedListed ==
  ASSUME NEW list \in Seq(Field), NEW t \in [Key -> Value \cup {Absent}], Lists(list, t),
         NEW new \in Field
  PROVE  /\ AddField(list, new) \in Seq(Field)
         /\ [t EXCEPT ![new.key] = new.value] \in [Key -> Value \cup {Absent}]
         /\ Lists(AddField(list, new), [t EXCEPT ![new.key] = new.value])
         /\ Len(list) <= Len(AddField(list, new))
         /\ \A i \in DOMAIN list : AddField(list, new)[i].key = list[i].key
<1> DEFINE added == AddField(list, new)
           u     == [t EXCEPT ![new.key] = new.value]
<1>0. /\ u = [t EXCEPT ![new.key] = new.value]
      /\ \/ /\ \A i \in DOMAIN list : list[i].key # new.key
            /\ added = Append(list, new)
         \/ \E i \in DOMAIN list :
              list[i].key = new.key /\ added = [list EXCEPT ![i] = new]
  BY AddFieldIs DEF Lists
<1> HIDE DEF added, u
<1> USE DEF Field
<1>1. /\ \A i, j \in DOMAIN list : list[i].key = list[j].key => i = j
      /\ new.key \in Key /\ new.value \in Value
      /\ u \in [Key -> Value \cup {Absent}]
      /\ \A k \in Key : u[k] = IF k = new.key THEN new.value ELSE t[k]
  BY <1>0 DEF Lists
<1>2. \A i \in DOMAIN list : list[i].key \in Key /\ list[i].value = t[list[i].key]
  <2>1. \A i \in DOMAIN list : list[i] \in Field
    <3> HIDE DEF Field
    <3> QED OBVIOUS
  <2> QED BY <2>1 DEF Lists
<1>3. ASSUME \A i \in DOMAIN list : list[i].key # new.key, added = Append(list, new)
      PROVE  /\ added \in Seq(Field) /\ Lists(added, u) /\ Len(list) <= Len(added)
             /\ \A i \in DOMAIN list : added[i].key = list[i].key
  <2>1. /\ added \in Seq(Field) /\ Len(added) = Len(list) + 1
        /\ added[Len(list) + 1] = new /\ \A i \in DOMAIN list : added[i] = list[i]
        /\ DOMAIN list = 1..Len(list) /\ DOMAIN added = 1..(Len(list) + 1)
        /\ Len(list) \in Nat
    BY <1>3
  <2>2. \A i, j \in DOMAIN added : added[i].key = added[j].key => i = j
    BY <1>1, <1>3, <2>1
  <2>3. \A i \in DOMAIN added : added[i].value = u[added[i].key]
    <3>1. \A i \in DOMAIN list : list[i].key # new.key
      BY <1>3
    <3> QED BY <1>1, <1>2, <2>1, <3>1
  <2>4. \A k \in Key : (\E i \in DOMAIN added : added[i].key = k) <=> u[k] # Absent
    <3>1. \A k \in Key : (\E i \in DOMAIN list : list[i].key = k) <=> t[k] # Absent
      BY DEF Lists
    <3>2. \A k \in Key : (\E i \in DOMAIN added : added[i].key = k)
                         <=> k = new.key \/ \E i \in DOMAIN list : list[i].key = k
      BY <2>1
    <3> QED BY <1>1, <1>3, <3>1, <3>2, FieldAssumption
  <2> QED
    BY <2>1, <2>2, <2>3, <2>4 DEF Lists
<1>4. ASSUME NEW n \in DOMAIN list, list[n].key = new.key, added = [list EXCEPT ![n] = new]
      PROVE  /\ added \in Seq(Field) /\ Lists(added, u) /\ Len(list) <= Len(added)
             /\ \A i \in DOMAIN list : added[i].key = list[i].key
  <2>1. /\ added \in Seq(Field) /\ Len(added) = Len(list) /\ added[n] = new
        /\ \A i \in DOMAIN list \ {n} : added[i] = list[i]
        /\ DOMAIN added = DOMAIN list /\ Len(list) \in Nat
    BY <1>4
  <2>2. \A i \in DOMAIN list : added[i].key = list[i].key
    BY <1>4, <2>1
  <2>3. \A i, j \in DOMAIN added : added[i].key = added[j].key => i = j
    BY <1>1, <2>1, <2>2
  <2>4. \A i \in DOMAIN added : added[i].value = u[added[i].key]
    <3>1. \A i \in DOMAIN list : i # n => list[i].key # new.key
      BY <1>1, <1>4
    <3> QED BY <1>1, <1>2, <2>1, <3>1
  <2>5. \A k \in Key : (\E i \in DOMAIN added : added[i].key = k)
                       <=> (\E i \in DOMAIN list : list[i].key = k)
    BY <2>1, <2>2
  <2>6. \A k \in Key : (\E i \in DOMAIN added : added[i].key = k) <=> u[k] # Absent
    BY <1>1, <1>4, <2>5, FieldAssumption DEF Lists
  <2> QED
    BY <2>1, <2>2, <2>3, <2>4, <2>6 DEF Lists
<1> QED
  BY <1>0, <1>1, <1>3, <1>4 DEF added, u

-----------------------------------------------------------------------------
(* The default fields                                                            *)

IInv == /\ base \in Seq(Field)
        /\ latest \in [Key -> Value \cup {Absent}]
        /\ Lists(base, latest)

\* At first nothing is listed.
LEMMA InitInv == Init => IInv
  BY FieldAssumption DEF Init, IInv, Lists

\* A default field is set.
LEMMA AddDefaultStep ==
  ASSUME IInv, NEW new \in Field, AddDefault(new)
  PROVE  IInv' /\ Len(base) <= Len(base')
         /\ \A i \in DOMAIN base : base'[i].key = base[i].key
<1>1. /\ base \in Seq(Field) /\ latest \in [Key -> Value \cup {Absent}] /\ Lists(base, latest)
      /\ base' = AddField(base, new) /\ latest' = [latest EXCEPT ![new.key] = new.value]
  BY DEF AddDefault, IInv
<1>2. /\ base' \in Seq(Field) /\ latest' \in [Key -> Value \cup {Absent}]
      /\ Lists(base', latest') /\ Len(base) <= Len(base')
      /\ \A i \in DOMAIN base : base'[i].key = base[i].key
  <2>1. /\ AddField(base, new) \in Seq(Field)
        /\ [latest EXCEPT ![new.key] = new.value] \in [Key -> Value \cup {Absent}]
        /\ Lists(AddField(base, new), [latest EXCEPT ![new.key] = new.value])
        /\ Len(base) <= Len(AddField(base, new))
        /\ \A i \in DOMAIN base : AddField(base, new)[i].key = base[i].key
    BY <1>1, AddedListed
  <2> QED BY <1>1, <2>1
<1> QED BY <1>2 DEF IInv

\* What every step keeps of the list.
LEMMA KeepsPlace ==
  ASSUME IInv, [Next]_vars
  PROVE  IInv' /\ (\/ UNCHANGED base
                   \/ /\ Len(base) <= Len(base')
                      /\ \A i \in DOMAIN base : base'[i].key = base[i].key)
<1>1. ASSUME NEW fields, Log(fields) PROVE IInv' /\ UNCHANGED base
  BY <1>1 DEF Log, IInv
<1>2. ASSUME UNCHANGED vars PROVE IInv' /\ UNCHANGED base
  BY <1>2 DEF vars, IInv
<1> QED
  BY <1>1, <1>2, AddDefaultStep DEF Next

\* BaseMsg lists the fields that were ever added, once each and up to date.
THEOREM Latest == Spec => []BaseIsLatest
<1>1. IInv /\ [Next]_vars => IInv'
  BY KeepsPlace
<1>2. IInv => BaseIsLatest
  BY DEF IInv, Lists, BaseIsLatest, Listed
<1> QED
  BY InitInv, <1>1, <1>2, PTL DEF Spec

\* A default field never moves, whatever is set after it.
THEOREM KeepTheirPlace == Spec => FieldsKeepTheirPlace
<1>1. IInv /\ [Next]_vars => IInv'
  BY KeepsPlace
<1>2. IInv /\ [Next]_vars =>
        [/\ Len(base) <= Len(base')
         /\ \A i \in DOMAIN base : base'[i].key = base[i].key]_vars
  <2> SUFFICES ASSUME IInv, [Next]_vars
               PROVE /\ Len(base) <= Len(base')
                     /\ \A i \in DOMAIN base : base'[i].key = base[i].key
    OBVIOUS
  <2>1. Len(base) \in Nat
    BY DEF IInv
  <2> QED
    BY <2>1, KeepsPlace
<1> QED
  BY InitInv, <1>1, <1>2, PTL DEF Spec, FieldsKeepTheirPlace

-----------------------------------------------------------------------------
(* Numbers                                                                       *)

\* The library's order on finite sets is well founded: so is the one on the numbers.
LEMMA Least ==
  ASSUME NEW T, T \subseteq Nat, T # {}
  PROVE  \E m \in T : \A k \in T : m <= k
<1> DEFINE Below(n) == 0..(n - 1)
           D == {Below(n) : n \in T}
<1>1. IsWellFoundedOn(StrictSubsetOrdering(Nat), FiniteSubsetsOf(Nat))
  BY FS_StrictSubsetOrderingWellFounded
<1>2. D \subseteq FiniteSubsetsOf(Nat) /\ D # {}
  <2>1. ASSUME NEW n \in T PROVE Below(n) \in FiniteSubsetsOf(Nat)
    BY FS_Interval DEF FiniteSubsetsOf
  <2> QED BY <2>1
<1>3. \E x \in D : \A y \in D : ~(<<y, x>> \in StrictSubsetOrdering(Nat))
  <2> HIDE DEF D
  <2> QED BY <1>1, <1>2, WFMin
<1>4. PICK m \in T : \A k \in T : ~(<<Below(k), Below(m)>> \in StrictSubsetOrdering(Nat))
  BY <1>3
<1>5. ASSUME NEW k \in T, k < m PROVE FALSE
  <2>1. Below(k) \subseteq Below(m) /\ k \in Below(m) /\ k \notin Below(k) /\ Below(m) \subseteq Nat
    BY <1>5
  <2> HIDE DEF Below
  <2> QED BY <1>4, <2>1 DEF StrictSubsetOrdering
<1>6. m \in Int /\ \A k \in T : k \in Int
  OBVIOUS
<1> QED BY <1>5, <1>6

\* A set of numbers that has zero, and with every number the next one, has all of them.
LEMMA SetInduction ==
  ASSUME NEW S, 0 \in S, \A n \in Nat : n \in S => n + 1 \in S
  PROVE  Nat \subseteq S
<1> SUFFICES ASSUME Nat \ S # {} PROVE FALSE
  OBVIOUS
<1>1. PICK m \in Nat \ S : \A k \in Nat \ S : m <= k
  BY Least
<1>2. m - 1 \in Nat /\ m - 1 \notin Nat \ S
  BY <1>1
<1> QED BY <1>1, <1>2

-----------------------------------------------------------------------------
(* What a fold computes.  A lemma cannot be about every operator: the two that      *)
(* are folded with, an assignment to a table and addField(), go by a name.          *)

Apply(op, x, field) ==
  IF op = "assign" THEN [x EXCEPT ![field.key] = field.value] ELSE AddField(x, field)

Largest(s) == CHOOSE x \in s : \A y \in s : x >= y

\* The function that FoldLeft defines on the subsets of the first n indices.
Folded(op, start, fields, n, it) ==
  it = [s \in SUBSET (1..n) |->
          IF s = {} THEN start
          ELSE Apply(op, it[s \ {Largest(s)}], fields[Largest(s)])]

\* Finite sets of numbers have a largest one.
LEMMA LargestIs ==
  ASSUME NEW n \in Nat, NEW s \in SUBSET (1..n)
  PROVE  /\ \A x \in s : (\A y \in s : x >= y) => Largest(s) = x
         /\ s # {} => Largest(s) \in s /\ \A y \in s : Largest(s) >= y
<1>1. ASSUME NEW x \in s, \A y \in s : x >= y
      PROVE  Largest(s) = x
  <2>1. Largest(s) \in s /\ \A y \in s : Largest(s) >= y
    BY <1>1 DEF Largest
  <2>2. \A y \in s : y \in Int
    OBVIOUS
  <2> DEFINE m == Largest(s)
  <2>3. m >= x /\ x >= m /\ m \in Int /\ x \in Int
    BY <1>1, <2>1, <2>2
  <2> HIDE DEF m
  <2>4. m = x
    BY <2>3
  <2> QED BY <2>4 DEF m
<1>2. ASSUME s # {}
      PROVE  Largest(s) \in s /\ \A y \in s : Largest(s) >= y
  <2> DEFINE T == {k \in Nat : \A y \in s : y <= k}
  <2>1. T \subseteq Nat /\ n \in T
    OBVIOUS
  <2>2. PICK m \in T : \A k \in T : m <= k
    BY <2>1, Least
  <2>3. m \in s
    <3> SUFFICES ASSUME m \notin s PROVE FALSE
      OBVIOUS
    <3>1. PICK y \in s : TRUE
      BY <1>2
    <3>2. m \in Nat /\ m >= 1 /\ \A z \in s : z \in Nat /\ z <= m /\ z # m
      BY <2>2, <3>1
    <3>3. m - 1 \in Nat /\ \A z \in s : z <= m - 1
      BY <3>2
    <3>4. m - 1 \in T
      BY <3>3
    <3> HIDE DEF T
    <3>5. m <= m - 1
      BY <2>2, <3>4
    <3> QED BY <3>2, <3>5
  <2>4. \A y \in s : m >= y
    BY <2>2
  <2> QED BY <2>3, <2>4 DEF Largest
<1> QED BY <1>1, <1>2

\* There is such a function: one more index, and it is defined on twice the subsets.
LEMMA FoldDefined ==
  ASSUME NEW op, NEW start, NEW fields, NEW n \in Nat
  PROVE  \E it : Folded(op, start, fields, n, it)
<1> DEFINE S == {m \in Nat : \E it : Folded(op, start, fields, m, it)}
<1>1. 0 \in S
  <2> DEFINE it == [s \in SUBSET (1..0) |-> start]
  <2>1. Folded(op, start, fields, 0, it)
    BY DEF Folded
  <2> HIDE DEF it
  <2> QED BY <2>1
<1>2. ASSUME NEW m \in Nat, m \in S
      PROVE  m + 1 \in S
  <2>1. PICK it : Folded(op, start, fields, m, it)
    BY <1>2
  <2> DEFINE last == m + 1
             h == [s \in SUBSET (1..last) |->
                     IF last \in s THEN Apply(op, it[s \ {last}], fields[last]) ELSE it[s]]
  <2>2. \A s \in SUBSET (1..m) : s \in SUBSET (1..last) /\ last \notin s /\ h[s] = it[s]
    OBVIOUS
  <2>3. ASSUME NEW s \in SUBSET (1..last)
        PROVE  h[s] = IF s = {} THEN start
                      ELSE Apply(op, h[s \ {Largest(s)}], fields[Largest(s)])
    <3>1. CASE last \in s
      <4>1. Largest(s) = last
        <5>1. last \in Nat /\ \A y \in s : last >= y
          OBVIOUS
        <5> HIDE DEF last
        <5> QED BY <3>1, <5>1, LargestIs
      <4>2. s \ {last} \in SUBSET (1..m)
        OBVIOUS
      <4>3. h[s] = Apply(op, it[s \ {last}], fields[last]) /\ h[s \ {last}] = it[s \ {last}]
        BY <2>2, <3>1, <4>2
      <4> HIDE DEF h, last
      <4> QED BY <3>1, <4>1, <4>3
    <3>2. CASE last \notin s
      <4>1. s \in SUBSET (1..m)
        BY <3>2
      <4>2. it[s] = IF s = {} THEN start
                    ELSE Apply(op, it[s \ {Largest(s)}], fields[Largest(s)])
        BY <2>1, <4>1 DEF Folded
      <4>3. s \ {Largest(s)} \in SUBSET (1..m)
        BY <4>1
      <4>4. h[s] = it[s] /\ h[s \ {Largest(s)}] = it[s \ {Largest(s)}]
        BY <2>2, <4>1, <4>3
      <4> HIDE DEF h, last
      <4> QED BY <4>2, <4>4
    <3> QED BY <3>1, <3>2
  <2>4. h = [s \in SUBSET (1..last) |-> h[s]]
    OBVIOUS
  <2> HIDE DEF h
  <2>5. Folded(op, start, fields, m + 1, h)
    BY <2>3, <2>4 DEF Folded
  <2> QED BY <2>5
<1> HIDE DEF S
<1>3. n \in S
  BY <1>1, <1>2, SetInduction
<1> QED BY <1>3 DEF S

\* Its values for the first k elements, one after the other.
LEMMA FoldSteps ==
  ASSUME NEW op, NEW start, NEW fields, NEW n \in Nat, NEW it,
         Folded(op, start, fields, n, it)
  PROVE  /\ it[1..0] = start
         /\ \A k \in 1..n : it[1..k] = Apply(op, it[1..(k - 1)], fields[k])
<1>1. it[1..0] = start
  <2>1. 1..0 = {} /\ {} \in SUBSET (1..n)
    OBVIOUS
  <2> QED BY <2>1 DEF Folded
<1>2. ASSUME NEW k \in 1..n
      PROVE  it[1..k] = Apply(op, it[1..(k - 1)], fields[k])
  <2>1. /\ 1..k \in SUBSET (1..n) /\ 1..k # {} /\ k \in 1..k /\ \A y \in 1..k : k >= y
        /\ (1..k) \ {k} = 1..(k - 1)
    OBVIOUS
  <2>2. Largest(1..k) = k
    BY <2>1, LargestIs
  <2> QED BY <2>1, <2>2 DEF Folded
<1> QED BY <1>1, <1>2

-----------------------------------------------------------------------------
(* JSON objects                                                                  *)

\* Nothing among the first k fields has that name, or field i is the last that has.
NotIn(fields, k, name)     == \A i \in 1..k : fields[i].key # name
LastIn(fields, k, name, i) ==
  i \in 1..k /\ fields[i].key = name /\ \A j \in 1..k : fields[j].key = name => j <= i

\* The table t is `start` with the first k fields assigned in their order.
Assigned(t, start, fields, k) ==
  /\ DOMAIN t = Key
  /\ \A name \in Key :
       /\ NotIn(fields, k, name) => t[name] = start[name]
       /\ \A i : LastIn(fields, k, name, i) => t[name] = fields[i].value

\* One more assignment.
LEMMA OneMoreAssigned ==
  ASSUME NEW t, NEW start, NEW fields, NEW k \in Nat, Assigned(t, start, fields, k),
         fields[k + 1].key \in Key
  PROVE  Assigned([t EXCEPT ![fields[k + 1].key] = fields[k + 1].value], start, fields, k + 1)
<1> DEFINE f == fields[k + 1]
           u == [t EXCEPT ![f.key] = f.value]
<1>1. DOMAIN u = Key /\ \A name \in Key : u[name] = IF name = f.key THEN f.value ELSE t[name]
  BY DEF Assigned
<1>2. ASSUME NEW name \in Key, NotIn(fields, k + 1, name)
      PROVE  u[name] = start[name]
  <2>1. k + 1 \in 1..(k + 1) /\ 1..k \subseteq 1..(k + 1)
    OBVIOUS
  <2>2. NotIn(fields, k, name) /\ name # f.key
    BY <1>2, <2>1 DEF NotIn
  <2> HIDE DEF u
  <2> QED BY <1>1, <2>2 DEF Assigned
<1>3. ASSUME NEW name \in Key, NEW i, LastIn(fields, k + 1, name, i)
      PROVE  u[name] = fields[i].value
  <2>1. /\ k + 1 \in 1..(k + 1) /\ 1..k \subseteq 1..(k + 1)
        /\ \A j \in 1..(k + 1) : j \in 1..k \/ j = k + 1
    OBVIOUS
  <2>2. /\ i \in 1..(k + 1) /\ fields[i].key = name
        /\ \A j \in 1..(k + 1) : fields[j].key = name => j <= i
    BY <1>3 DEF LastIn
  <2>3. CASE name = f.key
    <3>1. k + 1 <= i
      BY <2>1, <2>2, <2>3
    <3>2. i = k + 1
      BY <2>2, <3>1
    <3> HIDE DEF u
    <3> QED BY <1>1, <2>3, <3>2
  <2>4. CASE name # f.key
    <3>1. i \in 1..k
      BY <2>1, <2>2, <2>4
    <3>2. LastIn(fields, k, name, i)
      BY <2>1, <2>2, <3>1 DEF LastIn
    <3>3. t[name] = fields[i].value
      BY <3>2 DEF Assigned
    <3> HIDE DEF u
    <3> QED BY <1>1, <2>4, <3>3
  <2> QED BY <2>3, <2>4
<1> HIDE DEF u
<1>4. Assigned(u, start, fields, k + 1)
  BY <1>1, <1>2, <1>3 DEF Assigned
<1> QED BY <1>4 DEF u

\* The object of such a list has what the table has, and the message's own else.
LEMMA JsonIs ==
  ASSUME NEW list \in Seq(Field), NEW t, Lists(list, t), NEW name \in Key
  PROVE  Json(list)[name] = IF t[name] # Absent THEN t[name]
                            ELSE IF name \in Reserved THEN Own ELSE Absent
<1> DEFINE own == [k \in Key |-> IF k \in Reserved THEN Own ELSE Absent]
           n   == Len(list)
           Assigns(f) == f = [s \in SUBSET (1..n) |->
                           IF s = {} THEN own
                           ELSE [f[s \ {Largest(s)}] EXCEPT ![list[Largest(s)].key]
                                                            = list[Largest(s)].value]]
           it  == CHOOSE f : Assigns(f)
<1>1. n \in Nat /\ DOMAIN list = 1..n /\ \A i \in 1..n : list[i].key \in Key
  <2>1. n \in Nat /\ DOMAIN list = 1..n /\ \A i \in 1..n : list[i] \in Field
    OBVIOUS
  <2> QED BY <2>1 DEF Field
<1>2. Json(list) = it[1..n]
  BY <1>1 DEF Json, FoldLeft, MapThenFoldSet, Max, Largest
<1>3. Folded("assign", own, list, n, it)
  <2>1. \E f : Folded("assign", own, list, n, f)
    BY <1>1, FoldDefined
  <2> HIDE DEF own, n
  <2>2. \A f : Folded("assign", own, list, n, f) <=> Assigns(f)
    BY DEF Folded, Apply
  <2> HIDE DEF Assigns
  <2> QED BY <2>1, <2>2
<1> DEFINE S == {k \in Nat : k <= n => Assigned(it[1..k], own, list, k)}
<1>4. 0 \in S
  <2>1. it[1..0] = own
    BY <1>1, <1>3, FoldSteps
  <2>2. DOMAIN own = Key
    OBVIOUS
  <2> HIDE DEF it, own
  <2>3. Assigned(it[1..0], own, list, 0)
    BY <2>1, <2>2 DEF Assigned, LastIn
  <2> QED BY <2>3
<1>5. ASSUME NEW k \in Nat, k \in S
      PROVE  k + 1 \in S
  <2> SUFFICES ASSUME k + 1 <= n PROVE Assigned(it[1..(k + 1)], own, list, k + 1)
    OBVIOUS
  <2>1. k + 1 \in 1..n /\ (k + 1) - 1 = k /\ k <= n
    BY <1>1
  <2> HIDE DEF it, own, n
  <2>2. it[1..(k + 1)] = Apply("assign", it[1..((k + 1) - 1)], list[k + 1])
    BY <1>1, <1>3, <2>1, FoldSteps
  <2>3. it[1..(k + 1)] = [it[1..k] EXCEPT ![list[k + 1].key] = list[k + 1].value]
    BY <2>1, <2>2 DEF Apply
  <2>4. Assigned(it[1..k], own, list, k) /\ list[k + 1].key \in Key
    BY <1>1, <1>5, <2>1
  <2> QED BY <2>3, <2>4, OneMoreAssigned
<1>6. Assigned(Json(list), own, list, n)
  <2>1. n \in S
    <3> HIDE DEF S
    <3> QED BY <1>1, <1>4, <1>5, SetInduction
  <2> HIDE DEF it, own
  <2> QED BY <1>1, <1>2, <2>1
<1> HIDE DEF it
<1>7. CASE t[name] # Absent
  <2>1. PICK i \in DOMAIN list : list[i].key = name
    BY <1>7 DEF Lists
  <2>2. LastIn(list, n, name, i)
    BY <1>1, <2>1 DEF Lists, LastIn
  <2> QED BY <1>6, <1>7, <2>1, <2>2 DEF Assigned, Lists
<1>8. CASE t[name] = Absent
  <2>1. NotIn(list, n, name)
    BY <1>1, <1>8 DEF Lists, NotIn
  <2> QED BY <1>6, <1>8, <2>1 DEF Assigned
<1> QED BY <1>7, <1>8

\* What log() extends BaseMsg with: the fields of the call assigned over the defaults.
LEMMA Extended ==
  ASSUME NEW list \in Seq(Field), NEW t \in [Key -> Value \cup {Absent}], Lists(list, t),
         NEW n \in Nat, NEW fields \in [1..n -> Field]
  PROVE  \E u : /\ FoldLeft(AddField, list, fields) \in Seq(Field)
                /\ Lists(FoldLeft(AddField, list, fields), u)
                /\ Assigned(u, t, fields, n)
<1> DEFINE Adds(f) == f = [s \in SUBSET (1..n) |->
                           IF s = {} THEN list
                           ELSE AddField(f[s \ {Largest(s)}], fields[Largest(s)])]
           it == CHOOSE f : Adds(f)
<1>1. DOMAIN fields = 1..n
  OBVIOUS
<1>2. FoldLeft(AddField, list, fields) = it[1..n]
  BY <1>1 DEF FoldLeft, MapThenFoldSet, Max, Largest
<1>3. Folded("add", list, fields, n, it)
  <2>1. \E f : Folded("add", list, fields, n, f)
    BY FoldDefined
  <2>2. \A f : Folded("add", list, fields, n, f) <=> Adds(f)
    BY DEF Folded, Apply
  <2> HIDE DEF Adds
  <2> QED BY <2>1, <2>2
<1> HIDE DEF it
<1>4. /\ it[1..0] = list
      /\ \A k \in 1..n : it[1..k] = Apply("add", it[1..(k - 1)], fields[k])
  BY <1>3, FoldSteps
<1> DEFINE Good(k, u) == /\ it[1..k] \in Seq(Field) /\ u \in [Key -> Value \cup {Absent}]
                         /\ Lists(it[1..k], u) /\ Assigned(u, t, fields, k)
           S == {k \in Nat : k <= n => \E u : Good(k, u)}
<1>5. 0 \in S
  <2>1. it[1..0] = list
    BY <1>4
  <2>2. Assigned(t, t, fields, 0)
    BY DEF Assigned, LastIn
  <2>3. Good(0, t)
    BY <2>1, <2>2
  <2> HIDE DEF Good
  <2> QED BY <2>3
<1>6. ASSUME NEW k \in Nat, k \in S
      PROVE  k + 1 \in S
  <2> SUFFICES ASSUME k + 1 <= n PROVE \E u : Good(k + 1, u)
    OBVIOUS
  <2>1. k + 1 \in 1..n /\ (k + 1) - 1 = k /\ k <= n
    OBVIOUS
  <2>2. PICK u : Good(k, u)
    BY <1>6, <2>1
  <2>3. it[1..(k + 1)] = AddField(it[1..k], fields[k + 1])
    <3>1. it[1..(k + 1)] = Apply("add", it[1..((k + 1) - 1)], fields[k + 1])
      BY <1>4, <2>1
    <3> QED BY <2>1, <3>1 DEF Apply
  <2>4. fields[k + 1] \in Field
    BY <2>1
  <2>5. fields[k + 1].key \in Key
    BY <2>4 DEF Field
  <2> DEFINE w == [u EXCEPT ![fields[k + 1].key] = fields[k + 1].value]
  <2>6. Assigned(w, t, fields, k + 1)
    BY <2>2, <2>5, OneMoreAssigned
  <2>7. /\ it[1..(k + 1)] \in Seq(Field) /\ w \in [Key -> Value \cup {Absent}]
        /\ Lists(it[1..(k + 1)], w)
    <3> DEFINE list1 == it[1..k]
               new   == fields[k + 1]
               added == it[1..(k + 1)]
    <3>1. /\ list1 \in Seq(Field) /\ u \in [Key -> Value \cup {Absent}] /\ Lists(list1, u)
          /\ new \in Field /\ added = AddField(list1, new)
          /\ w = [u EXCEPT ![new.key] = new.value]
      BY <2>2, <2>3, <2>4
    <3> HIDE DEF w, list1, new, added
    <3>2. added \in Seq(Field) /\ w \in [Key -> Value \cup {Absent}] /\ Lists(added, w)
      BY <3>1, AddedListed
    <3> QED BY <3>2 DEF added
  <2> HIDE DEF w
  <2> QED BY <2>6, <2>7
<1>7. \E u : Good(n, u)
  <2>1. n \in S
    <3> HIDE DEF S
    <3> QED BY <1>5, <1>6, SetInduction
  <2> HIDE DEF Good
  <2> QED BY <2>1
<1> QED BY <1>2, <1>7

\* The object that log() makes.
LEMMA Precedence ==
  ASSUME IInv, NEW fields \in SeqOf(Field, MaxExtra), Log(fields), NEW name \in Key
  PROVE  json'[name] = IF GivenBy(name)' # {}
                       THEN extra'[CHOOSE i \in GivenBy(name)' :
                                     \A j \in GivenBy(name)' : j <= i].value
                       ELSE IF latest[name] # Absent THEN latest[name]
                       ELSE IF name \in Reserved THEN Own ELSE Absent
<1>1. PICK n \in Nat : fields \in [1..n -> Field]
  BY DEF SeqOf
<1> DEFINE list  == FoldLeft(AddField, base, fields)
           given == {i \in 1..n : fields[i].key = name}
<1>2. json' = Json(list) /\ extra' = fields /\ GivenBy(name)' = given
  BY <1>1 DEF Log, GivenBy
<1>3. PICK u : list \in Seq(Field) /\ Lists(list, u) /\ Assigned(u, latest, fields, n)
  BY <1>1, Extended DEF IInv
<1> HIDE DEF list
<1>4. json'[name] = IF u[name] # Absent THEN u[name]
                    ELSE IF name \in Reserved THEN Own ELSE Absent
  BY <1>2, <1>3, JsonIs
<1>5. CASE given = {}
  <2>1. NotIn(fields, n, name)
    BY <1>5 DEF NotIn
  <2>2. u[name] = latest[name]
    BY <1>3, <2>1 DEF Assigned
  <2> HIDE DEF given
  <2> QED BY <1>2, <1>4, <1>5, <2>2
<1>6. CASE given # {}
  <2>1. PICK i \in given : \A j \in given : j <= i
    <3>1. Largest(given) \in given
      BY <1>6, LargestIs
    <3>2. \A j \in given : Largest(given) >= j
      BY <1>6, LargestIs
    <3> QED BY <3>1, <3>2
  <2>2. (CHOOSE k \in given : \A j \in given : j <= k) = i
    <3> DEFINE k == CHOOSE k \in given : \A j \in given : j <= k
    <3>1. k \in given /\ \A j \in given : j <= k
      BY <2>1
    <3>2. given \subseteq Int
      OBVIOUS
    <3> HIDE DEF k, given
    <3>3. k <= i /\ i <= k /\ k \in Int /\ i \in Int
      BY <2>1, <3>1, <3>2
    <3>4. k = i
      BY <3>3
    <3> QED BY <3>4 DEF k
  <2>3. LastIn(fields, n, name, i)
    BY <2>1 DEF LastIn
  <2>4. u[name] = fields[i].value
    BY <1>3, <2>3 DEF Assigned
  <2>5. fields[i].value # Absent
    <3>1. fields[i] \in Field
      BY <1>1, <2>1
    <3> QED BY <3>1, FieldAssumption DEF Field
  <2> HIDE DEF given
  <2> QED BY <1>2, <1>4, <1>6, <2>2, <2>4, <2>5
<1> QED BY <1>5, <1>6

\* Whatever the fields, and however often they are set and given, what a JSON object says
\* of a field is the last value the log() call gave, else the latest default, else the
\* message's own: the second pass over the fields overwrites, and addField() overwrites
\* the copy of BaseMsg (LoggingBase.hpp:43-57, GraylogInterface.cpp:50-77).
THEOREM CallOverDefaultOverOwn == Spec => JsonPrecedence
<1>1. IInv /\ [Next]_vars => IInv'
  BY KeepsPlace
<1>2. ASSUME IInv, [Next]_vars, extra' # extra \/ json' # json
      PROVE  \A k \in Key :
               json'[k] = IF GivenBy(k)' # {}
                          THEN extra'[CHOOSE i \in GivenBy(k)' : \A j \in GivenBy(k)' : j <= i].value
                          ELSE IF latest[k] # Absent THEN latest[k]
                          ELSE IF k \in Reserved THEN Own ELSE Absent
  <2>1. PICK fields \in SeqOf(Field, MaxExtra) : Log(fields)
    BY <1>2 DEF Next, AddDefault, vars
  <2> QED BY <1>2, <2>1, Precedence
<1>3. IInv /\ [Next]_vars =>
        [extra' # extra \/ json' # json =>
           \A k \in Key :
             json'[k] = IF GivenBy(k)' # {}
                        THEN extra'[CHOOSE i \in GivenBy(k)' : \A j \in GivenBy(k)' : j <= i].value
                        ELSE IF latest[k] # Absent THEN latest[k]
                        ELSE IF k \in Reserved THEN Own ELSE Absent]_vars
  BY <1>2
<1> QED
  BY InitInv, <1>1, <1>3, PTL DEF Spec, JsonPrecedence
=============================================================================
