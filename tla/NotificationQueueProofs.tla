----------------------- MODULE NotificationQueueProofs -----------------------
(***************************************************************************)
(* Theorems about NotificationQueue, for every number of notes, every set  *)
(* of channels, every back-off, window and size of the queue.              *)
(***************************************************************************)
EXTENDS NotificationQueue, SeqLemmas

-----------------------------------------------------------------------------
\* What Selected has of the first k entries: those at the positions chosen, at rising places.
Steps(q, chosen, f, m) ==
    f = [i \in 0 .. m |-> IF i = 0 THEN <<>>
                          ELSE IF i \in chosen THEN Append(f[i - 1], q[i]) ELSE f[i - 1]]

LEMMA StepsExist ==
    ASSUME NEW q, NEW chosen, NEW m \in Nat
    PROVE  \E f : Steps(q, chosen, f, m)
<1> DEFINE S == {k \in Nat : \E f : Steps(q, chosen, f, k)}
<1>1. 0 \in S
  <2>1. Steps(q, chosen, [i \in 0 .. 0 |-> <<>>], 0)
    BY DEF Steps
  <2> QED BY <2>1
<1>2. ASSUME NEW k \in Nat, k \in S PROVE k + 1 \in S
  <2>1. PICK f : Steps(q, chosen, f, k)
    BY <1>2
  <2> DEFINE last == IF k + 1 \in chosen THEN Append(f[k], q[k + 1]) ELSE f[k]
             g == [i \in 0 .. k + 1 |-> IF i = k + 1 THEN last ELSE f[i]]
  <2>2. \A i \in 0 .. k : f[i] = IF i = 0 THEN <<>> ELSE IF i \in chosen THEN Append(f[i - 1], q[i]) ELSE f[i - 1]
    BY <2>1 DEF Steps
  <2>3. \A i \in 0 .. k + 1 : g[i] = IF i = 0 THEN <<>> ELSE IF i \in chosen THEN Append(g[i - 1], q[i]) ELSE g[i - 1]
    <3> SUFFICES ASSUME NEW i \in 0 .. k + 1
                 PROVE  g[i] = IF i = 0 THEN <<>> ELSE IF i \in chosen THEN Append(g[i - 1], q[i]) ELSE g[i - 1]
      OBVIOUS
    <3>1. CASE i = k + 1
      <4>1. i # 0 /\ i - 1 = k /\ g[i] = last /\ g[i - 1] = f[k]
        BY <3>1
      <4> QED BY <3>1, <4>1
    <3>2. CASE i # k + 1
      <4>1. i \in 0 .. k /\ g[i] = f[i] /\ (i # 0 => i - 1 \in 0 .. k /\ g[i - 1] = f[i - 1])
        BY <3>2
      <4> HIDE DEF g
      <4> QED BY <2>2, <4>1
    <3> QED BY <3>1, <3>2
  <2>4. g = [i \in 0 .. k + 1 |-> IF i = 0 THEN <<>> ELSE IF i \in chosen THEN Append(g[i - 1], q[i]) ELSE g[i - 1]]
    <3>1. DOMAIN g = 0 .. k + 1 /\ g = [i \in 0 .. k + 1 |-> g[i]]
      OBVIOUS
    <3> HIDE DEF g
    <3> QED BY <2>3, <3>1
  <2>5. Steps(q, chosen, g, k + 1)
    <3> HIDE DEF g
    <3> QED BY <2>4 DEF Steps
  <2> QED BY <2>5
<1> HIDE DEF S
<1>3. m \in S
  BY <1>1, <1>2, NatSetInduction
<1> QED BY <1>3 DEF S

LEMMA SelectedIsLast ==
    ASSUME NEW q, NEW chosen, Len(q) \in Nat
    PROVE  \E f : Steps(q, chosen, f, Len(q)) /\ Selected(q, chosen) = f[Len(q)]
<1> DEFINE f == CHOOSE f : Steps(q, chosen, f, Len(q))
<1>1. Steps(q, chosen, f, Len(q))
  BY StepsExist
<1>2. Selected(q, chosen) = f[Len(q)]
  BY DEF Selected, Steps
<1> QED BY <1>1, <1>2

LEMMA SelectedEffect ==
    ASSUME NEW q \in Seq(Entry), NEW chosen
    PROVE  \E places : /\ places \in [1 .. Len(Selected(q, chosen)) -> 1 .. Len(q)]
                       /\ Selected(q, chosen) \in Seq(Entry) /\ Len(Selected(q, chosen)) <= Len(q)
                       /\ \A i \in 1 .. Len(Selected(q, chosen)) :
                             places[i] \in chosen /\ Selected(q, chosen)[i] = q[places[i]]
                       /\ \A i, j \in 1 .. Len(Selected(q, chosen)) : i < j => places[i] < places[j]
                       /\ \A j \in 1 .. Len(q) : j \in chosen => \E i \in 1 .. Len(Selected(q, chosen)) : places[i] = j
<1>1. PICK f : Steps(q, chosen, f, Len(q)) /\ Selected(q, chosen) = f[Len(q)]
  BY SelectedIsLast
<1> DEFINE Is(r, places, k) ==
              /\ r \in Seq(Entry) /\ Len(r) <= k /\ places \in [1 .. Len(r) -> 1 .. k]
              /\ \A i \in 1 .. Len(r) : places[i] \in chosen /\ r[i] = q[places[i]]
              /\ \A i, j \in 1 .. Len(r) : i < j => places[i] < places[j]
              /\ \A j \in 1 .. k : j \in chosen => \E i \in 1 .. Len(r) : places[i] = j
           S == {k \in Nat : k <= Len(q) => \E places : Is(f[k], places, k)}
<1>2. 0 \in S
  <2>1. f[0] = <<>>
    BY <1>1 DEF Steps
  <2>2. Is(<<>>, [i \in 1 .. 0 |-> 0], 0)
    OBVIOUS
  <2>3. \E places : Is(f[0], places, 0)
    <3> HIDE DEF Is
    <3> QED BY <2>1, <2>2
  <2> QED BY <2>3
<1>3. ASSUME NEW k \in Nat, k \in S PROVE k + 1 \in S
  <2> SUFFICES ASSUME k + 1 <= Len(q) PROVE \E places : Is(f[k + 1], places, k + 1)
    <3> HIDE DEF Is
    <3> QED BY <1>3
  <2>0. PICK r, places : r = f[k] /\ Is(r, places, k)
    <3> HIDE DEF Is
    <3> QED BY <1>3
  <2>1. Is(r, places, k)
    BY <2>0
  <2>2. f[k + 1] = IF k + 1 \in chosen THEN Append(r, q[k + 1]) ELSE r
    <3>1. k + 1 \in 0 .. Len(q) /\ k + 1 # 0 /\ (k + 1) - 1 = k
      OBVIOUS
    <3>2. f[k + 1] = IF k + 1 \in chosen THEN Append(f[(k + 1) - 1], q[k + 1]) ELSE f[(k + 1) - 1]
      BY <1>1, <3>1 DEF Steps
    <3> HIDE DEF Is
    <3> QED BY <2>0, <3>1, <3>2
  <2>3. CASE k + 1 \notin chosen
    <3>1. places \in [1 .. Len(r) -> 1 .. k + 1] /\ Len(r) <= k + 1 /\ r \in Seq(Entry)
      BY <2>1
    <3>2. \A j \in 1 .. k + 1 : j \in chosen => \E i \in 1 .. Len(r) : places[i] = j
      BY <2>1, <2>3
    <3>3. Is(r, places, k + 1)
      BY <2>1, <3>1, <3>2
    <3> QED BY <2>2, <2>3, <3>3
  <2>4. CASE k + 1 \in chosen
    <3> DEFINE e == q[k + 1]
               s == Append(r, e)
               at == [i \in 1 .. Len(r) + 1 |-> IF i = Len(r) + 1 THEN k + 1 ELSE places[i]]
    <3>1. e \in Entry
      OBVIOUS
    <3>2. r \in Seq(Entry) /\ Len(r) \in Nat /\ Len(r) <= k /\ places \in [1 .. Len(r) -> 1 .. k]
      BY <2>1
    <3> HIDE DEF e
    <3>3. s \in Seq(Entry) /\ Len(s) = Len(r) + 1 /\ s[Len(r) + 1] = e /\ \A i \in 1 .. Len(r) : s[i] = r[i]
      BY <3>1, <3>2
    <3>4. at \in [1 .. Len(r) + 1 -> 1 .. k + 1] /\ at[Len(r) + 1] = k + 1 /\ \A i \in 1 .. Len(r) : at[i] = places[i]
      BY <3>2
    <3> HIDE DEF s, at
    <3>5. \A i \in 1 .. Len(s) : at[i] \in chosen /\ s[i] = q[at[i]]
      BY <2>1, <2>4, <3>2, <3>3, <3>4 DEF e
    <3>6. \A i, j \in 1 .. Len(s) : i < j => at[i] < at[j]
      <4> SUFFICES ASSUME NEW i \in 1 .. Len(s), NEW j \in 1 .. Len(s), i < j PROVE at[i] < at[j]
        OBVIOUS
      <4>0. i \in 1 .. Len(r)
        <5> HIDE DEF Is
        <5> QED BY <3>2, <3>3
      <4>1. i \in 1 .. Len(r) /\ places[i] \in 1 .. k /\ at[i] = places[i]
        <5> HIDE DEF Is
        <5> QED BY <4>0, <3>2, <3>4
      <4>2. CASE j = Len(r) + 1
        BY <4>1, <4>2, <3>4
      <4>3. CASE j # Len(r) + 1
        <5>1. j \in 1 .. Len(r) /\ at[j] = places[j]
          <6> HIDE DEF Is
          <6> QED BY <4>3, <3>2, <3>3, <3>4, SMTT(20)
        <5>2. places[i] < places[j]
          BY <2>1, <4>0, <5>1
        <5> QED BY <4>1, <5>1, <5>2
      <4> QED BY <4>2, <4>3
    <3>7. \A j \in 1 .. k + 1 : j \in chosen => \E i \in 1 .. Len(s) : at[i] = j
      <4> SUFFICES ASSUME NEW j \in 1 .. k + 1, j \in chosen PROVE \E i \in 1 .. Len(s) : at[i] = j
        OBVIOUS
      <4>1. CASE j = k + 1
        BY <3>2, <3>3, <3>4, <4>1
      <4>2. CASE j # k + 1
        <5>1. PICK i \in 1 .. Len(r) : places[i] = j
          BY <2>1, <4>2
        <5> QED BY <5>1, <3>2, <3>3, <3>4
      <4> QED BY <4>1, <4>2
    <3>8. Is(s, at, k + 1)
      BY <3>2, <3>3, <3>4, <3>5, <3>6, <3>7
    <3>9. f[k + 1] = s
      BY <2>2, <2>4 DEF s, e
    <3> HIDE DEF Is
    <3> QED BY <3>8, <3>9
  <2> QED BY <2>3, <2>4
<1> HIDE DEF Is
<1>4. Len(q) \in S
  <2> HIDE DEF S
  <2> QED BY <1>2, <1>3, NatSetInduction
<1>5. PICK places : Is(Selected(q, chosen), places, Len(q))
  BY <1>1, <1>4
<1> QED BY <1>5 DEF Is
-----------------------------------------------------------------------------
(* Numbers. *)
LEMMA MinOfTwo ==
    ASSUME NEW a \in Int, NEW b \in Int
    PROVE  Min({a, b}) = IF a <= b THEN a ELSE b
<1> DEFINE m == IF a <= b THEN a ELSE b
<1>1. m \in {a, b} /\ \A y \in {a, b} : m <= y
  OBVIOUS
<1>2. \A x \in {a, b} : (\A y \in {a, b} : x <= y) => x = m
  OBVIOUS
<1> HIDE DEF m
<1>3. Min({a, b}) = m
  BY <1>1, <1>2 DEF Min
<1> QED BY <1>3 DEF m

LEMMA WaitsAreBounded ==
    /\ LongestWait \in Nat /\ Len(Backoff) \in Nat \ {0}
    /\ \A i \in 1 .. Len(Backoff) : Backoff[i] \in Nat \ {0} /\ Backoff[i] <= LongestWait
<1>1. Backoff \in Seq(Nat \ {0}) /\ Len(Backoff) \in Nat \ {0}
      /\ \A i \in 1 .. Len(Backoff) : Backoff[i] \in Nat \ {0}
  BY QueueAssumption
<1> DEFINE S == {k \in Nat : k \in 1 .. Len(Backoff) => \E j \in 1 .. k : \A i \in 1 .. k : Backoff[i] <= Backoff[j]}
<1>2. 0 \in S
  OBVIOUS
<1>3. ASSUME NEW k \in Nat, k \in S PROVE k + 1 \in S
  <2> SUFFICES ASSUME k + 1 \in 1 .. Len(Backoff)
               PROVE  \E j \in 1 .. k + 1 : \A i \in 1 .. k + 1 : Backoff[i] <= Backoff[j]
    OBVIOUS
  <2>0. \A i \in 1 .. k + 1 : Backoff[i] \in Nat
    BY <1>1
  <2>1. CASE k = 0
    BY <2>0, <2>1
  <2>2. CASE k # 0
    <3>1. PICK j \in 1 .. k : \A i \in 1 .. k : Backoff[i] <= Backoff[j]
      BY <1>3, <2>2
    <3>2. CASE Backoff[k + 1] <= Backoff[j]
      <4>1. j \in 1 .. k + 1 /\ \A i \in 1 .. k + 1 : Backoff[i] <= Backoff[j]
        BY <3>1, <3>2
      <4> QED BY <4>1
    <3>3. CASE ~(Backoff[k + 1] <= Backoff[j])
      <4>1. \A i \in 1 .. k + 1 : Backoff[i] <= Backoff[k + 1]
        BY <2>0, <3>1, <3>3
      <4> QED BY <4>1
    <3> QED BY <3>2, <3>3
  <2> QED BY <2>1, <2>2
<1>4. PICK j \in 1 .. Len(Backoff) : \A i \in 1 .. Len(Backoff) : Backoff[i] <= Backoff[j]
  <2>1. Len(Backoff) \in S
    <3> HIDE DEF S
    <3> QED BY <1>1, <1>2, <1>3, NatSetInduction
  <2> QED BY <1>1, <2>1
<1> DEFINE W == {Backoff[i] : i \in DOMAIN Backoff}
<1>5. Backoff[j] \in W /\ \A y \in W : Backoff[j] >= y
  BY <1>1, <1>4
<1>6. \A i \in 1 .. Len(Backoff) : Backoff[i] \in W
  BY <1>1
<1>7. W \subseteq Nat
  BY <1>1
<1> HIDE DEF W
<1>8. Max(W) \in W /\ \A y \in W : Max(W) >= y
  BY <1>5 DEF Max
<1>9. LongestWait = Max(W)
  BY DEF LongestWait, W
<1> QED BY <1>1, <1>6, <1>7, <1>8, <1>9

LEMMA TimesStayInRange ==
    /\ \A w \in 0 .. LongestWait, t \in Nat : Sooner(w, t) \in 0 .. LongestWait
    /\ \A age \in 0 .. Old : Min({age + 1, Old}) \in 0 .. Old
    /\ \A late \in 0 .. LongestWait : Min({late + 1, LongestWait}) \in 0 .. LongestWait
    /\ \A attempt \in 0 .. Len(Backoff) :
          /\ Min({attempt + 1, Len(Backoff)}) \in 1 .. Len(Backoff)
          /\ Step(attempt) \in 1 .. LongestWait
    /\ Backoff[1] \in 1 .. LongestWait /\ Old \in Nat
<1>1. \A w \in 0 .. LongestWait, t \in Nat : Sooner(w, t) \in 0 .. LongestWait
  BY WaitsAreBounded DEF Sooner
<1>2. Old \in Nat
  BY QueueAssumption DEF Old
<1>3. ASSUME NEW age \in 0 .. Old PROVE Min({age + 1, Old}) \in 0 .. Old
  <2>1. age + 1 \in Int /\ Old \in Int
    BY <1>2
  <2> QED BY <1>2, <2>1, MinOfTwo
<1>4. ASSUME NEW late \in 0 .. LongestWait PROVE Min({late + 1, LongestWait}) \in 0 .. LongestWait
  <2>1. late + 1 \in Int /\ LongestWait \in Int
    BY WaitsAreBounded
  <2> QED BY WaitsAreBounded, <2>1, MinOfTwo
<1>5. ASSUME NEW attempt \in 0 .. Len(Backoff)
      PROVE  /\ Min({attempt + 1, Len(Backoff)}) \in 1 .. Len(Backoff)
             /\ Step(attempt) \in 1 .. LongestWait
  <2>1. attempt + 1 \in Int /\ Len(Backoff) \in Int
    BY WaitsAreBounded
  <2>2. Min({attempt + 1, Len(Backoff)}) \in 1 .. Len(Backoff)
    BY WaitsAreBounded, <2>1, MinOfTwo, SMTT(20)
  <2>3. Step(attempt) \in 1 .. LongestWait
    BY WaitsAreBounded, <2>2 DEF Step
  <2> QED BY <2>2, <2>3
<1>6. Backoff[1] \in 1 .. LongestWait
  BY WaitsAreBounded
<1> QED BY <1>1, <1>2, <1>3, <1>4, <1>5, <1>6

-----------------------------------------------------------------------------
(* Lists of entries, in which no note occurs twice. *)
List(q) == q \in Seq(Entry) /\ \A i, j \in 1 .. Len(q) : q[i].note = q[j].note => i = j

LEMMA EmptyList == List(<<>>) /\ NotesOf(<<>>) = {} /\ Len(<<>>) = 0
  BY DEF List, NotesOf

LEMMA ListNotes == ASSUME NEW q, List(q) PROVE NotesOf(q) \subseteq Notes /\ Len(q) \in Nat
<1>1. q \in Seq(Entry) /\ DOMAIN q = 1 .. Len(q) /\ Len(q) \in Nat
  BY DEF List
<1>0. \A e \in Entry : e.note \in Notes
  BY DEF Entry
<1>2. \A i \in 1 .. Len(q) : q[i].note \in Notes
  BY <1>0, <1>1
<1> QED BY <1>1, <1>2 DEF NotesOf

LEMMA AppendList ==
    ASSUME NEW q, List(q), NEW e \in Entry, e.note \notin NotesOf(q)
    PROVE  List(Append(q, e)) /\ NotesOf(Append(q, e)) = NotesOf(q) \cup {e.note} /\ Len(Append(q, e)) = Len(q) + 1
<1> DEFINE s == Append(q, e)
<1>1. s \in Seq(Entry) /\ Len(s) = Len(q) + 1 /\ s[Len(q) + 1] = e /\ \A i \in 1 .. Len(q) : s[i] = q[i]
  BY DEF List
<1>2. Len(q) \in Nat /\ DOMAIN q = 1 .. Len(q) /\ DOMAIN s = 1 .. Len(q) + 1
  BY DEF List
<1> HIDE DEF s
<1>3. List(s)
  BY <1>1, <1>2 DEF List, NotesOf
<1>4. NotesOf(s) = NotesOf(q) \cup {e.note}
  BY <1>1, <1>2 DEF NotesOf
<1> QED BY <1>1, <1>3, <1>4 DEF s

LEMMA TailList ==
    ASSUME NEW q, List(q), q # <<>>
    PROVE  /\ Head(q) \in Entry /\ List(Tail(q)) /\ Len(Tail(q)) = Len(q) - 1 /\ Len(q) >= 1
           /\ NotesOf(q) = NotesOf(Tail(q)) \cup {Head(q).note} /\ Head(q).note \notin NotesOf(Tail(q))
<1> DEFINE t == Tail(q)
           e == Head(q)
<1>1. /\ t \in Seq(Entry) /\ Len(t) = Len(q) - 1 /\ Len(q) \in Nat \ {0}
      /\ \A i \in 1 .. Len(q) - 1 : t[i] = q[i + 1]
      /\ e = q[1] /\ e \in Entry
      /\ DOMAIN q = 1 .. Len(q) /\ DOMAIN t = 1 .. Len(q) - 1
  BY DEF List
<1> HIDE DEF t, e
<1>2. List(t)
  BY <1>1 DEF List
<1>3. e.note \notin NotesOf(t)
  BY <1>1 DEF List, NotesOf
<1>4. NotesOf(q) = NotesOf(t) \cup {e.note}
  <2>1. ASSUME NEW i \in 1 .. Len(q) PROVE q[i].note \in NotesOf(t) \cup {e.note}
    <3>1. CASE i = 1
      BY <1>1, <3>1
    <3>2. CASE i # 1
      <4>1. i - 1 \in 1 .. Len(q) - 1 /\ t[i - 1] = q[i]
        BY <1>1, <3>2
      <4> QED BY <1>1, <4>1 DEF NotesOf
    <3> QED BY <3>1, <3>2
  <2>2. ASSUME NEW i \in 1 .. Len(q) - 1 PROVE t[i].note \in NotesOf(q)
    BY <1>1 DEF NotesOf
  <2>3. e.note \in NotesOf(q)
    BY <1>1 DEF NotesOf
  <2> QED BY <1>1, <2>1, <2>2, <2>3, SMTT(20) DEF NotesOf
<1> QED BY <1>1, <1>2, <1>3, <1>4 DEF t, e

LEMMA MappedList ==
    ASSUME NEW q, List(q), NEW r, DOMAIN r = DOMAIN q, r = [i \in DOMAIN q |-> r[i]],
           \A i \in DOMAIN q : r[i] \in Entry /\ r[i].note = q[i].note
    PROVE  List(r) /\ NotesOf(r) = NotesOf(q) /\ Len(r) = Len(q)
<1>1. Len(q) \in Nat /\ DOMAIN q = 1 .. Len(q)
  BY DEF List
<1>2. r \in [1 .. Len(q) -> Entry]
  BY <1>1
<1>3. r \in Seq(Entry) /\ Len(r) = Len(q)
  BY <1>1, <1>2
<1> QED BY <1>1, <1>3 DEF List, NotesOf

LEMMA SelectedList ==
    ASSUME NEW q, List(q), NEW chosen, chosen \subseteq DOMAIN q
    PROVE  /\ List(Selected(q, chosen)) /\ Len(Selected(q, chosen)) <= Len(q)
           /\ NotesOf(Selected(q, chosen)) = {q[i].note : i \in chosen}
           /\ \A i \in DOMAIN Selected(q, chosen) : \E j \in chosen : Selected(q, chosen)[i] = q[j]
<1> DEFINE s == Selected(q, chosen)
<1>1. q \in Seq(Entry) /\ DOMAIN q = 1 .. Len(q) /\ Len(q) \in Nat
  BY DEF List
<1>2. PICK places : /\ places \in [1 .. Len(s) -> 1 .. Len(q)]
                    /\ s \in Seq(Entry) /\ Len(s) <= Len(q)
                    /\ \A i \in 1 .. Len(s) : places[i] \in chosen /\ s[i] = q[places[i]]
                    /\ \A i, j \in 1 .. Len(s) : i < j => places[i] < places[j]
                    /\ \A j \in 1 .. Len(q) : j \in chosen => \E i \in 1 .. Len(s) : places[i] = j
  BY <1>1, SelectedEffect
<1> HIDE DEF s
<1>3. DOMAIN s = 1 .. Len(s) /\ Len(s) \in Nat
  BY <1>2
<1>4. ASSUME NEW i \in 1 .. Len(s), NEW j \in 1 .. Len(s), s[i].note = s[j].note PROVE i = j
  <2>0. places[i] \in 1 .. Len(q) /\ places[j] \in 1 .. Len(q) /\ q[places[i]].note = q[places[j]].note
    BY <1>2, <1>4
  <2>1. places[i] = places[j]
    BY <2>0 DEF List
  <2>2. places[i] \in Int /\ i \in Int /\ j \in Int
    BY <1>2
  <2> QED BY <1>2, <2>1, <2>2
<1>5. NotesOf(s) = {q[i].note : i \in chosen}
  BY <1>1, <1>2, <1>3, SMTT(20) DEF NotesOf
<1>6. List(s)
  BY <1>2, <1>4 DEF List
<1> QED BY <1>2, <1>3, <1>5, <1>6 DEF s
-----------------------------------------------------------------------------
\* What a thread sends or has failed to send, and the worker's round.
Sending == [at : {"sending", "stamped"}, note : Notes, channel : Channels, wait : 0 .. LongestWait, age : 0 .. Old]
Round == [at : {"asleep", "sending", "commit"}, due : Seq(Entry), targets : SUBSET Channels,
          done : SUBSET Notes, late : 0 .. LongestWait]

Typed ==
    /\ up \in BOOLEAN /\ issued \in 0 .. NumNotes /\ enabled \subseteq Channels
    /\ delivered \in [Notes -> 0 .. Many] /\ gone \subseteq Notes /\ crashes \in 0 .. MaxCrashes
    /\ dispatcher = [d \in Dispatchers |-> dispatcher[d]]
    /\ \A d \in Dispatchers : dispatcher[d] = Idle \/ dispatcher[d] \in Sending
    /\ worker \in Round

\* No list has a note twice, and the notes are those that were taken up.
Lists ==
    /\ List(entries) /\ Len(entries) <= MaxQueue
    /\ disk = Torn \/ (List(disk) /\ Len(disk) <= MaxQueue)
    /\ List(worker.due)
    /\ worker.at = "sending" <=> worker.due # <<>>
    /\ worker.at = "asleep" => worker.done = {}
    /\ \A n \in NotesOf(entries) \cup NotesOf(worker.due) \cup NotesOf(disk) : n <= issued

\* A thread has a note of its own, which is in no list.
Apart ==
    \A d \in Dispatchers : dispatcher[d] # Idle =>
        /\ dispatcher[d].note <= issued
        /\ dispatcher[d].note \notin NotesOf(entries) \cup NotesOf(worker.due)
        /\ \A e \in Dispatchers : dispatcher[e].note = dispatcher[d].note => e = d

\* A notifier that is down holds what its file holds.
Down == ~up => entries = <<>> /\ worker = Asleep /\ crashes # 0 /\ \A d \in Dispatchers : dispatcher[d] = Idle

DoneIsDone == \A n \in worker.done : delivered[n] > 0 \/ n \in gone

\* Nothing that is still to be sent has arrived, but for what the round is through with.
Once ==
    /\ \A n \in Notes : n > issued => delivered[n] = 0
    /\ crashes = 0 => /\ \A n \in Notes : delivered[n] <= 1
                      /\ \A n \in NotesOf(worker.due) : delivered[n] = 0
                      /\ \A d \in Dispatchers : dispatcher[d] # Idle => delivered[dispatcher[d].note] = 0
                      /\ \A n \in NotesOf(entries) \ worker.done : delivered[n] = 0

QueueInv == Typed /\ Lists /\ Apart /\ Down /\ DoneIsDone /\ NoNoteSilentlyLost /\ Once

LEMMA QueueStarts == Init => QueueInv
<1> SUFFICES ASSUME Init PROVE QueueInv
  OBVIOUS
<1>1. NumNotes \in Nat /\ MaxCrashes \in Nat /\ MaxQueue \in Nat /\ LongestWait \in Nat
  BY QueueAssumption, WaitsAreBounded
<1>2. worker \in Round
  BY <1>1 DEF Init, Asleep, Round
<1>3. Typed
  <2>1. up \in BOOLEAN /\ enabled \subseteq Channels /\ gone \subseteq Notes
    BY DEF Init
  <2>2. issued \in 0 .. NumNotes /\ delivered \in [Notes -> 0 .. Many] /\ crashes \in 0 .. MaxCrashes
    BY <1>1 DEF Init, Many
  <2>3. dispatcher = [d \in Dispatchers |-> dispatcher[d]] /\ \A d \in Dispatchers : dispatcher[d] = Idle
    BY DEF Init
  <2> QED BY <1>2, <2>1, <2>2, <2>3 DEF Typed
<1>4. entries = <<>> /\ disk = <<>> /\ worker.due = <<>> /\ worker.at = "asleep" /\ worker.done = {}
  BY DEF Init, Asleep
<1>5. Lists
  BY <1>1, <1>4, EmptyList DEF Lists
<1>6. Apart /\ Down /\ DoneIsDone
  BY <1>4 DEF Init, Apart, Down, DoneIsDone
<1>7. NoNoteSilentlyLost
  BY DEF Init, NoNoteSilentlyLost
<1>8. Once
  BY <1>4, EmptyList DEF Init, Once
<1> QED BY <1>3, <1>5, <1>6, <1>7, <1>8 DEF QueueInv

LEMMA IdleHasNoNote == Idle.note = 0 /\ Idle.at = "idle" /\ 0 \notin Notes
  BY DEF Idle, Notes

LEMMA SendingFields ==
    ASSUME NEW s \in Sending
    PROVE  /\ s.note \in Notes /\ s.channel \in Channels /\ s.wait \in 0 .. LongestWait /\ s.age \in 0 .. Old
           /\ s.at \in {"sending", "stamped"} /\ s # Idle
  BY DEF Sending, Idle

LEMMA KnownNotes ==
    ASSUME Typed, Lists
    PROVE  /\ NotesOf(entries) \subseteq Notes /\ NotesOf(worker.due) \subseteq Notes
           /\ NotesOf(disk) \subseteq Notes \cup {0} /\ (disk = Torn => NotesOf(disk) = {0})
           /\ NotesOf(entries) \cup NotesOf(worker.due) \cup NotesOf(disk) \subseteq 0 .. issued
<1>1. NotesOf(entries) \subseteq Notes /\ NotesOf(worker.due) \subseteq Notes
  BY ListNotes DEF Lists
<1>2. NotesOf(Torn) = {0}
  BY DEF NotesOf, Torn
<1>3. disk # Torn => NotesOf(disk) \subseteq Notes
  BY ListNotes DEF Lists
<1> QED BY <1>1, <1>2, <1>3 DEF Lists, Notes, Typed

LEMMA DispatchKeeps ==
    ASSUME QueueInv, NEW d \in Dispatchers, NEW c \in Channels, Dispatch(d, c)
    PROVE  QueueInv'
<1> DEFINE n == issued + 1
           s == [at |-> "sending", note |-> n, channel |-> c, wait |-> 0, age |-> 0]
<1>1. issued \in Nat /\ NumNotes \in Nat /\ issued' = n /\ n \in Notes /\ n \in 0 .. NumNotes
  BY QueueAssumption DEF QueueInv, Typed, Dispatch, Notes
<1>2. s \in Sending /\ s.note = n /\ s # Idle
  BY <1>1, TimesStayInRange, WaitsAreBounded DEF Sending, Idle
<1>3. dispatcher' = [dispatcher EXCEPT ![d] = s] /\ dispatcher[d].at = "idle" /\ up
      /\ UNCHANGED <<up, entries, disk, enabled, worker, delivered, gone, crashes>>
  BY <1>1 DEF Dispatch
<1> HIDE DEF s
<1>4. /\ dispatcher'[d] = s /\ \A e \in Dispatchers \ {d} : dispatcher'[e] = dispatcher[e]
      /\ dispatcher' = [e \in Dispatchers |-> dispatcher'[e]]
      /\ dispatcher[d] = Idle
  BY <1>3, SendingFields DEF QueueInv, Typed, Sending
<1>5. Typed'
  BY <1>1, <1>2, <1>3, <1>4 DEF QueueInv, Typed
<1>6. Lists'
  <2>1. \A m \in NotesOf(entries) \cup NotesOf(worker.due) \cup NotesOf(disk) : m <= issued'
    BY <1>1, KnownNotes DEF QueueInv
  <2> QED BY <1>3, <2>1 DEF QueueInv, Lists
<1>7. n \notin NotesOf(entries) \cup NotesOf(worker.due) /\ \A e \in Dispatchers : dispatcher[e].note # n
  <2>1. \A e \in Dispatchers : dispatcher[e].note # n
    BY <1>1, IdleHasNoNote DEF QueueInv, Apart, Typed, Notes
  <2> QED BY <1>1, <2>1 DEF QueueInv, Lists
<1>8. Apart'
  <2> SUFFICES ASSUME NEW e \in Dispatchers, dispatcher'[e] # Idle
               PROVE  /\ dispatcher'[e].note <= issued'
                      /\ dispatcher'[e].note \notin NotesOf(entries') \cup NotesOf(worker'.due)
                      /\ \A u \in Dispatchers : dispatcher'[u].note = dispatcher'[e].note => u = e
    BY DEF Apart
  <2>1. CASE e = d
    BY <1>1, <1>2, <1>3, <1>4, <1>7, <2>1
  <2>2. CASE e # d
    <3>1. /\ dispatcher[e].note \in Notes /\ dispatcher[e].note <= issued
          /\ dispatcher[e].note \notin NotesOf(entries) \cup NotesOf(worker.due)
          /\ \A u \in Dispatchers : dispatcher[u].note = dispatcher[e].note => u = e
      BY <1>4, <2>2, SendingFields DEF QueueInv, Apart, Typed
    <3>2. dispatcher[e].note \in Nat
      BY <3>1 DEF Notes
    <3> QED BY <1>1, <1>2, <1>3, <1>4, <2>2, <3>1, <3>2
  <2> QED BY <2>1, <2>2
<1>9. Down' /\ DoneIsDone'
  BY <1>3 DEF QueueInv, Down, DoneIsDone
<1>10. NoNoteSilentlyLost'
  <2> SUFFICES ASSUME NEW m \in 1 .. issued' PROVE delivered'[m] > 0 \/ Held(m)' \/ m \in gone'
    BY DEF NoNoteSilentlyLost
  <2>1. CASE m = n
    BY <1>2, <1>4, <2>1 DEF Held
  <2>2. CASE m # n
    <3>1. m \in 1 .. issued
      BY <1>1, <2>2
    <3>2. delivered[m] > 0 \/ Held(m) \/ m \in gone
      BY <3>1 DEF QueueInv, NoNoteSilentlyLost
    <3>3. Held(m) => Held(m)'
      BY <1>1, <1>3, <1>4, <3>1, IdleHasNoNote DEF Held
    <3> QED BY <1>3, <3>2, <3>3
  <2> QED BY <2>1, <2>2
<1>11. Once'
  <2>1. \A m \in Notes : m > issued' => delivered[m] = 0
    BY <1>1 DEF QueueInv, Once, Notes
  <2>2. delivered[n] = 0
    BY <1>1 DEF QueueInv, Once
  <2> QED BY <1>2, <1>3, <1>4, <2>1, <2>2 DEF QueueInv, Once
<1> QED BY <1>5, <1>6, <1>8, <1>9, <1>10, <1>11 DEF QueueInv

\* A thread that goes on with its note or is rid of it.
LEMMA ThreadGoesOn ==
    ASSUME QueueInv, NEW d \in Dispatchers, dispatcher[d] # Idle, NEW s \in {Idle} \cup Sending,
           s = Idle \/ s.note = dispatcher[d].note,
           dispatcher' = [dispatcher EXCEPT ![d] = s]
    PROVE  /\ dispatcher' = [e \in Dispatchers |-> dispatcher'[e]]
           /\ dispatcher'[d] = s /\ \A e \in Dispatchers \ {d} : dispatcher'[e] = dispatcher[e]
           /\ \A e \in Dispatchers : dispatcher'[e] = Idle \/ dispatcher'[e] \in Sending
           /\ \A e \in Dispatchers : dispatcher'[e] # Idle =>
                 dispatcher[e] # Idle /\ dispatcher'[e].note = dispatcher[e].note /\ (e = d => s # Idle)
           /\ dispatcher[d].note \in Notes /\ dispatcher[d].note <= issued /\ dispatcher[d] \in Sending /\ up
<1>1. /\ dispatcher = [e \in Dispatchers |-> dispatcher[e]]
      /\ \A e \in Dispatchers : dispatcher[e] = Idle \/ dispatcher[e] \in Sending
  BY DEF QueueInv, Typed
<1>2. /\ dispatcher' = [e \in Dispatchers |-> dispatcher'[e]]
      /\ dispatcher'[d] = s /\ \A e \in Dispatchers \ {d} : dispatcher'[e] = dispatcher[e]
  BY <1>1
<1>3. dispatcher[d].note \in Notes /\ dispatcher[d].note <= issued /\ dispatcher[d] \in Sending /\ up
  BY <1>1, SendingFields DEF QueueInv, Apart, Down
<1> QED BY <1>1, <1>2, <1>3

\* What stays apart does so when threads only get rid of their notes.
LEMMA ApartStays ==
    ASSUME QueueInv, UNCHANGED <<issued, entries>>, NotesOf(worker'.due) \subseteq NotesOf(worker.due),
           \A e \in Dispatchers : dispatcher'[e] = Idle \/ dispatcher'[e] \in Sending,
           \A e \in Dispatchers : dispatcher'[e] # Idle => dispatcher[e] # Idle /\ dispatcher'[e].note = dispatcher[e].note
    PROVE  Apart'
<1> SUFFICES ASSUME NEW e \in Dispatchers, dispatcher'[e] # Idle
             PROVE  /\ dispatcher'[e].note <= issued'
                    /\ dispatcher'[e].note \notin NotesOf(entries') \cup NotesOf(worker'.due)
                    /\ \A u \in Dispatchers : dispatcher'[u].note = dispatcher'[e].note => u = e
  BY DEF Apart
<1>1. dispatcher[e] # Idle /\ dispatcher'[e].note = dispatcher[e].note /\ dispatcher'[e].note \in Notes
  BY SendingFields
<1>2. \A u \in Dispatchers : dispatcher'[u].note = dispatcher'[e].note => dispatcher'[u] # Idle
  BY <1>1, IdleHasNoNote
<1> QED BY <1>1, <1>2 DEF QueueInv, Apart

LEMMA SendArrivesKeeps ==
    ASSUME QueueInv, NEW d \in Dispatchers, SendArrives(d)
    PROVE  QueueInv'
<1> DEFINE n == dispatcher[d].note
<1>1. /\ dispatcher[d] # Idle /\ dispatcher' = [dispatcher EXCEPT ![d] = Idle]
      /\ delivered' = [delivered EXCEPT ![n] = OneMore(@)]
      /\ UNCHANGED <<up, issued, entries, disk, enabled, worker, gone, crashes>>
  BY IdleHasNoNote DEF SendArrives, Arrive
<1>2. /\ dispatcher' = [e \in Dispatchers |-> dispatcher'[e]]
      /\ dispatcher'[d] = Idle /\ \A e \in Dispatchers \ {d} : dispatcher'[e] = dispatcher[e]
      /\ \A e \in Dispatchers : dispatcher'[e] = Idle \/ dispatcher'[e] \in Sending
      /\ \A e \in Dispatchers : dispatcher'[e] # Idle =>
             dispatcher[e] # Idle /\ dispatcher'[e].note = dispatcher[e].note /\ e # d
      /\ n \in Notes /\ n <= issued /\ up
  BY <1>1, ThreadGoesOn
<1> HIDE DEF n
<1>3. /\ delivered' \in [Notes -> 0 .. Many] /\ delivered'[n] > 0 /\ \A m \in Notes \ {n} : delivered'[m] = delivered[m]
      /\ \A m \in Notes : delivered[m] > 0 => delivered'[m] > 0
      /\ delivered[n] = 0 => delivered'[n] = 1
  <2>1. delivered[n] \in 0 .. Many /\ OneMore(delivered[n]) \in 1 .. Many /\ (delivered[n] = 0 => OneMore(delivered[n]) = 1)
    BY <1>2 DEF QueueInv, Typed, OneMore, Many
  <2>2. delivered' = [delivered EXCEPT ![n] = OneMore(delivered[n])] /\ delivered \in [Notes -> 0 .. Many]
    BY <1>1 DEF QueueInv, Typed
  <2> QED BY <1>2, <2>1, <2>2 DEF Many
<1>4. Typed'
  BY <1>1, <1>2, <1>3 DEF QueueInv, Typed
<1>5. Lists' /\ Down'
  BY <1>1, <1>2 DEF QueueInv, Lists, Down
<1>6. Apart'
  BY <1>1, <1>2, ApartStays
<1>7. DoneIsDone'
  BY <1>1, <1>3 DEF QueueInv, DoneIsDone, Typed, Round
<1>8. NoNoteSilentlyLost'
  <2> SUFFICES ASSUME NEW m \in 1 .. issued PROVE delivered'[m] > 0 \/ Held(m)' \/ m \in gone
    BY <1>1 DEF NoNoteSilentlyLost
  <2>1. CASE m = n
    BY <1>3, <2>1
  <2>2. CASE m # n
    <3>1. delivered[m] > 0 \/ Held(m) \/ m \in gone
      BY DEF QueueInv, NoNoteSilentlyLost
    <3>2. Held(m) => Held(m)'
      BY <1>1, <1>2, <2>2 DEF Held, n
    <3>3. m \in Notes
      BY QueueAssumption DEF QueueInv, Typed, Notes
    <3> QED BY <1>3, <3>1, <3>2, <3>3
  <2> QED BY <2>1, <2>2
<1>9. Once'
  <2>1. \A m \in Notes : m > issued => delivered'[m] = 0
    <3>1. ASSUME NEW m \in Notes, m > issued PROVE m # n
      BY <1>2, <3>1 DEF QueueInv, Typed, Notes
    <3> QED BY <1>3, <3>1 DEF QueueInv, Once
  <2>2. ASSUME crashes = 0
        PROVE  /\ \A m \in Notes : delivered'[m] <= 1
               /\ \A m \in NotesOf(worker.due) : delivered'[m] = 0
               /\ \A e \in Dispatchers : dispatcher'[e] # Idle => delivered'[dispatcher'[e].note] = 0
               /\ \A m \in NotesOf(entries) \ worker.done : delivered'[m] = 0
    <3>1. /\ \A m \in Notes : delivered[m] <= 1
          /\ \A m \in NotesOf(worker.due) : delivered[m] = 0
          /\ \A e \in Dispatchers : dispatcher[e] # Idle => delivered[dispatcher[e].note] = 0
          /\ \A m \in NotesOf(entries) \ worker.done : delivered[m] = 0
      BY <2>2 DEF QueueInv, Once
    <3>2. delivered'[n] = 1
      BY <1>1, <1>3, <3>1 DEF n
    <3>3. /\ n \notin NotesOf(entries) \cup NotesOf(worker.due)
          /\ \A e \in Dispatchers : e # d => dispatcher[e].note # n
      BY <1>1 DEF QueueInv, Apart, n
    <3>4. NotesOf(entries) \subseteq Notes /\ NotesOf(worker.due) \subseteq Notes
      BY KnownNotes DEF QueueInv
    <3>5. \A m \in Notes : delivered'[m] <= 1
      BY <1>3, <3>1, <3>2
    <3>6. ASSUME NEW e \in Dispatchers, dispatcher'[e] # Idle PROVE delivered'[dispatcher'[e].note] = 0
      <4>1. dispatcher[e].note \in Notes \ {n}
        BY <1>2, <3>3, <3>6, SendingFields DEF QueueInv, Typed
      <4> QED BY <1>2, <1>3, <3>1, <3>6, <4>1
    <3> QED BY <1>3, <3>1, <3>3, <3>4, <3>5, <3>6
  <2> QED BY <1>1, <2>1, <2>2 DEF Once
<1> QED BY <1>4, <1>5, <1>6, <1>7, <1>8, <1>9 DEF QueueInv

LEMMA SendRaisesKeeps ==
    ASSUME QueueInv, NEW d \in Dispatchers, SendRaises(d)
    PROVE  QueueInv'
<1> DEFINE s == [[dispatcher[d] EXCEPT !.at = "stamped"] EXCEPT !.wait = Backoff[1]]
<1>1. /\ dispatcher[d] # Idle
      /\ UNCHANGED <<up, issued, entries, disk, enabled, worker, delivered, gone, crashes>>
  BY IdleHasNoNote DEF SendRaises
<1>2. dispatcher[d] \in Sending /\ s \in Sending /\ s.note = dispatcher[d].note
  <2>1. dispatcher[d] \in Sending /\ Backoff[1] \in 0 .. LongestWait
    BY <1>1, TimesStayInRange, WaitsAreBounded DEF QueueInv, Typed
  <2>2. [dispatcher[d] EXCEPT !.at = "stamped"] \in Sending
        /\ [dispatcher[d] EXCEPT !.at = "stamped"].note = dispatcher[d].note
    BY <2>1 DEF Sending
  <2> QED BY <2>1, <2>2 DEF Sending
<1>3. dispatcher' = [dispatcher EXCEPT ![d] = s]
  <2>1. d \in DOMAIN dispatcher
    BY DEF QueueInv, Typed
  <2> QED BY <2>1 DEF SendRaises
<1> HIDE DEF s
<1>4. /\ dispatcher' = [e \in Dispatchers |-> dispatcher'[e]]
      /\ dispatcher'[d] = s /\ \A e \in Dispatchers \ {d} : dispatcher'[e] = dispatcher[e]
      /\ \A e \in Dispatchers : dispatcher'[e] = Idle \/ dispatcher'[e] \in Sending
      /\ \A e \in Dispatchers : dispatcher'[e] # Idle =>
             dispatcher[e] # Idle /\ dispatcher'[e].note = dispatcher[e].note
      /\ up
  BY <1>1, <1>2, <1>3, ThreadGoesOn
<1>5. Typed' /\ Lists' /\ Down' /\ DoneIsDone'
  BY <1>1, <1>4 DEF QueueInv, Typed, Lists, Down, DoneIsDone
<1>6. Apart'
  BY <1>1, <1>4, ApartStays
<1>7. NoNoteSilentlyLost'
  <2>1. \A m : Held(m) => Held(m)'
    BY <1>1, <1>2, <1>4 DEF Held
  <2> QED BY <1>1, <2>1 DEF QueueInv, NoNoteSilentlyLost
<1>8. Once'
  BY <1>1, <1>4 DEF QueueInv, Once
<1> QED BY <1>5, <1>6, <1>7, <1>8 DEF QueueInv

\* The file afterwards: the list just saved, what it was, or torn.
LEMMA SaveKeeps ==
    ASSUME Typed, Lists, NEW q, List(q), Len(q) <= MaxQueue, NotesOf(q) \subseteq 0 .. issued, Save(q)
    PROVE  /\ disk' = Torn \/ (List(disk') /\ Len(disk') <= MaxQueue)
           /\ \A n \in NotesOf(disk') : n <= issued
<1>1. NotesOf(disk) \subseteq 0 .. issued
  BY KnownNotes
<1>2. NotesOf(Torn) = {0} /\ issued \in Nat
  BY DEF NotesOf, Torn, Typed
<1>3. CASE disk' = q
  BY <1>2, <1>3
<1>4. CASE disk' = disk
  BY <1>1, <1>2, <1>4 DEF Lists
<1>5. CASE disk' = Torn
  BY <1>2, <1>5
<1> QED BY <1>3, <1>4, <1>5 DEF Save

LEMMA EnqueueKeeps ==
    ASSUME QueueInv, NEW d \in Dispatchers, Enqueue(d)
    PROVE  QueueInv'
<1> DEFINE n == dispatcher[d].note
           e == NewEntry(d)
<1>1. /\ dispatcher[d] # Idle /\ dispatcher' = [dispatcher EXCEPT ![d] = Idle]
      /\ UNCHANGED <<up, issued, enabled, worker, delivered, crashes>>
  BY IdleHasNoNote DEF Enqueue
<1>2. /\ dispatcher' = [u \in Dispatchers |-> dispatcher'[u]]
      /\ dispatcher'[d] = Idle /\ \A u \in Dispatchers \ {d} : dispatcher'[u] = dispatcher[u]
      /\ \A u \in Dispatchers : dispatcher'[u] = Idle \/ dispatcher'[u] \in Sending
      /\ \A u \in Dispatchers : dispatcher'[u] # Idle =>
             dispatcher[u] # Idle /\ dispatcher'[u].note = dispatcher[u].note /\ u # d
      /\ n \in Notes /\ n <= issued /\ dispatcher[d] \in Sending /\ up
  BY <1>1, ThreadGoesOn
<1>3. e \in Entry /\ e.note = n
  <2>1. 0 \in 0 .. Len(Backoff)
    BY WaitsAreBounded
  <2> QED BY <1>2, <2>1, SendingFields DEF NewEntry, Entry
<1>4. /\ n \notin NotesOf(entries) \cup NotesOf(worker.due)
      /\ \A u \in Dispatchers : dispatcher[u].note = n => u = d
  BY <1>1 DEF QueueInv, Apart
<1> HIDE DEF n, e
<1>5. PICK q : /\ List(q) /\ Len(q) < MaxQueue /\ NotesOf(q) \subseteq NotesOf(entries)
               /\ entries' = Append(q, e) /\ gone \subseteq gone' /\ gone' \subseteq Notes
               /\ NotesOf(entries) \subseteq NotesOf(q) \cup gone'
  <2>0. List(entries) /\ Len(entries) <= MaxQueue /\ MaxQueue \in Nat \ {0} /\ gone \subseteq Notes
    BY QueueAssumption DEF QueueInv, Lists, Typed
  <2>1. CASE Len(entries) >= MaxQueue
    <3>1. entries # <<>> /\ Len(entries) \in Nat
      BY <2>0, <2>1, EmptyList, ListNotes
    <3>2. entries' = Append(Tail(entries), e) /\ gone' = gone \cup {Head(entries).note}
      BY <2>0, <2>1, <3>1 DEF Enqueue, e
    <3>3. /\ List(Tail(entries)) /\ Len(Tail(entries)) = Len(entries) - 1
          /\ NotesOf(entries) = NotesOf(Tail(entries)) \cup {Head(entries).note}
      BY <2>0, <3>1, TailList
    <3>4. NotesOf(entries) \subseteq Notes
      BY <2>0, ListNotes
    <3>5. gone' \subseteq Notes /\ NotesOf(entries) \subseteq NotesOf(Tail(entries)) \cup gone'
      BY <2>0, <3>2, <3>3, <3>4
    <3>6. Len(Tail(entries)) < MaxQueue
      BY <2>0, <3>1, <3>3
    <3> QED BY <3>2, <3>3, <3>5, <3>6
  <2>2. CASE Len(entries) < MaxQueue
    <3>1. entries' = Append(entries, e) /\ gone' = gone
      BY <2>0, <2>2, ListNotes DEF Enqueue, e
    <3> QED BY <2>0, <2>2, <3>1
  <2> QED BY <2>0, <2>1, <2>2, ListNotes
<1>6. /\ List(entries') /\ NotesOf(entries') = NotesOf(q) \cup {n} /\ Len(entries') <= MaxQueue
  <2>1. List(Append(q, e)) /\ NotesOf(Append(q, e)) = NotesOf(q) \cup {n} /\ Len(Append(q, e)) = Len(q) + 1
    BY <1>3, <1>4, <1>5, AppendList
  <2>2. Len(q) \in Nat /\ MaxQueue \in Nat
    BY <1>5, ListNotes, QueueAssumption
  <2> QED BY <1>5, <2>1, <2>2
<1>7. NotesOf(entries) \cup NotesOf(worker.due) \cup NotesOf(disk) \subseteq 0 .. issued /\ n \in 0 .. issued
      /\ issued \in Nat
  BY <1>2, KnownNotes DEF QueueInv, Notes, Typed
<1>8. NotesOf(entries') \subseteq 0 .. issued
  BY <1>5, <1>6, <1>7
<1>9. Lists'
  <2>1. Save(entries')
    BY DEF Enqueue
  <2>2. /\ disk' = Torn \/ (List(disk') /\ Len(disk') <= MaxQueue)
        /\ \A m \in NotesOf(disk') : m <= issued
    BY <1>6, <1>8, <2>1, SaveKeeps DEF QueueInv
  <2>3. \A m \in NotesOf(entries') \cup NotesOf(worker.due) \cup NotesOf(disk') : m <= issued
    BY <1>7, <1>8, <2>2
  <2> QED BY <1>1, <1>6, <2>2, <2>3 DEF QueueInv, Lists
<1>10. Typed'
  BY <1>1, <1>2, <1>5 DEF QueueInv, Typed
<1>11. Apart'
  <2> SUFFICES ASSUME NEW u \in Dispatchers, dispatcher'[u] # Idle
               PROVE  /\ dispatcher'[u].note <= issued
                      /\ dispatcher'[u].note \notin NotesOf(entries') \cup NotesOf(worker.due)
                      /\ \A v \in Dispatchers : dispatcher'[v].note = dispatcher'[u].note => v = u
    BY <1>1 DEF Apart
  <2>1. /\ dispatcher[u] # Idle /\ dispatcher'[u].note = dispatcher[u].note /\ u # d
        /\ dispatcher'[u].note \in Notes
    BY <1>2, SendingFields
  <2>2. /\ dispatcher[u].note <= issued /\ dispatcher[u].note \notin NotesOf(entries) \cup NotesOf(worker.due)
        /\ \A v \in Dispatchers : dispatcher[v].note = dispatcher[u].note => v = u
    BY <2>1 DEF QueueInv, Apart
  <2>3. \A v \in Dispatchers : dispatcher'[v].note = dispatcher'[u].note => dispatcher'[v] # Idle
    BY <2>1, IdleHasNoNote
  <2> QED BY <1>2, <1>4, <1>5, <1>6, <2>1, <2>2, <2>3
<1>12. Down' /\ DoneIsDone'
  BY <1>1, <1>2, <1>5 DEF QueueInv, Down, DoneIsDone
<1>13. NoNoteSilentlyLost'
  <2> SUFFICES ASSUME NEW m \in 1 .. issued PROVE delivered[m] > 0 \/ Held(m)' \/ m \in gone'
    BY <1>1 DEF NoNoteSilentlyLost
  <2>1. delivered[m] > 0 \/ m \in NotesOf(entries) \/ (\E u \in Dispatchers : dispatcher[u].note = m) \/ m \in gone
    BY <1>2 DEF QueueInv, NoNoteSilentlyLost, Held
  <2>2. m \in NotesOf(entries) \/ m = n => Held(m)' \/ m \in gone'
    BY <1>1, <1>2, <1>5, <1>6 DEF Held
  <2>3. \A u \in Dispatchers : dispatcher[u].note = m /\ m # n => Held(m)'
    BY <1>2 DEF Held, n
  <2> QED BY <1>5, <2>1, <2>2, <2>3
<1>14. Once'
  BY <1>1, <1>2, <1>5, <1>6 DEF QueueInv, Once, n
<1> QED BY <1>9, <1>10, <1>11, <1>12, <1>13, <1>14 DEF QueueInv

-----------------------------------------------------------------------------
LEMMA RoundFields ==
    ASSUME NEW w \in Round
    PROVE  /\ w.at \in {"asleep", "sending", "commit"} /\ w.due \in Seq(Entry) /\ w.targets \subseteq Channels
           /\ w.done \subseteq Notes /\ w.late \in 0 .. LongestWait
           /\ w = [at |-> w.at, due |-> w.due, targets |-> w.targets, done |-> w.done, late |-> w.late]
  BY DEF Round

LEMMA StartRoundKeeps ==
    ASSUME QueueInv, StartRound
    PROVE  QueueInv'
<1> DEFINE due == Selected(entries, Due)
<1>1. /\ UNCHANGED <<up, issued, dispatcher, entries, disk, enabled, delivered, gone, crashes>>
      /\ worker' = [at |-> "sending", due |-> due, targets |-> enabled, done |-> {}, late |-> 0]
      /\ up /\ worker.at = "asleep" /\ worker.done = {} /\ Due # {} /\ Due \subseteq DOMAIN entries
  BY DEF StartRound, QueueInv, Lists, Due
<1>2. List(entries) /\ enabled \subseteq Channels
  BY DEF QueueInv, Lists, Typed
<1>3. List(due) /\ NotesOf(due) = {entries[i].note : i \in Due}
  BY <1>1, <1>2, SelectedList
<1>4. due # <<>> /\ NotesOf(due) \subseteq NotesOf(entries)
  BY <1>1, <1>3, EmptyList DEF NotesOf
<1>5. due \in Seq(Entry)
  BY <1>3 DEF List
<1> HIDE DEF due
<1>6. worker' \in Round /\ worker'.due = due /\ worker'.done = {} /\ worker'.at = "sending"
  BY <1>1, <1>2, <1>5, WaitsAreBounded DEF Round
<1>7. Typed' /\ Lists' /\ Apart' /\ Down' /\ DoneIsDone'
  BY <1>1, <1>3, <1>4, <1>6 DEF QueueInv, Typed, Lists, Apart, Down, DoneIsDone
<1>8. NoNoteSilentlyLost'
  BY <1>1 DEF QueueInv, NoNoteSilentlyLost, Held
<1>9. Once'
  BY <1>1, <1>4, <1>6 DEF QueueInv, Once
<1> QED BY <1>7, <1>8, <1>9 DEF QueueInv

\* The loop over the copy: its first entry is done with, or is left for a later round.
LEMMA NextDueGoesOn ==
    ASSUME QueueInv, Trying, NEW done, done \subseteq Notes, NextDue(done)
    PROVE  /\ worker' \in Round /\ worker'.done = done /\ List(worker'.due)
           /\ NotesOf(worker.due) = NotesOf(worker'.due) \cup {Entry1.note} /\ Entry1.note \notin NotesOf(worker'.due)
           /\ (worker'.at = "sending" <=> worker'.due # <<>>) /\ worker'.at # "asleep"
           /\ Entry1 \in Entry /\ Entry1.note \in Notes /\ Entry1.note <= issued /\ up /\ crashes = crashes
<1> DEFINE t == Tail(worker.due)
<1>1. worker \in Round /\ List(worker.due) /\ worker.due # <<>> /\ worker.at = "sending"
  BY DEF QueueInv, Typed, Lists, Trying
<1>2. /\ Entry1 \in Entry /\ List(t) /\ Len(t) = Len(worker.due) - 1 /\ Len(worker.due) >= 1
      /\ NotesOf(worker.due) = NotesOf(t) \cup {Entry1.note} /\ Entry1.note \notin NotesOf(t)
  BY <1>1, TailList DEF Entry1
<1>3. t \in Seq(Entry) /\ Len(worker.due) \in Nat
  BY <1>1, <1>2, ListNotes DEF List
<1> HIDE DEF t
<1>4. worker' = [at |-> IF Len(worker.due) = 1 THEN "commit" ELSE "sending", due |-> t,
                 targets |-> worker.targets, done |-> done, late |-> worker.late]
  BY <1>1 DEF NextDue, t, Round
<1>5. worker' \in Round /\ worker'.done = done /\ worker'.due = t
      /\ worker'.at = IF Len(worker.due) = 1 THEN "commit" ELSE "sending"
  BY <1>1, <1>3, <1>4, RoundFields DEF Round
<1>6. t = <<>> <=> Len(worker.due) = 1
  <2>1. Len(t) \in Nat /\ (Len(t) = 0 <=> t = <<>>)
    BY <1>3
  <2> QED BY <1>2, <1>3, <2>1
<1>7. Entry1.note \in NotesOf(worker.due) /\ NotesOf(worker.due) \subseteq Notes
  BY <1>1, <1>2, ListNotes
<1>8. Entry1.note <= issued
  BY <1>7 DEF QueueInv, Lists
<1>9. up
  BY <1>1, IdleHasNoNote DEF QueueInv, Down, Asleep, Typed
<1> QED BY <1>2, <1>5, <1>6, <1>7, <1>8, <1>9

LEMMA RetryDeferredKeeps == ASSUME QueueInv, RetryDeferred PROVE QueueInv'
<1>1. /\ Trying /\ NextDue(worker.done) /\ worker.done \subseteq Notes
      /\ UNCHANGED <<up, issued, dispatcher, entries, disk, enabled, delivered, gone, crashes>>
  BY RoundFields DEF RetryDeferred, QueueInv, Typed
<1>2. /\ worker' \in Round /\ worker'.done = worker.done /\ List(worker'.due)
      /\ NotesOf(worker'.due) \subseteq NotesOf(worker.due)
      /\ (worker'.at = "sending" <=> worker'.due # <<>>) /\ worker'.at # "asleep" /\ up
  BY <1>1, NextDueGoesOn
<1>3. Typed' /\ Lists' /\ Apart' /\ Down' /\ DoneIsDone'
  BY <1>1, <1>2 DEF QueueInv, Typed, Lists, Apart, Down, DoneIsDone
<1>4. NoNoteSilentlyLost'
  BY <1>1 DEF QueueInv, NoNoteSilentlyLost, Held
<1>5. Once'
  BY <1>1, <1>2 DEF QueueInv, Once
<1> QED BY <1>3, <1>4, <1>5 DEF QueueInv

LEMMA RetryArrivesKeeps == ASSUME QueueInv, RetryArrives PROVE QueueInv'
<1> DEFINE n == Entry1.note
           done == worker.done \cup {n}
<1>0. Trying /\ worker.done \subseteq Notes /\ worker.due # <<>> /\ List(worker.due)
  BY RoundFields DEF RetryArrives, QueueInv, Typed, Lists, Trying
<1>1. /\ NextDue(done) /\ delivered' = [delivered EXCEPT ![n] = OneMore(@)]
      /\ UNCHANGED <<up, issued, dispatcher, entries, disk, enabled, gone, crashes>> /\ done \subseteq Notes
  <2>1. n \in Notes
    BY <1>0, TailList, ListNotes DEF Entry1
  <2> QED BY <1>0, <2>1 DEF RetryArrives, Arrive
<1>2. /\ worker' \in Round /\ worker'.done = done /\ List(worker'.due)
      /\ NotesOf(worker.due) = NotesOf(worker'.due) \cup {n} /\ n \notin NotesOf(worker'.due)
      /\ (worker'.at = "sending" <=> worker'.due # <<>>) /\ worker'.at # "asleep"
      /\ n \in Notes /\ n <= issued /\ up
  BY <1>0, <1>1, NextDueGoesOn
<1> HIDE DEF n
<1>3. /\ delivered' \in [Notes -> 0 .. Many] /\ delivered'[n] > 0 /\ \A m \in Notes \ {n} : delivered'[m] = delivered[m]
      /\ \A m \in Notes : delivered[m] > 0 => delivered'[m] > 0
      /\ delivered[n] = 0 => delivered'[n] = 1
  <2>1. delivered[n] \in 0 .. Many /\ OneMore(delivered[n]) \in 1 .. Many /\ (delivered[n] = 0 => OneMore(delivered[n]) = 1)
    BY <1>2 DEF QueueInv, Typed, OneMore, Many
  <2>2. delivered' = [delivered EXCEPT ![n] = OneMore(delivered[n])] /\ delivered \in [Notes -> 0 .. Many]
    BY <1>1 DEF QueueInv, Typed
  <2> QED BY <1>2, <2>1, <2>2 DEF Many
<1>4. Typed' /\ Lists' /\ Apart' /\ Down'
  BY <1>1, <1>2, <1>3 DEF QueueInv, Typed, Lists, Apart, Down
<1>5. DoneIsDone'
  BY <1>0, <1>1, <1>2, <1>3 DEF QueueInv, DoneIsDone
<1>6. NoNoteSilentlyLost'
  <2>1. \A m : Held(m) => Held(m)'
    BY <1>1 DEF Held
  <2>2. \A m \in 1 .. issued : m \in Notes
    BY QueueAssumption DEF QueueInv, Typed, Notes
  <2> QED BY <1>1, <1>3, <2>1, <2>2 DEF QueueInv, NoNoteSilentlyLost
<1>7. Once'
  <2>1. \A m \in Notes : m > issued => delivered'[m] = 0
    <3>1. ASSUME NEW m \in Notes, m > issued PROVE m # n
      BY <1>2, <3>1 DEF QueueInv, Typed, Notes
    <3> QED BY <1>3, <3>1 DEF QueueInv, Once
  <2>2. ASSUME crashes = 0
        PROVE  /\ \A m \in Notes : delivered'[m] <= 1
               /\ \A m \in NotesOf(worker'.due) : delivered'[m] = 0
               /\ \A e \in Dispatchers : dispatcher[e] # Idle => delivered'[dispatcher[e].note] = 0
               /\ \A m \in NotesOf(entries) \ done : delivered'[m] = 0
    <3>1. /\ \A m \in Notes : delivered[m] <= 1
          /\ \A m \in NotesOf(worker.due) : delivered[m] = 0
          /\ \A e \in Dispatchers : dispatcher[e] # Idle => delivered[dispatcher[e].note] = 0
          /\ \A m \in NotesOf(entries) \ worker.done : delivered[m] = 0
      BY <2>2 DEF QueueInv, Once
    <3>2. delivered'[n] = 1
      BY <1>2, <1>3, <3>1
    <3>3. NotesOf(entries) \subseteq Notes /\ NotesOf(worker.due) \subseteq Notes
      BY KnownNotes DEF QueueInv
    <3>4. ASSUME NEW e \in Dispatchers, dispatcher[e] # Idle PROVE delivered'[dispatcher[e].note] = 0
      <4>1. dispatcher[e].note \in Notes /\ dispatcher[e].note \notin NotesOf(worker.due)
        BY <3>4, SendingFields DEF QueueInv, Typed, Apart
      <4> QED BY <1>2, <1>3, <3>1, <3>4, <4>1
    <3>5. \A m \in Notes : delivered'[m] <= 1
      BY <1>3, <3>1, <3>2
    <3> QED BY <1>2, <1>3, <3>1, <3>3, <3>4, <3>5
  <2> QED BY <1>1, <1>2, <2>1, <2>2 DEF Once
<1> QED BY <1>4, <1>5, <1>6, <1>7 DEF QueueInv

\* The entry that failed gets its next attempt wherever it is in the list.
LEMMA RescheduledEntry ==
    ASSUME NEW e \in Entry, worker \in Round
    PROVE  Rescheduled(e) \in Entry /\ Rescheduled(e).note = e.note
<1> DEFINE attempt == Min({e.attempt + 1, Len(Backoff)})
           wait == Sooner(Step(attempt), worker.late)
<1>1. attempt \in 0 .. Len(Backoff) /\ wait \in 0 .. LongestWait
  <2>1. e.attempt \in 0 .. Len(Backoff) /\ worker.late \in Nat /\ Len(Backoff) \in Nat
    BY WaitsAreBounded, RoundFields DEF Entry
  <2>2. attempt \in 1 .. Len(Backoff)
    BY <2>1, TimesStayInRange
  <2> HIDE DEF attempt
  <2>3. attempt \in 0 .. Len(Backoff)
    BY <2>1, <2>2
  <2>4. Step(attempt) \in 0 .. LongestWait
    <3>1. \A a \in 0 .. Len(Backoff) : Step(a) \in 1 .. LongestWait
      BY TimesStayInRange
    <3>2. Step(attempt) \in 1 .. LongestWait
      BY <2>3, <3>1
    <3> QED BY <3>2, WaitsAreBounded
  <2>5. wait \in 0 .. LongestWait
    BY <2>1, <2>4, TimesStayInRange
  <2> QED BY <2>3, <2>5
<1>2. Rescheduled(e) = [[e EXCEPT !.attempt = attempt] EXCEPT !.wait = wait]
  BY DEF Rescheduled
<1> HIDE DEF attempt, wait
<1>3. [e EXCEPT !.attempt = attempt] \in Entry /\ [e EXCEPT !.attempt = attempt].note = e.note
  BY <1>1 DEF Entry
<1> QED BY <1>1, <1>2, <1>3 DEF Entry

LEMMA RetryRaisesKeeps == ASSUME QueueInv, RetryRaises PROVE QueueInv'
<1> DEFINE n == Entry1.note
<1>0. Trying /\ worker.done \subseteq Notes /\ worker.due # <<>> /\ List(worker.due) /\ n \in Notes
  <2>1. Trying /\ worker.done \subseteq Notes /\ worker.due # <<>> /\ List(worker.due)
    BY RoundFields DEF RetryRaises, QueueInv, Typed, Lists, Trying
  <2> QED BY <2>1, TailList, ListNotes DEF Entry1
<1>1. UNCHANGED <<up, issued, dispatcher, disk, enabled, delivered, crashes>>
  BY DEF RetryRaises
<1>2. CASE Entry1.age >= MaxAge /\ NextDue(worker.done \cup {n}) /\ gone' = gone \cup {n} /\ UNCHANGED entries
  <2>1. worker.done \cup {n} \subseteq Notes /\ NextDue(worker.done \cup {n})
    BY <1>0, <1>2
  <2>2. /\ worker' \in Round /\ worker'.done = worker.done \cup {n} /\ List(worker'.due)
        /\ NotesOf(worker'.due) \subseteq NotesOf(worker.due)
        /\ (worker'.at = "sending" <=> worker'.due # <<>>) /\ worker'.at # "asleep" /\ up
    BY <1>0, <2>1, NextDueGoesOn
  <2>3. Typed' /\ Lists' /\ Apart' /\ Down' /\ DoneIsDone'
    BY <1>0, <1>1, <1>2, <2>2 DEF QueueInv, Typed, Lists, Apart, Down, DoneIsDone
  <2>4. NoNoteSilentlyLost'
    BY <1>1, <1>2 DEF QueueInv, NoNoteSilentlyLost, Held
  <2>5. Once'
    BY <1>1, <1>2, <2>2 DEF QueueInv, Once
  <2> QED BY <2>3, <2>4, <2>5 DEF QueueInv
<1>3. CASE NextDue(worker.done) /\ UNCHANGED gone
           /\ entries' = [i \in DOMAIN entries |-> IF entries[i].note = n THEN Rescheduled(entries[i]) ELSE entries[i]]
  <2>1. NextDue(worker.done)
    BY <1>3
  <2>2. /\ worker' \in Round /\ worker'.done = worker.done /\ List(worker'.due)
        /\ NotesOf(worker'.due) \subseteq NotesOf(worker.due)
        /\ (worker'.at = "sending" <=> worker'.due # <<>>) /\ worker'.at # "asleep" /\ up
    BY <1>0, <2>1, NextDueGoesOn
  <2>3. List(entries) /\ entries \in Seq(Entry) /\ worker \in Round
    BY DEF QueueInv, Lists, Typed, List
  <2>4. \A i \in DOMAIN entries : entries'[i] \in Entry /\ entries'[i].note = entries[i].note
    BY <1>3, <2>3, RescheduledEntry
  <2>5. List(entries') /\ NotesOf(entries') = NotesOf(entries) /\ Len(entries') = Len(entries)
    <3>1. DOMAIN entries' = DOMAIN entries /\ entries' = [i \in DOMAIN entries |-> entries'[i]]
      BY <1>3
    <3> QED BY <2>3, <2>4, <3>1, MappedList
  <2>6. Typed' /\ Lists' /\ Apart' /\ Down' /\ DoneIsDone'
    BY <1>1, <1>3, <2>2, <2>5 DEF QueueInv, Typed, Lists, Apart, Down, DoneIsDone
  <2>7. NoNoteSilentlyLost'
    BY <1>1, <1>3, <2>2, <2>5 DEF QueueInv, NoNoteSilentlyLost, Held
  <2>8. Once'
    BY <1>1, <2>2, <2>5 DEF QueueInv, Once
  <2> QED BY <2>6, <2>7, <2>8 DEF QueueInv
<1> QED BY <1>2, <1>3 DEF RetryRaises

\* The worker, at rest again.
LEMMA AsleepFields ==
    /\ Asleep \in Round /\ Asleep.at = "asleep" /\ Asleep.due = <<>> /\ Asleep.done = {}
  BY WaitsAreBounded DEF Asleep, Round

LEMMA CommitKeeps == ASSUME QueueInv, Commit PROVE QueueInv'
<1> DEFINE kept == {i \in DOMAIN entries : entries[i].note \notin worker.done}
<1>1. /\ entries' = Selected(entries, kept) /\ Save(entries') /\ worker' = Asleep /\ worker.at = "commit"
      /\ UNCHANGED <<up, issued, dispatcher, enabled, delivered, gone, crashes>>
  BY DEF Commit
<1>2. List(entries) /\ Len(entries) <= MaxQueue /\ Len(entries) \in Nat /\ MaxQueue \in Nat
  BY QueueAssumption, ListNotes DEF QueueInv, Lists
<1>3. /\ List(entries') /\ Len(entries') <= Len(entries)
      /\ NotesOf(entries') = {entries[i].note : i \in kept}
  BY <1>1, <1>2, SelectedList
<1>4. NotesOf(entries') = NotesOf(entries) \ worker.done
  BY <1>3 DEF NotesOf
<1> HIDE DEF kept
<1>5. Len(entries') <= MaxQueue
  BY <1>2, <1>3, ListNotes
<1>6. NotesOf(entries') \subseteq 0 .. issued
  BY <1>4, KnownNotes DEF QueueInv
<1>7. /\ disk' = Torn \/ (List(disk') /\ Len(disk') <= MaxQueue)
      /\ \A m \in NotesOf(disk') : m <= issued
  BY <1>1, <1>3, <1>5, <1>6, SaveKeeps DEF QueueInv
<1>8. up
  BY <1>1, AsleepFields DEF QueueInv, Down, Typed
<1>9. Typed' /\ Apart' /\ Down' /\ DoneIsDone'
  BY <1>1, <1>4, <1>8, AsleepFields, EmptyList DEF QueueInv, Typed, Apart, Down, DoneIsDone
<1>10. Lists'
  <2>1. \A m \in NotesOf(entries') \cup NotesOf(worker'.due) \cup NotesOf(disk') : m <= issued
    BY <1>1, <1>4, <1>7, AsleepFields, EmptyList DEF QueueInv, Lists
  <2> QED BY <1>1, <1>3, <1>5, <1>7, <2>1, AsleepFields, EmptyList DEF Lists
<1>11. NoNoteSilentlyLost'
  BY <1>1, <1>4, <1>8 DEF QueueInv, NoNoteSilentlyLost, Held, DoneIsDone
<1>12. Once'
  BY <1>1, <1>4, AsleepFields, EmptyList DEF QueueInv, Once
<1> QED BY <1>9, <1>10, <1>11, <1>12 DEF QueueInv

-----------------------------------------------------------------------------
LEMMA CrashKeeps == ASSUME QueueInv, NEW whileSaving \in BOOLEAN, Crash(whileSaving) PROVE QueueInv'
<1>1. /\ up /\ up' = FALSE /\ entries' = <<>> /\ dispatcher' = [d \in Dispatchers |-> Idle] /\ worker' = Asleep
      /\ disk' \in {disk, Torn} /\ crashes' = crashes + 1 /\ crashes < MaxCrashes
      /\ gone' = gone \cup ((NotesOf(entries) \cup InFlight) \ NotesOf(disk'))
      /\ UNCHANGED <<issued, enabled, delivered>>
  BY DEF Crash
<1>2. NotesOf(entries) \subseteq Notes /\ NotesOf(Torn) = {0}
  BY KnownNotes DEF QueueInv, NotesOf, Torn
<1>3. InFlight \subseteq Notes
  BY SendingFields, IdleHasNoNote DEF InFlight, QueueInv, Typed
<1>4. Typed'
  <2>1. crashes' \in 0 .. MaxCrashes
    BY <1>1, QueueAssumption DEF QueueInv, Typed
  <2>2. gone' \subseteq Notes
    BY <1>1, <1>2, <1>3 DEF QueueInv, Typed
  <2> QED BY <1>1, <2>1, <2>2, AsleepFields DEF QueueInv, Typed
<1>5. Lists'
  <2>1. \A m \in NotesOf(disk') : m <= issued
    BY <1>1, <1>2 DEF QueueInv, Lists, Typed
  <2>2. disk' = Torn \/ (List(disk') /\ Len(disk') <= MaxQueue)
    BY <1>1 DEF QueueInv, Lists
  <2> QED BY <1>1, <2>1, <2>2, AsleepFields, EmptyList, QueueAssumption DEF Lists
<1>6. Apart' /\ Down' /\ DoneIsDone'
  BY <1>1, AsleepFields DEF QueueInv, Typed, Apart, Down, DoneIsDone
<1>7. NoNoteSilentlyLost'
  <2> SUFFICES ASSUME NEW m \in 1 .. issued PROVE delivered[m] > 0 \/ Held(m)' \/ m \in gone'
    BY <1>1 DEF NoNoteSilentlyLost
  <2>1. delivered[m] > 0 \/ m \in NotesOf(entries) \/ m \in InFlight \/ m \in gone
    BY <1>1 DEF QueueInv, NoNoteSilentlyLost, Held, InFlight
  <2>2. m \in NotesOf(disk') => Held(m)'
    BY <1>1 DEF Held
  <2> QED BY <1>1, <2>1, <2>2
<1>8. Once'
  <2>1. crashes' # 0
    BY <1>1 DEF QueueInv, Typed
  <2> QED BY <1>1, <2>1 DEF QueueInv, Once
<1> QED BY <1>4, <1>5, <1>6, <1>7, <1>8 DEF QueueInv

LEMMA RestartKeeps == ASSUME QueueInv, Restart PROVE QueueInv' /\ \A i \in DOMAIN entries' : entries'[i].age <= MaxAge
<1> DEFINE kept == {i \in DOMAIN disk : disk[i].age <= MaxAge}
<1>1. /\ ~up /\ up' = TRUE /\ UNCHANGED <<issued, dispatcher, disk, enabled, worker, delivered, crashes>>
      /\ worker = Asleep /\ crashes # 0 /\ \A d \in Dispatchers : dispatcher[d] = Idle
  BY DEF Restart, QueueInv, Down
<1>2. /\ List(entries') /\ Len(entries') <= MaxQueue
      /\ NotesOf(entries') \subseteq NotesOf(disk) /\ gone \subseteq gone' /\ gone' \subseteq Notes
      /\ \A m \in NotesOf(disk) : m # 0 => m \in NotesOf(entries') \/ m \in gone'
      /\ \A i \in DOMAIN entries' : entries'[i].age <= MaxAge
  <2>0. gone \subseteq Notes /\ MaxQueue \in Nat
    BY QueueAssumption DEF QueueInv, Typed
  <2>1. CASE disk = Torn
    <3>1. entries' = <<>> /\ gone' = gone /\ NotesOf(disk) = {0}
      BY <2>1, KnownNotes DEF Restart, QueueInv
    <3> QED BY <2>0, <3>1, EmptyList
  <2>2. CASE disk # Torn
    <3>1. /\ List(disk) /\ Len(disk) <= MaxQueue /\ NotesOf(disk) \subseteq Notes /\ Len(disk) \in Nat
      BY <2>2, ListNotes DEF QueueInv, Lists
    <3>2. entries' = Selected(disk, kept) /\ gone' = gone \cup (NotesOf(disk) \ NotesOf(entries'))
      BY <2>2 DEF Restart
    <3>3. /\ List(entries') /\ Len(entries') <= Len(disk)
          /\ NotesOf(entries') = {disk[i].note : i \in kept}
          /\ \A i \in DOMAIN entries' : \E j \in kept : entries'[i] = disk[j]
      <4>1. kept \subseteq DOMAIN disk
        OBVIOUS
      <4> HIDE DEF kept
      <4> QED BY <3>1, <3>2, <4>1, SelectedList
    <3>4. NotesOf(entries') \subseteq NotesOf(disk) /\ \A i \in DOMAIN entries' : entries'[i].age <= MaxAge
      BY <3>3 DEF NotesOf
    <3>5. Len(entries') <= MaxQueue
      BY <2>0, <3>1, <3>3, ListNotes
    <3> QED BY <2>0, <3>1, <3>2, <3>3, <3>4, <3>5
  <2> QED BY <2>1, <2>2
<1> HIDE DEF kept
<1>3. Typed' /\ Lists' /\ Down' /\ DoneIsDone'
  BY <1>1, <1>2, AsleepFields, EmptyList DEF QueueInv, Typed, Lists, Down, DoneIsDone
<1>4. Apart'
  BY <1>1 DEF Apart
<1>5. NoNoteSilentlyLost'
  <2> SUFFICES ASSUME NEW m \in 1 .. issued PROVE delivered[m] > 0 \/ Held(m)' \/ m \in gone'
    BY <1>1 DEF NoNoteSilentlyLost
  <2>1. delivered[m] > 0 \/ m \in NotesOf(disk) \/ m \in gone
    BY <1>1, IdleHasNoNote DEF QueueInv, NoNoteSilentlyLost, Held
  <2>2. m \in NotesOf(entries') => Held(m)'
    BY <1>1 DEF Held
  <2> QED BY <1>2, <2>1, <2>2
<1>6. Once'
  BY <1>1 DEF QueueInv, Once
<1> QED BY <1>2, <1>3, <1>4, <1>5, <1>6 DEF QueueInv

LEMMA AgedEntry ==
    /\ \A e \in Entry : Aged(e) \in Entry /\ Aged(e).note = e.note
    /\ \A s \in Sending : Aged(s) \in Sending /\ Aged(s).note = s.note
<1>1. ASSUME NEW e \in Entry PROVE Aged(e) \in Entry /\ Aged(e).note = e.note
  <2> DEFINE wait == Sooner(e.wait, 1)
             age == Min({e.age + 1, Old})
  <2>1. wait \in 0 .. LongestWait /\ age \in 0 .. Old
    BY TimesStayInRange DEF Entry
  <2>2. Aged(e) = [[e EXCEPT !.wait = wait] EXCEPT !.age = age]
    BY DEF Aged, Entry
  <2> HIDE DEF wait, age
  <2>3. [e EXCEPT !.wait = wait] \in Entry /\ [e EXCEPT !.wait = wait].note = e.note
    BY <2>1 DEF Entry
  <2> QED BY <2>1, <2>2, <2>3 DEF Entry
<1>2. ASSUME NEW s \in Sending PROVE Aged(s) \in Sending /\ Aged(s).note = s.note
  <2> DEFINE wait == Sooner(s.wait, 1)
             age == Min({s.age + 1, Old})
  <2>1. wait \in 0 .. LongestWait /\ age \in 0 .. Old
    BY TimesStayInRange DEF Sending
  <2>2. Aged(s) = [[s EXCEPT !.wait = wait] EXCEPT !.age = age]
    BY DEF Aged, Sending
  <2> HIDE DEF wait, age
  <2>3. [s EXCEPT !.wait = wait] \in Sending /\ [s EXCEPT !.wait = wait].note = s.note
    BY <2>1 DEF Sending
  <2> QED BY <2>1, <2>2, <2>3 DEF Sending
<1> QED BY <1>1, <1>2

LEMMA AgedList ==
    ASSUME NEW q, List(q)
    PROVE  List(AgedAll(q)) /\ NotesOf(AgedAll(q)) = NotesOf(q) /\ Len(AgedAll(q)) = Len(q)
<1> DEFINE r == AgedAll(q)
<1>1. DOMAIN r = DOMAIN q /\ r = [i \in DOMAIN q |-> r[i]] /\ \A i \in DOMAIN q : r[i] = Aged(q[i])
  BY DEF AgedAll
<1>2. \A i \in DOMAIN q : q[i] \in Entry
  BY DEF List
<1> HIDE DEF r
<1>3. \A i \in DOMAIN q : r[i] \in Entry /\ r[i].note = q[i].note
  BY <1>1, <1>2, AgedEntry
<1>4. List(r) /\ NotesOf(r) = NotesOf(q) /\ Len(r) = Len(q)
  BY <1>1, <1>3, MappedList
<1> QED BY <1>4 DEF r

LEMMA TickKeeps == ASSUME QueueInv, Tick PROVE QueueInv'
<1>1. /\ UNCHANGED <<up, issued, enabled, delivered, gone, crashes>>
      /\ entries' = AgedAll(entries)
      /\ disk' = IF disk = Torn THEN disk ELSE AgedAll(disk)
      /\ dispatcher' = [d \in Dispatchers |-> IF dispatcher[d].at = "stamped" THEN Aged(dispatcher[d]) ELSE dispatcher[d]]
  BY DEF Tick
<1>2. List(entries') /\ NotesOf(entries') = NotesOf(entries) /\ Len(entries') = Len(entries)
  BY <1>1, AgedList DEF QueueInv, Lists
<1>3. disk' = Torn \/ (List(disk') /\ Len(disk') <= MaxQueue)
  BY <1>1, AgedList DEF QueueInv, Lists
<1>4. NotesOf(disk') = NotesOf(disk)
  BY <1>1, AgedList DEF QueueInv, Lists
<1>5. /\ worker' \in Round /\ worker'.at = worker.at /\ worker'.due = worker.due /\ worker'.done = worker.done
      /\ (worker = Asleep => worker' = Asleep)
  <2>0. worker \in Round
    BY DEF QueueInv, Typed
  <2>1. CASE worker.at = "sending"
    <3> DEFINE late == Min({worker.late + 1, LongestWait})
    <3>1. worker' = [worker EXCEPT !.late = late] /\ worker # Asleep
      BY <2>0, <2>1, AsleepFields DEF Tick, Round
    <3>2. late \in 0 .. LongestWait
      BY <2>0, RoundFields, TimesStayInRange
    <3> HIDE DEF late
    <3> QED BY <2>0, <3>1, <3>2 DEF Round
  <2>2. CASE worker.at # "sending"
    BY <2>0, <2>2 DEF Tick
  <2> QED BY <2>1, <2>2
<1>6. \A d \in Dispatchers : /\ dispatcher[d] = Idle \/ dispatcher[d] \in Sending
                             /\ dispatcher'[d] = IF dispatcher[d].at = "stamped" THEN Aged(dispatcher[d]) ELSE dispatcher[d]
  BY <1>1 DEF QueueInv, Typed
<1>7. \A d \in Dispatchers : IF dispatcher[d] = Idle THEN dispatcher'[d] = Idle
                             ELSE dispatcher'[d] \in Sending /\ dispatcher'[d].note = dispatcher[d].note
  BY <1>6, IdleHasNoNote, AgedEntry
<1>8. dispatcher' = [d \in Dispatchers |-> dispatcher'[d]]
  BY <1>1
<1>9. \A d \in Dispatchers : /\ dispatcher'[d] = Idle \/ dispatcher'[d] \in Sending
                             /\ dispatcher'[d].note = dispatcher[d].note
                             /\ dispatcher'[d] = Idle <=> dispatcher[d] = Idle
  BY <1>7, SendingFields
<1>10. Typed' /\ DoneIsDone'
  BY <1>1, <1>5, <1>8, <1>9 DEF QueueInv, Typed, DoneIsDone
<1>11. Lists'
  BY <1>1, <1>2, <1>3, <1>4, <1>5 DEF QueueInv, Lists
<1>12. Apart'
  BY <1>1, <1>2, <1>5, <1>9 DEF QueueInv, Apart
<1>13. Down'
  <2>1. entries = <<>> => entries' = <<>>
    BY <1>1 DEF AgedAll
  <2> QED BY <1>1, <1>5, <1>9, <2>1 DEF QueueInv, Down
<1>14. NoNoteSilentlyLost'
  <2>1. \A m : Held(m) => Held(m)'
    BY <1>1, <1>2, <1>4, <1>9 DEF Held
  <2> QED BY <1>1, <2>1 DEF QueueInv, NoNoteSilentlyLost
<1>15. Once'
  BY <1>1, <1>2, <1>5, <1>9 DEF QueueInv, Once
<1> QED BY <1>10, <1>11, <1>12, <1>13, <1>14, <1>15 DEF QueueInv

LEMMA QueueStep == QueueInv /\ [Next]_vars => QueueInv'
<1> SUFFICES ASSUME QueueInv, [Next]_vars PROVE QueueInv'
  OBVIOUS
<1>1. ASSUME NEW d \in Dispatchers, DispatcherStep(d) PROVE QueueInv'
  BY <1>1, SendArrivesKeeps, SendRaisesKeeps, EnqueueKeeps DEF DispatcherStep
<1>2. ASSUME NEW d \in Dispatchers, NEW c \in Channels, Dispatch(d, c) PROVE QueueInv'
  BY <1>2, DispatchKeeps
<1>3. CASE WorkerStep
  BY <1>3, StartRoundKeeps, RetryDeferredKeeps, RetryArrivesKeeps, RetryRaisesKeeps, CommitKeeps DEF WorkerStep
<1>4. ASSUME NEW now \in SUBSET Channels, Reload(now) PROVE QueueInv'
  BY <1>4 DEF Reload, QueueInv, Typed, Lists, Apart, Down, DoneIsDone, NoNoteSilentlyLost, Held, Once
<1>5. ASSUME NEW whileSaving \in BOOLEAN, Crash(whileSaving) PROVE QueueInv'
  BY <1>5, CrashKeeps
<1>6. CASE Restart
  BY <1>6, RestartKeeps
<1>7. CASE Tick
  BY <1>7, TickKeeps
<1>8. CASE UNCHANGED vars
  BY <1>8 DEF vars, QueueInv, Typed, Lists, Apart, Down, DoneIsDone, NoNoteSilentlyLost, Held, Once
<1> QED BY <1>1, <1>2, <1>3, <1>4, <1>5, <1>6, <1>7, <1>8 DEF Next

LEMMA QueueInvariant == Spec => []QueueInv
<1> QED BY QueueStarts, QueueStep, PTL DEF Spec

\* NotesHold
THEOREM NotificationsAreCorrect == Spec => []NotesHold
<1>1. QueueInv => NotesHold
  <2> SUFFICES ASSUME QueueInv PROVE NotesHold
    OBVIOUS
  <2>1. \A d \in Dispatchers : dispatcher[d].at \in {"idle", "sending", "stamped"}
    BY SendingFields, IdleHasNoNote DEF QueueInv, Typed
  <2>2. /\ entries \in Seq(Entry) /\ (disk = Torn \/ disk \in Seq(Entry))
        /\ worker.at \in {"asleep", "sending", "commit"} /\ worker.due \in Seq(Entry) /\ worker.done \subseteq Notes
    BY RoundFields DEF QueueInv, Lists, Typed, List
  <2>3. TypeOK
    BY <2>1, <2>2 DEF QueueInv, Typed, Lists, TypeOK
  <2>4. AtMostOnceWithoutCrash
    BY DEF QueueInv, Once, AtMostOnceWithoutCrash
  <2> QED BY <2>3, <2>4 DEF QueueInv, NotesHold
<1> QED BY <1>1, QueueInvariant, PTL

\* NothingExpiredComesBack
THEOREM RestartsDiscardExpired == Spec => NothingExpiredComesBack
<1>1. ASSUME QueueInv, [Next]_vars
      PROVE  [~up /\ up' => \A i \in DOMAIN entries' : entries'[i].age <= MaxAge]_vars
  <2> SUFFICES ASSUME ~up, up' PROVE \A i \in DOMAIN entries' : entries'[i].age <= MaxAge
    OBVIOUS
  <2>1. Restart
    BY <1>1 DEF Next, vars, DispatcherStep, SendArrives, SendRaises, Enqueue, Dispatch, WorkerStep, StartRound,
                RetryDeferred, RetryArrives, RetryRaises, Commit, Reload, Crash, Tick
  <2> QED BY <1>1, <2>1, RestartKeeps
<1> QED BY <1>1, QueueInvariant, PTL DEF Spec, NothingExpiredComesBack
=============================================================================
