--------------------------- MODULE ApiLimitsProofs ---------------------------
(***************************************************************************)
(* The rate limiter, and the limit of saved places behind it, for any      *)
(* number of workers, devices and requests, and any limits.                *)
(***************************************************************************)
EXTENDS ApiLimits, FavoritesProofs, FiniteSetTheorems, TLAPS

-----------------------------------------------------------------------------
(* Counting                                                                *)

\* A set that maps one to one into another is no larger.
LEMMA OneToOne ==
  ASSUME NEW S, NEW T, IsFiniteSet(T), NEW g \in [S -> T],
         \A x, y \in S : g[x] = g[y] => x = y
  PROVE  IsFiniteSet(S) /\ Cardinality(S) <= Cardinality(T)
<1>1. g \in Injection(S, T)
  BY DEF Injection, IsInjective
<1> QED
  BY <1>1, FS_Injection

LEMMA Smaller ==
  ASSUME NEW T, IsFiniteSet(T), NEW S, S \subseteq T
  PROVE  /\ IsFiniteSet(S) /\ Cardinality(S) \in Nat /\ Cardinality(T) \in Nat
         /\ Cardinality(S) <= Cardinality(T)
BY FS_Subset, FS_CardinalityType

LEMMA OneMore ==
  ASSUME NEW S, IsFiniteSet(S), NEW x
  PROVE  /\ IsFiniteSet(S \cup {x}) /\ Cardinality(S) \in Nat /\ Cardinality(S \cup {x}) \in Nat
         /\ Cardinality(S \cup {x}) <= Cardinality(S) + 1
         /\ x \notin S => Cardinality(S \cup {x}) = Cardinality(S) + 1
<1>1. IsFiniteSet(S \cup {x})
      /\ Cardinality(S \cup {x}) = IF x \in S THEN Cardinality(S) ELSE Cardinality(S) + 1
  BY FS_AddElement
<1>2. Cardinality(S) \in Nat
  BY FS_CardinalityType
<1> QED
  BY <1>1, <1>2

\* A finite set that does not hold all of 1..n for an n it has more than elements
\* leaves one of them out: the members a log of fewer entries has not used.
LEMMA MemberLeft ==
  ASSUME RateAssumption, NEW es, NEW at, NEW c, IsFiniteSet(Of(es, at, c)),
         Cardinality(Of(es, at, c)) < MaxMembers
  PROVE  \E m \in Members : \A e \in Of(es, at, c) : e.member # m
<1> SUFFICES ASSUME \A m \in Members : \E e \in Of(es, at, c) : e.member = m
             PROVE  FALSE
  OBVIOUS
<1> DEFINE S == Of(es, at, c)
           g == [m \in Members |-> CHOOSE e \in S : e.member = m]
<1>1. \A m \in Members : g[m] \in S /\ g[m].member = m
  OBVIOUS
<1>2. g \in [Members -> S]
  BY <1>1
<1>3. \A m, n \in Members : g[m] = g[n] => m = n
  BY <1>1
<1>4. Cardinality(Members) = MaxMembers
  BY FS_Interval DEF Members, RateAssumption
<1>5. Cardinality(S) \in Nat
  BY FS_CardinalityType
<1> HIDE DEF S, g
<1>6. IsFiniteSet(S) /\ Cardinality(S) < MaxMembers
  BY DEF S
<1>7. Cardinality(Members) <= Cardinality(S)
  BY <1>2, <1>3, <1>6, OneToOne
<1> QED
  BY <1>4, <1>5, <1>6, <1>7 DEF RateAssumption

-----------------------------------------------------------------------------
(* Entries                                                                 *)

LetThrough(es) == {e \in es : e.status = "granted"}
Lost(es) == {e \in es : e.status = "lost"}

\* An entry is known by its key and its member; in the memory of a worker there
\* are only requests let through; no log or window has more of them than the
\* limit.
Sound(es) ==
  /\ IsFiniteSet(es) /\ es \subseteq Entry
  /\ \A e, f \in es : e.at = f.at /\ e.client = f.client /\ e.member = f.member => e = f
  /\ \A e \in es : e.at # "redis" => e.status = "granted"
  /\ \A at \in Stores, c \in Clients : Cardinality(Of(LetThrough(es), at, c)) <= RateLimit

\* A new entry is one more, and sound where there was room for it.
LEMMA Adds ==
  ASSUME RateAssumption, NEW es, Sound(es), NEW at \in Stores, NEW c \in Clients,
         NEW status \in {"granted", "lost"} \cup Calls, NEW age \in 0..(Window - 1),
         Cardinality(Of(es, at, c)) < MaxMembers,
         at # "redis" => status = "granted",
         status = "granted" => Cardinality(Of(es, at, c)) < RateLimit
  PROVE  LET new == New(es, at, c, status, age)
         IN  /\ new \in Entry /\ new \notin es /\ Sound(es \cup {new})
             /\ new.at = at /\ new.client = c /\ new.status = status
<1> DEFINE new == New(es, at, c, status, age)
<1>1. IsFiniteSet(Of(es, at, c)) /\ Cardinality(Of(es, at, c)) \in Nat
  BY Smaller DEF Of, Sound
<1>2. /\ Fresh(es, at, c) \in Members
      /\ \A e \in Of(es, at, c) : e.member # Fresh(es, at, c)
  BY <1>1, MemberLeft DEF Fresh
<1>3. new \in Entry
  BY <1>2 DEF New, Entry, RateAssumption
<1>4. new.at = at /\ new.client = c /\ new.status = status /\ new.member = Fresh(es, at, c)
  BY DEF New
<1> HIDE DEF new
<1>5. \A e \in es : e.at = at /\ e.client = c => e.member # new.member
  BY <1>2, <1>4 DEF Of
<1>6. new \notin es
  BY <1>4, <1>5
<1>7. IsFiniteSet(es \cup {new}) /\ es \cup {new} \subseteq Entry
  BY <1>3, FS_AddElement DEF Sound
<1>8. \A e, f \in es \cup {new} :
        e.at = f.at /\ e.client = f.client /\ e.member = f.member => e = f
  BY <1>4, <1>5 DEF Sound
<1>9. \A e \in es \cup {new} : e.at # "redis" => e.status = "granted"
  BY <1>4 DEF Sound
<1>10. ASSUME NEW x \in Stores, NEW d \in Clients
       PROVE  Cardinality(Of(LetThrough(es \cup {new}), x, d)) <= RateLimit
  <2>1. CASE x = at /\ d = c /\ status = "granted"
    <3>1. Of(LetThrough(es \cup {new}), x, d) \subseteq Of(es, at, c) \cup {new}
      BY <2>1 DEF Of, LetThrough
    <3>2. /\ IsFiniteSet(Of(es, at, c) \cup {new})
          /\ Cardinality(Of(es, at, c) \cup {new}) <= Cardinality(Of(es, at, c)) + 1
      BY <1>1, OneMore
    <3>3. /\ Cardinality(Of(LetThrough(es \cup {new}), x, d)) <= Cardinality(Of(es, at, c) \cup {new})
          /\ Cardinality(Of(LetThrough(es \cup {new}), x, d)) \in Nat
          /\ Cardinality(Of(es, at, c) \cup {new}) \in Nat
      BY <3>1, <3>2, Smaller
    <3> QED
      BY <1>1, <2>1, <3>2, <3>3 DEF RateAssumption
  <2>2. CASE ~(x = at /\ d = c /\ status = "granted")
    <3>1. Of(LetThrough(es \cup {new}), x, d) = Of(LetThrough(es), x, d)
      BY <1>4, <2>2 DEF Of, LetThrough
    <3> QED
      BY <3>1 DEF Sound
  <2> QED
    BY <2>1, <2>2
<1>11. Sound(es \cup {new})
  BY <1>7, <1>8, <1>9, <1>10 DEF Sound
<1> QED
  BY <1>3, <1>4, <1>6, <1>11 DEF new

\* fs is what is left of es: entries that aged, lost their request or are gone.
\* back says which entry of es one of fs was.
LeftOf(fs, es, back) ==
  /\ back \in [fs -> es]
  /\ \A f, h \in fs : back[f] = back[h] => f = h
  /\ \A f \in fs : /\ f.at = back[f].at /\ f.client = back[f].client
                   /\ f.member = back[f].member
                   /\ f.status = "granted" => back[f].status = "granted"
                   /\ f.at # "redis" => f.status = back[f].status

LEMMA LeavesSound ==
  ASSUME NEW es, Sound(es), NEW fs, fs \subseteq Entry, NEW back, LeftOf(fs, es, back),
         RateAssumption
  PROVE  Sound(fs)
<1>1. IsFiniteSet(fs)
  <2>1. IsFiniteSet(es) /\ back \in [fs -> es] /\ \A f, h \in fs : back[f] = back[h] => f = h
    BY DEF LeftOf, Sound
  <2> QED
    BY <2>1, OneToOne
<1>2. \A e, f \in fs : e.at = f.at /\ e.client = f.client /\ e.member = f.member => e = f
  BY DEF LeftOf, Sound
<1>3. \A f \in fs : f.at # "redis" => f.status = "granted"
  BY DEF LeftOf, Sound
<1>4. ASSUME NEW at \in Stores, NEW c \in Clients
      PROVE  Cardinality(Of(LetThrough(fs), at, c)) <= RateLimit
  <2> DEFINE S == Of(LetThrough(fs), at, c)
             T == Of(LetThrough(es), at, c)
             g == [f \in S |-> back[f]]
  <2>1. IsFiniteSet(T) /\ Cardinality(T) \in Nat /\ Cardinality(T) <= RateLimit
    BY Smaller DEF Of, LetThrough, Sound
  <2>2. g \in [S -> T] /\ \A x, y \in S : g[x] = g[y] => x = y
    BY DEF LeftOf, Of, LetThrough
  <2> HIDE DEF S, T, g
  <2>3. IsFiniteSet(S) /\ Cardinality(S) <= Cardinality(T)
    BY <2>1, <2>2, OneToOne
  <2>4. Cardinality(S) \in Nat
    BY <2>3, FS_CardinalityType
  <2>5. Cardinality(S) <= RateLimit
    BY <2>1, <2>3, <2>4 DEF RateAssumption
  <2> QED
    BY <2>5 DEF S
<1> QED
  BY <1>1, <1>2, <1>3, <1>4 DEF Sound

\* Some of the entries go.
LEMMA SubsetSound ==
  ASSUME RateAssumption, NEW es, Sound(es), NEW fs, fs \subseteq es
  PROVE  Sound(fs)
<1> DEFINE back == [f \in fs |-> f]
<1>1. LeftOf(fs, es, back)
  BY DEF LeftOf
<1> HIDE DEF back
<1> QED
  BY <1>1, LeavesSound DEF Sound

\* They age.
LEMMA TickSound ==
  ASSUME RateAssumption, NEW es, Sound(es)
  PROVE  LET fs == {Older(e) : e \in {f \in es : f.age + 1 < Window}}
             back == [f \in fs |-> CHOOSE e \in es : Older(e) = f]
         IN  /\ fs \subseteq Entry /\ Sound(fs) /\ LeftOf(fs, es, back)
             /\ \A f \in fs : f.status = back[f].status
<1> DEFINE fs == {Older(e) : e \in {f \in es : f.age + 1 < Window}}
           back == [f \in fs |-> CHOOSE e \in es : Older(e) = f]
<1>1. \A f \in fs : back[f] \in es /\ Older(back[f]) = f
  OBVIOUS
<1>2. fs \subseteq Entry
  <2> SUFFICES ASSUME NEW e \in es, e.age + 1 < Window PROVE Older(e) \in Entry
    OBVIOUS
  <2>1. e \in Entry
    BY DEF Sound
  <2>2. e.age + 1 \in 0..(Window - 1)
    BY <2>1 DEF Entry, RateAssumption
  <2> QED
    BY <2>1, <2>2 DEF Entry, Older
<1>3. ASSUME NEW e \in es
      PROVE  /\ Older(e).at = e.at /\ Older(e).client = e.client
             /\ Older(e).member = e.member /\ Older(e).status = e.status
  BY DEF Sound, Entry, Older
<1> HIDE DEF fs, back
<1>4. \A f \in fs : /\ f.at = back[f].at /\ f.client = back[f].client
                    /\ f.member = back[f].member /\ f.status = back[f].status
  BY <1>1, <1>3
<1>5. back \in [fs -> es]
  BY <1>1 DEF back
<1>6. LeftOf(fs, es, back)
  BY <1>1, <1>4, <1>5 DEF LeftOf
<1> QED
  BY <1>2, <1>4, <1>6, LeavesSound DEF fs, back

\* A request fails to roll its entry back.
LEMMA AbandonSound ==
  ASSUME RateAssumption, NEW es, Sound(es), NEW q \in Calls
  PROVE  Sound({Abandon(q, e) : e \in es})
<1> DEFINE fs == {Abandon(q, e) : e \in es}
           back == [f \in fs |-> CHOOSE e \in es : Abandon(q, e) = f]
<1>1. \A f \in fs : back[f] \in es /\ Abandon(q, back[f]) = f
  OBVIOUS
<1>2. fs \subseteq Entry
  <2> SUFFICES ASSUME NEW e \in es PROVE Abandon(q, e) \in Entry
    OBVIOUS
  <2> QED
    BY DEF Sound, Entry, Abandon
<1>3. ASSUME NEW e \in es
      PROVE  /\ Abandon(q, e).at = e.at /\ Abandon(q, e).client = e.client
             /\ Abandon(q, e).member = e.member
             /\ Abandon(q, e).status = IF e.status = q THEN "lost" ELSE e.status
  BY DEF Sound, Entry, Abandon
<1>4. "granted" # q /\ "lost" # q
  BY DEF RateAssumption
<1> HIDE DEF fs, back
<1>5. \A f \in fs : /\ f.at = back[f].at /\ f.client = back[f].client
                    /\ f.member = back[f].member
                    /\ f.status = IF back[f].status = q THEN "lost" ELSE back[f].status
  BY <1>1, <1>3
<1>6. back \in [fs -> es]
  BY <1>1 DEF back
<1>7. \A f, h \in fs : back[f] = back[h] => f = h
  BY <1>1
<1>8. \A f \in fs : f.at # "redis" => back[f].status = "granted"
  BY <1>1, <1>5 DEF Sound
<1>9. LeftOf(fs, es, back)
  BY <1>4, <1>5, <1>6, <1>7, <1>8 DEF LeftOf
<1>10. Sound(fs)
  BY <1>2, <1>9, LeavesSound
<1> QED
  BY <1>10 DEF fs

-----------------------------------------------------------------------------
(* Windows                                                                 *)

\* s is the table of the windows of w, for the entries es: bounded, a key once,
\* and a window for every entry.
Table(s, w, es) ==
  /\ Len(s) <= MaxKeys
  /\ \A i, j \in DOMAIN s : s[i] = s[j] => i = j
  /\ \A e \in es : e.at = w => \E i \in DOMAIN s : s[i] = e.client

\* The window used comes last, and no other is lost or repeated.
LEMMA UsedWindows ==
  ASSUME NEW w \in Workers, NEW c \in Clients, order[w] \in Seq(Clients),
         \A i, j \in DOMAIN order[w] : order[w][i] = order[w][j] => i = j
  PROVE  LET s == order[w]
             used == Used(w, c)
         IN  /\ used \in Seq(Clients) /\ Len(used) \in Nat \ {0}
             /\ Len(used) \in {Len(s), Len(s) + 1}
             /\ used[Len(used)] = c
             /\ \A i, j \in 1..Len(used) : used[i] = used[j] => i = j
             /\ \A i \in 1..Len(s) : \E j \in 1..Len(used) : used[j] = s[i]
<1> DEFINE s == order[w]
           n == Len(s)
           used == Used(w, c)
<1>1. /\ s \in Seq(Clients) /\ n \in Nat /\ DOMAIN s = 1..n /\ \A i \in 1..n : s[i] \in Clients
      /\ \A i, j \in 1..n : s[i] = s[j] => i = j
  OBVIOUS
<1>2. CASE \E k \in DOMAIN s : s[k] = c
  <2> DEFINE k == CHOOSE i \in DOMAIN s : s[i] = c
  <2>1. k \in 1..n /\ s[k] = c
    BY <1>1, <1>2
  <2>2. used = MovedToEnd(s, k)
    BY <1>2 DEF Used
  <2> HIDE DEF k, s, n
  <2>3. used = [i \in 1..n |-> IF i < k THEN s[i] ELSE IF i < n THEN s[i + 1] ELSE s[k]]
    BY <2>2 DEF MovedToEnd, n
  <2> HIDE DEF used
  <2>4. \A i \in 1..n : used[i] \in Clients
    BY <1>1, <2>1, <2>3
  <2>5. used \in Seq(Clients) /\ Len(used) = n
    BY <1>1, <2>3, <2>4
  <2>6. used[n] = c
    BY <1>1, <2>1, <2>3
  <2>7. \A i, j \in 1..n : used[i] = used[j] => i = j
    BY <1>1, <2>1, <2>3
  <2>8. ASSUME NEW i \in 1..n PROVE \E j \in 1..n : used[j] = s[i]
    <3>1. CASE i < k
      BY <1>1, <2>3, <3>1
    <3>2. CASE i = k
      BY <1>1, <2>1, <2>6, <3>2
    <3>3. CASE i > k
      <4>1. i - 1 \in 1..n /\ used[i - 1] = s[i]
        BY <1>1, <2>1, <2>3, <3>3
      <4> QED
        BY <4>1
    <3> QED
      BY <1>1, <2>1, <3>1, <3>2, <3>3
  <2> QED
    BY <1>1, <2>1, <2>5, <2>6, <2>7, <2>8 DEF s, n, used
<1>3. CASE ~\E k \in DOMAIN s : s[k] = c
  <2>1. used = Append(s, c)
    BY <1>3 DEF Used
  <2> HIDE DEF s, used
  <2>2. /\ used \in Seq(Clients) /\ Len(used) = n + 1 /\ used[n + 1] = c
        /\ \A i \in 1..n : used[i] = s[i]
    BY <1>1, <2>1
  <2>3. \A i, j \in 1..(n + 1) : used[i] = used[j] => i = j
    BY <1>1, <1>3, <2>2
  <2>4. \A i \in 1..n : i \in 1..(n + 1)
    BY <1>1
  <2> QED
    BY <1>1, <2>2, <2>3, <2>4 DEF s, used
<1> QED
  BY <1>2, <1>3

\* A check in memory keeps the table and the entries sound; it enters the
\* request exactly if it lets it through, and touches no log.
LEMMA MemoryChecks ==
  ASSUME RateAssumption, RateTypeOK, TableBounded, NEW q \in Calls, NEW w \in Workers,
         NEW c \in Clients, NEW es, Sound(es),
         \A e \in es : e.at = "redis" \/ e \in entries,
         CheckMemory(q, w, c, es)
  PROVE  /\ Sound(entries') /\ order' \in [Workers -> Seq(Clients)] /\ TableBounded'
         /\ \A e \in entries' : e \in es \/ (e.at = w /\ e.status = "granted")
         /\ \A e \in es : e.at = "redis" => e \in entries'
         /\ \/ Refuse(q) /\ entries' = es
            \/ Grant(q, c) /\ \E new \in entries' \ es :
                 new.at = w /\ new.client = c /\ new.status = "granted"
<1> DEFINE used == Used(w, c)
           new == New(es, w, c, "granted", 0)
           counted == es \cup {new}
<1>1. /\ order[w] \in Seq(Clients) /\ Len(order[w]) \in Nat /\ Len(order[w]) <= MaxKeys
      /\ DOMAIN order[w] = 1..Len(order[w])
      /\ \A i, j \in DOMAIN order[w] : order[w][i] = order[w][j] => i = j
  BY DEF RateTypeOK, TableBounded
<1>2. /\ used \in Seq(Clients) /\ Len(used) \in Nat \ {0}
      /\ Len(used) \in {Len(order[w]), Len(order[w]) + 1}
      /\ used[Len(used)] = c
      /\ \A i, j \in 1..Len(used) : used[i] = used[j] => i = j
      /\ \A i \in 1..Len(order[w]) : \E j \in 1..Len(used) : used[j] = order[w][i]
  BY <1>1, UsedWindows
<1>3. w # "redis" /\ w \in Stores
  BY DEF RateAssumption, Stores
<1>4. \A e \in es : e.at = w => \E j \in 1..Len(used) : used[j] = e.client
  BY <1>1, <1>2, <1>3 DEF TableBounded
<1>5. \A v \in Workers : v # w =>
        \A e \in es : e.at = v => \E i \in DOMAIN order[v] : order[v][i] = e.client
  BY DEF TableBounded, RateAssumption
<1>6. ASSUME NEW s \in Seq(Clients), order' = [order EXCEPT ![w] = s], Table(s, w, entries'),
             \A e \in entries' : e \in es \/ e.at = w
      PROVE  order' \in [Workers -> Seq(Clients)] /\ TableBounded'
  <2>1. order' \in [Workers -> Seq(Clients)] /\ order'[w] = s
        /\ \A v \in Workers : v # w => order'[v] = order[v]
    BY <1>6 DEF RateTypeOK
  <2>2. \A v \in Workers : v # w =>
          \A e \in entries' : e.at = v => \E i \in DOMAIN order[v] : order[v][i] = e.client
    BY <1>5, <1>6
  <2> QED
    BY <1>6, <2>1, <2>2 DEF TableBounded, Table
<1>7. DOMAIN used = 1..Len(used)
  BY <1>2
<1> HIDE DEF used
<1>8. CASE Cardinality(Of(es, w, c)) >= RateLimit
  <2>1. Refuse(q) /\ entries' = es /\ order' = [order EXCEPT ![w] = used]
    BY <1>8 DEF CheckMemory, used
  <2>2. Len(used) <= MaxKeys
    <3>1. es # {} /\ \E e \in es : e.at = w /\ e.client = c
      <4>1. Of(es, w, c) # {}
        BY <1>8, FS_EmptySet DEF RateAssumption
      <4> QED
        BY <4>1 DEF Of
    <3>2. \E i \in DOMAIN order[w] : order[w][i] = c
      BY <1>3, <3>1 DEF TableBounded
    <3>3. Len(used) = Len(order[w])
      BY <1>1, <3>2 DEF used, Used, MovedToEnd
    <3> QED
      BY <1>1, <3>3
  <2>3. Table(used, w, entries')
    <3>1. \A e \in entries' : e.at = w => \E i \in DOMAIN used : used[i] = e.client
      BY <1>4, <1>7, <2>1
    <3>2. \A i, j \in DOMAIN used : used[i] = used[j] => i = j
      BY <1>2, <1>7
    <3> QED
      BY <2>2, <3>1, <3>2 DEF Table
  <2> QED
    BY <1>2, <1>6, <2>1, <2>3
<1>9. CASE ~(Cardinality(Of(es, w, c)) >= RateLimit)
  <2>1. /\ Grant(q, c)
        /\ IF Len(used) > MaxKeys
           THEN entries' = Evict(counted, w, Head(used)) /\ order' = [order EXCEPT ![w] = Tail(used)]
           ELSE entries' = counted /\ order' = [order EXCEPT ![w] = used]
    BY <1>9 DEF CheckMemory, Overfull, used
  <2>2. Cardinality(Of(es, w, c)) < RateLimit /\ Cardinality(Of(es, w, c)) < MaxMembers
    <3>1. Cardinality(Of(es, w, c)) \in Nat
      BY Smaller DEF Of, Sound
    <3> QED
      BY <1>9, <3>1 DEF RateAssumption
  <2>3. /\ new \notin es /\ Sound(counted)
        /\ new.at = w /\ new.client = c /\ new.status = "granted"
    BY <1>3, <2>2, Adds
  <2> HIDE DEF new
  <2>4. \A e \in counted : e.at = w => \E j \in 1..Len(used) : used[j] = e.client
    BY <1>2, <1>4, <2>3
  <2>5. CASE Len(used) > MaxKeys
    <3>1. entries' = Evict(counted, w, Head(used)) /\ order' = [order EXCEPT ![w] = Tail(used)]
      BY <2>1, <2>5
    <3>2. /\ Len(used) = MaxKeys + 1 /\ MaxKeys \in Nat \ {0}
          /\ Tail(used) \in Seq(Clients) /\ Len(Tail(used)) = MaxKeys
          /\ Head(used) = used[1] /\ \A i \in 1..MaxKeys : Tail(used)[i] = used[i + 1]
      BY <1>1, <1>2, <2>5 DEF RateAssumption
    <3>3. Head(used) # c
      BY <1>2, <3>2
    <3>4. new \in entries' /\ entries' \subseteq counted
      BY <2>3, <3>1, <3>3 DEF Evict, Of
    <3>5. \A e \in entries' : e.at = w => e.client # used[1]
      BY <3>1, <3>2 DEF Evict, Of
    <3>6. \A e \in entries' : e.at = w => \E i \in 1..MaxKeys : Tail(used)[i] = e.client
      <4> SUFFICES ASSUME NEW e \in entries', e.at = w
                   PROVE  \E i \in 1..MaxKeys : Tail(used)[i] = e.client
        OBVIOUS
      <4>1. PICK j \in 1..Len(used) : used[j] = e.client
        BY <2>4, <3>4
      <4>2. j - 1 \in 1..MaxKeys /\ Tail(used)[j - 1] = used[j]
        BY <3>2, <3>5, <4>1
      <4> QED
        BY <4>1, <4>2
    <3>7. \A i, j \in 1..MaxKeys : Tail(used)[i] = Tail(used)[j] => i = j
      BY <1>2, <3>2
    <3>8. Table(Tail(used), w, entries')
      BY <3>2, <3>6, <3>7 DEF Table
    <3>9. \A e \in es : e.at = "redis" => e \in entries'
      BY <1>3, <3>1 DEF Evict, Of
    <3>10. Sound(entries')
      BY <2>3, <3>4, SubsetSound
    <3> QED
      BY <1>6, <2>1, <2>3, <3>1, <3>2, <3>4, <3>8, <3>9, <3>10
  <2>6. CASE ~(Len(used) > MaxKeys)
    <3>1. entries' = counted /\ order' = [order EXCEPT ![w] = used]
      BY <2>1, <2>6
    <3>2. Table(used, w, entries')
      <4>1. \A e \in entries' : e.at = w => \E i \in DOMAIN used : used[i] = e.client
        BY <1>7, <2>4, <3>1
      <4>2. \A i, j \in DOMAIN used : used[i] = used[j] => i = j
        BY <1>2, <1>7
      <4>3. Len(used) <= MaxKeys
        BY <1>2, <2>6 DEF RateAssumption
      <4> QED
        BY <4>1, <4>2, <4>3 DEF Table
    <3> QED
      BY <1>2, <1>6, <2>1, <2>3, <3>1, <3>2
  <2> QED
    BY <2>5, <2>6
<1> QED
  BY <1>8, <1>9

-----------------------------------------------------------------------------
(* The limiter                                                             *)

\* A worker that asks Redis has counted nothing itself, and Redis is asked only
\* if it is there.
Placed ==
  /\ \A e \in entries : IF e.at = "redis" THEN SharedLog ELSE ~onRedis[e.at]
  /\ \A w \in Workers : onRedis[w] => SharedLog
  /\ \A q \in Calls : check[q].at \in {"asked", "rollback", "oldest"} => SharedLog

\* What a refused request left in the log is its own to roll back, and only one
\* entry; what nobody will roll back any more was lost to an error.
Logged ==
  /\ \A e \in entries : e.status \in Calls => check[e.status].at = "rollback"
  /\ \A e, f \in entries : e.status \in Calls /\ e.status = f.status => e = f
  /\ Cardinality(Lost(entries)) <= rateErrors

LimiterInv == RateTypeOK /\ Sound(entries) /\ TableBounded /\ Placed /\ Logged

Checks == {Unchecked} \cup Asking \cup LetIn

\* What a check of request q in the limiter does for the others: nothing they
\* were granted is taken from the log, and q is let through only with an entry
\* of its own.
ChecksOne(q) ==
  /\ \A p \in Calls : p # q => check'[p] = check[p]
  /\ \A e \in entries : e.at = "redis" /\ e.status = "granted" => e \in entries'
  /\ check'[q].at = "granted" =>
       \E new \in entries' \ entries :
         new.client = check'[q].client /\ new.status = "granted"

LEMMA CheckSteps ==
  ASSUME RateTypeOK, NEW q \in Calls, NEW v \in Checks, check' = [check EXCEPT ![q] = v]
  PROVE  /\ check' \in [Calls -> Checks] /\ check'[q] = v
         /\ \A p \in Calls : p # q => check'[p] = check[p]
BY DEF RateTypeOK, Checks

LEMMA CheckPlaces ==
  /\ Unchecked \in Checks /\ Unchecked.at = "idle"
  /\ \A c \in Clients : [at |-> "granted", client |-> c] \in Checks
  /\ \A at \in {"asked", "rollback", "oldest"}, w \in Workers, c \in Clients :
       [at |-> at, worker |-> w, client |-> c] \in Checks
BY DEF Checks, Unchecked, Asking, LetIn

LEMMA AskingTypes ==
  ASSUME RateTypeOK, NEW q \in Calls
  PROVE  /\ check[q].at \in {"asked", "rollback", "oldest"} =>
              check[q].worker \in Workers /\ check[q].client \in Clients
         /\ check[q].at = "granted" => check[q].client \in Clients
<1>1. check[q] \in {Unchecked} \cup Asking \cup LetIn
  BY DEF RateTypeOK
<1>2. Unchecked.at = "idle"
  BY DEF Unchecked
<1>3. CASE check[q] = Unchecked
  BY <1>2, <1>3
<1>4. CASE check[q] \in Asking
  BY <1>4 DEF Asking
<1>5. CASE check[q] \in LetIn
  BY <1>5 DEF LetIn
<1> QED
  BY <1>1, <1>3, <1>4, <1>5

LEMMA LostCount ==
  ASSUME NEW es, IsFiniteSet(es), NEW fs, Lost(fs) \subseteq Lost(es)
  PROVE  /\ IsFiniteSet(Lost(es)) /\ Cardinality(Lost(es)) \in Nat
         /\ IsFiniteSet(Lost(fs)) /\ Cardinality(Lost(fs)) \in Nat
         /\ Cardinality(Lost(fs)) <= Cardinality(Lost(es))
<1>1. IsFiniteSet(Lost(es))
  BY Smaller DEF Lost
<1> QED
  BY <1>1, Smaller

\* The entries after a check in memory that followed on those in es.
LEMMA AfterMemory ==
  ASSUME RateAssumption, RateTypeOK, TableBounded, Placed, NEW q \in Calls, NEW w \in Workers,
         NEW c \in Clients, NEW es, Sound(es), CheckMemory(q, w, c, es),
         \A e \in es : IF e.at = "redis" THEN SharedLog ELSE e \in entries,
         \A e \in entries : e.at # "redis" \/ e.status = "granted" => e \in es,
         \A e \in es : e.status \in Calls => e.status # q /\ check[e.status].at = "rollback",
         \A e, f \in es : e.status \in Calls /\ e.status = f.status => e = f,
         Cardinality(Lost(es)) <= rateErrors', rateErrors' \in 0..MaxRateErrors,
         onRedis' \in [Workers -> BOOLEAN],
         ~onRedis'[w], \A v \in Workers : onRedis'[v] => onRedis[v]
  PROVE  LimiterInv' /\ ChecksOne(q)
<1>1. /\ Sound(entries') /\ order' \in [Workers -> Seq(Clients)] /\ TableBounded'
      /\ \A e \in entries' : e \in es \/ (e.at = w /\ e.status = "granted")
      /\ \A e \in es : e.at = "redis" => e \in entries'
      /\ \/ Refuse(q) /\ entries' = es
         \/ Grant(q, c) /\ \E new \in entries' \ es :
              new.at = w /\ new.client = c /\ new.status = "granted"
  BY MemoryChecks
<1>2. w # "redis" /\ "granted" \notin Calls /\ "lost" \notin Calls
  BY DEF RateAssumption
<1>3. PICK v \in {Unchecked, [at |-> "granted", client |-> c]} :
        check' = [check EXCEPT ![q] = v]
  BY <1>1 DEF Refuse, Grant
<1>4. v \in Checks /\ v.at \in {"idle", "granted"}
  BY <1>3, CheckPlaces
<1>5. /\ check' \in [Calls -> Checks] /\ check'[q] = v
      /\ \A p \in Calls : p # q => check'[p] = check[p]
  BY <1>3, <1>4, CheckSteps
<1>6. RateTypeOK'
  BY <1>1, <1>5 DEF RateTypeOK, Sound, Checks
<1>7. Placed'
  <2>1. \A e \in entries' : IF e.at = "redis" THEN SharedLog ELSE ~onRedis'[e.at]
    <3> SUFFICES ASSUME NEW e \in entries'
                 PROVE  IF e.at = "redis" THEN SharedLog ELSE ~onRedis'[e.at]
      OBVIOUS
    <3>1. CASE e \in es
      <4>1. e.at \in Stores
        BY <3>1 DEF Sound, Entry
      <4> QED
        BY <3>1, <4>1 DEF Placed, Stores
    <3>2. CASE e.at = w
      BY <1>2, <3>2
    <3> QED
      BY <1>1, <3>1, <3>2
  <2>2. \A p \in Calls : check'[p].at \in {"asked", "rollback", "oldest"} => SharedLog
    BY <1>4, <1>5 DEF Placed
  <2> QED
    BY <2>1, <2>2 DEF Placed
<1>8. Logged'
  <2>1. Lost(entries') \subseteq Lost(es)
    BY <1>1 DEF Lost
  <2>2. Cardinality(Lost(entries')) <= rateErrors'
    BY <2>1, LostCount DEF Sound
  <2>3. \A e \in entries' : e.status \in Calls => e \in es
    BY <1>1, <1>2
  <2> QED
    BY <1>5, <2>2, <2>3 DEF Logged
<1>9. ChecksOne(q)
  <2>1. \A e \in entries : e.at = "redis" /\ e.status = "granted" => e \in entries'
    BY <1>1
  <2>2. ASSUME check'[q].at = "granted"
        PROVE  \E new \in entries' \ entries :
                 new.client = check'[q].client /\ new.status = "granted"
    <3>1. Grant(q, c)
      <4>1. ~Refuse(q)
        BY <1>5, <2>2, CheckPlaces, CheckSteps DEF Refuse
      <4> QED
        BY <1>1, <4>1
    <3>2. check'[q] = [at |-> "granted", client |-> c]
      BY <3>1, CheckPlaces, CheckSteps DEF Grant
    <3>3. ~(Refuse(q) /\ entries' = es)
      BY <1>5, <2>2, CheckPlaces, CheckSteps DEF Refuse
    <3>4. PICK new \in entries' \ es : new.at = w /\ new.client = c /\ new.status = "granted"
      BY <1>1, <3>3
    <3>5. new \notin entries
      BY <1>2, <3>4
    <3> QED
      BY <3>2, <3>4, <3>5
  <2> QED
    BY <1>5, <2>1, <2>2 DEF ChecksOne
<1> QED
  BY <1>1, <1>6, <1>7, <1>8, <1>9 DEF LimiterInv

LEMMA AskKeeps ==
  ASSUME RateAssumption, LimiterInv, NEW q \in Calls, NEW w \in Workers, NEW c \in Clients,
         Ask(q, w, c)
  PROVE  LimiterInv' /\ ChecksOne(q)
<1>1. CASE onRedis[w]
  <2> DEFINE v == [at |-> "asked", worker |-> w, client |-> c]
  <2>1. check' = [check EXCEPT ![q] = v] /\ UNCHANGED <<entries, order, onRedis, rateErrors>>
        /\ check[q] = Unchecked
    BY <1>1 DEF Ask, Goes
  <2>2. v \in Checks /\ v.at = "asked"
    BY CheckPlaces
  <2> HIDE DEF v
  <2>3. /\ check' \in [Calls -> Checks] /\ check'[q] = v
        /\ \A p \in Calls : p # q => check'[p] = check[p]
    BY <2>1, <2>2, CheckSteps DEF LimiterInv
  <2>4. RateTypeOK' /\ Sound(entries') /\ TableBounded'
    BY <2>1, <2>3 DEF LimiterInv, RateTypeOK, Checks, TableBounded
  <2>5. Placed'
    BY <1>1, <2>1, <2>3 DEF LimiterInv, Placed
  <2>6. Logged'
    BY <2>1, <2>3, CheckPlaces DEF LimiterInv, Logged
  <2>7. ChecksOne(q)
    BY <2>1, <2>2, <2>3 DEF ChecksOne
  <2> QED
    BY <2>4, <2>5, <2>6, <2>7 DEF LimiterInv
<1>2. CASE ~onRedis[w]
  <2>1. CheckMemory(q, w, c, entries) /\ UNCHANGED <<onRedis, rateErrors>> /\ check[q] = Unchecked
    BY <1>2 DEF Ask
  <2>2. \A e \in entries : IF e.at = "redis" THEN SharedLog ELSE e \in entries
    BY DEF LimiterInv, Placed
  <2>3. \A e \in entries : e.status \in Calls => e.status # q /\ check[e.status].at = "rollback"
    BY <2>1, CheckPlaces DEF LimiterInv, Logged
  <2> QED
    BY <1>2, <2>1, <2>2, <2>3, AfterMemory DEF LimiterInv, Logged, RateTypeOK
<1> QED
  BY <1>1, <1>2

\* A request that leaves Redis alone, or has its entry taken back.
LEMMA QuietKeeps ==
  ASSUME RateAssumption, LimiterInv, NEW q \in Calls, NEW v \in Checks,
         check' = [check EXCEPT ![q] = v], v.at \in {"idle", "oldest"},
         v.at = "oldest" => SharedLog,
         entries' \subseteq entries, \A e \in entries' : e.status # q,
         \A e \in entries : e.status = "granted" => e \in entries',
         UNCHANGED <<order, onRedis, rateErrors>>
  PROVE  LimiterInv' /\ ChecksOne(q)
<1>1. /\ check' \in [Calls -> Checks] /\ check'[q] = v
      /\ \A p \in Calls : p # q => check'[p] = check[p]
  BY CheckSteps DEF LimiterInv
<1>2. Sound(entries')
  BY SubsetSound DEF LimiterInv
<1>3. RateTypeOK' /\ TableBounded'
  BY <1>1, <1>2 DEF LimiterInv, RateTypeOK, Checks, TableBounded, Sound
<1>4. Placed'
  BY <1>1 DEF LimiterInv, Placed
<1>5. Logged'
  <2>1. Lost(entries') \subseteq Lost(entries) /\ rateErrors \in Int
    BY DEF Lost, LimiterInv, RateTypeOK
  <2>2. Cardinality(Lost(entries')) <= rateErrors'
    BY <2>1, LostCount DEF LimiterInv, Logged, Sound
  <2> QED
    BY <1>1, <2>2 DEF LimiterInv, Logged
<1>6. ChecksOne(q)
  BY <1>1 DEF ChecksOne
<1> QED
  BY <1>2, <1>3, <1>4, <1>5, <1>6 DEF LimiterInv

LEMMA OwnsNone ==
  ASSUME RateAssumption, LimiterInv, NEW q \in Calls, check[q].at # "rollback"
  PROVE  \A e \in entries : e.status # q
BY DEF LimiterInv, Logged

LEMMA DecidesQuietly ==
  ASSUME RateAssumption, LimiterInv, NEW q \in Calls,
         RollBack(q) \/ ReadOldest(q) \/ Dismiss(q)
  PROVE  LimiterInv' /\ ChecksOne(q)
<1>1. CASE RollBack(q)
  <2> DEFINE v == [at |-> "oldest", worker |-> check[q].worker, client |-> check[q].client]
  <2>1. /\ check[q].at = "rollback" /\ check' = [check EXCEPT ![q] = v]
        /\ entries' = {e \in entries : e.status # q} /\ UNCHANGED <<order, onRedis, rateErrors>>
    BY <1>1 DEF RollBack, Goes, RolledBack
  <2>2. v \in Checks /\ v.at = "oldest"
    BY <2>1, AskingTypes, CheckPlaces DEF LimiterInv
  <2>3. SharedLog
    BY <2>1 DEF LimiterInv, Placed
  <2>4. q # "granted"
    BY DEF RateAssumption
  <2> HIDE DEF v
  <2> QED
    BY <2>1, <2>2, <2>3, <2>4, QuietKeeps
<1>2. CASE ReadOldest(q) \/ Dismiss(q)
  <2>1. /\ check[q].at # "rollback" /\ check' = [check EXCEPT ![q] = Unchecked]
        /\ UNCHANGED <<entries, order, onRedis, rateErrors>>
    BY <1>2 DEF ReadOldest, Dismiss, Refuse
  <2> QED
    BY <2>1, OwnsNone, CheckPlaces, QuietKeeps
<1> QED
  BY <1>1, <1>2

LEMMA LagTypes == RateAssumption => Lags \subseteq 0..(Window - 1)
BY DEF RateAssumption, Lags

LEMMA CheckRedisKeeps ==
  ASSUME RateAssumption, LimiterInv, NEW q \in Calls, CheckRedis(q)
  PROVE  LimiterInv' /\ ChecksOne(q)
<1> DEFINE c == check[q].client
           count == Cardinality(Of(entries, "redis", c))
<1>1. check[q].at = "asked" /\ c \in Clients /\ check[q].worker \in Workers /\ SharedLog
  BY AskingTypes DEF CheckRedis, LimiterInv, Placed
<1>2. "redis" \in Stores /\ "granted" # q /\ "lost" # q /\ "granted" \notin Calls
  BY DEF Stores, RateAssumption
<1>3. PICK status \in {"granted", q}, age \in 0..(Window - 1), v \in Checks :
        /\ entries' = entries \cup {New(entries, "redis", c, status, age)}
        /\ check' = [check EXCEPT ![q] = v] /\ count < MaxMembers
        /\ status = "granted" => v = [at |-> "granted", client |-> c] /\ count + 1 <= RateLimit
        /\ status = q => v = [at |-> "rollback", worker |-> check[q].worker, client |-> c]
        /\ UNCHANGED <<order, onRedis, rateErrors>>
  <2>1. CASE count + 1 <= RateLimit
    BY <1>1, <1>2, <2>1, CheckPlaces, LagTypes DEF CheckRedis, Grant, WithinLimit, MembersLeft
  <2>2. CASE ~(count + 1 <= RateLimit)
    BY <1>1, <1>2, <2>2, CheckPlaces, LagTypes DEF CheckRedis, Goes, WithinLimit, MembersLeft
  <2> QED
    BY <2>1, <2>2
<1>4. v.at = IF status = "granted" THEN "granted" ELSE "rollback"
  BY <1>2, <1>3
<1>5. v.at = "granted" => v.client = c
  BY <1>3, <1>4
<1> DEFINE new == New(entries, "redis", c, status, age)
<1>6. /\ new \notin entries /\ Sound(entries \cup {new})
      /\ new.at = "redis" /\ new.client = c /\ new.status = status
  <2>1. count \in Nat
    BY Smaller DEF Of, Sound, LimiterInv
  <2>2. status = "granted" => count < RateLimit
    BY <1>3, <2>1 DEF RateAssumption
  <2> QED
    BY <1>1, <1>2, <1>3, <2>2, Adds DEF LimiterInv
<1>7. entries' = entries \cup {new}
  BY <1>3
<1> HIDE DEF new, c, count
<1>8. /\ check' \in [Calls -> Checks] /\ check'[q] = v
      /\ \A p \in Calls : p # q => check'[p] = check[p]
  BY <1>3, CheckSteps DEF LimiterInv
<1>9. RateTypeOK' /\ Sound(entries') /\ TableBounded'
  <2>1. Sound(entries') /\ entries' \subseteq Entry
    BY <1>6, <1>7 DEF Sound
  <2>2. RateTypeOK'
    BY <1>3, <1>8, <2>1 DEF LimiterInv, RateTypeOK, Checks
  <2>3. \A w \in Workers : w # "redis"
    BY DEF RateAssumption
  <2>4. TableBounded'
    BY <1>3, <1>6, <1>7, <2>3 DEF LimiterInv, TableBounded
  <2> QED
    BY <2>1, <2>2, <2>4
<1>10. Placed'
  BY <1>1, <1>3, <1>6, <1>7, <1>8 DEF LimiterInv, Placed
<1>11. Logged'
  <2>1. \A e \in entries : e.status # q
    BY <1>1, OwnsNone
  <2>2. Lost(entries') = Lost(entries)
    BY <1>2, <1>3, <1>6, <1>7 DEF Lost
  <2> QED
    BY <1>2, <1>3, <1>4, <1>6, <1>7, <1>8, <2>1, <2>2 DEF LimiterInv, Logged
<1>12. ChecksOne(q)
  BY <1>4, <1>5, <1>6, <1>7, <1>8 DEF ChecksOne
<1> QED
  BY <1>9, <1>10, <1>11, <1>12 DEF LimiterInv

\* What an error of Redis may leave in the log: nothing of the request but one
\* entry that is lost.
LEMMA AfterErrorSound ==
  ASSUME RateAssumption, LimiterInv, NEW q \in Calls,
         check[q].at \in {"asked", "rollback", "oldest"},
         check[q].at = "asked" => MembersLeft(check[q].client), NEW es \in AfterError(q)
  PROVE  /\ Sound(es)
         /\ \A e \in es : IF e.at = "redis" THEN SharedLog ELSE e \in entries
         /\ \A e \in entries : e.at # "redis" \/ e.status = "granted" => e \in es
         /\ \A e \in es : e.status \in Calls => e.status # q /\ e \in entries
         /\ Cardinality(Lost(es)) <= rateErrors + 1
<1> DEFINE c == check[q].client
<1>1. SharedLog /\ c \in Clients
  BY AskingTypes DEF LimiterInv, Placed
<1>2. /\ "granted" # q /\ "lost" # q /\ "granted" \notin Calls /\ "lost" \notin Calls
      /\ "redis" \in Stores
  BY DEF RateAssumption, Stores
<1>3. Sound(entries) /\ Cardinality(Lost(entries)) <= rateErrors /\ rateErrors \in Nat
  BY DEF LimiterInv, Logged, RateTypeOK, RateAssumption
<1>4. IsFiniteSet(Lost(entries)) /\ Cardinality(Lost(entries)) \in Nat
  BY <1>3, LostCount DEF Sound
<1>5. \A e \in entries : e.at # "redis" => e.status = "granted"
  BY <1>3 DEF Sound
<1>6. ASSUME es = entries, \A e \in entries : e.status # q
      PROVE  Cardinality(Lost(es)) <= rateErrors + 1
  BY <1>3, <1>4, <1>6
<1>7. CASE check[q].at = "asked"
  <2>0. PICK age \in 0..(Window - 1) :
          es = entries \/ es = entries \cup {New(entries, "redis", c, "lost", age)}
    <3>1. 0 \in 0..(Window - 1)
      BY DEF RateAssumption
    <3> QED
      BY <1>7, <3>1, LagTypes DEF AfterError
  <2> DEFINE new == New(entries, "redis", c, "lost", age)
  <2>1. es = entries \/ es = entries \cup {new}
    BY <2>0
  <2>2. \A e \in entries : e.status # q
    BY <1>7, OwnsNone
  <2>3. /\ Sound(entries \cup {new}) /\ new.at = "redis" /\ new.status = "lost"
    BY <1>1, <1>2, <1>3, <1>7, Adds DEF MembersLeft
  <2> HIDE DEF new
  <2>4. CASE es = entries
    BY <1>1, <1>3, <1>6, <2>2, <2>4
  <2>5. CASE es = entries \cup {new}
    <3>1. Lost(es) \subseteq Lost(entries) \cup {new}
      BY <2>5 DEF Lost
    <3>2. /\ IsFiniteSet(Lost(entries) \cup {new})
          /\ Cardinality(Lost(entries) \cup {new}) <= Cardinality(Lost(entries)) + 1
          /\ Cardinality(Lost(entries) \cup {new}) \in Nat
      BY <1>4, OneMore
    <3>3. /\ Cardinality(Lost(es)) <= Cardinality(Lost(entries) \cup {new})
          /\ Cardinality(Lost(es)) \in Nat
      BY <3>1, <3>2, Smaller
    <3>4. Cardinality(Lost(es)) <= rateErrors + 1
      BY <1>3, <1>4, <3>2, <3>3
    <3> QED
      BY <1>1, <1>2, <2>2, <2>3, <2>5, <3>4
  <2> QED
    BY <2>1, <2>4, <2>5
<1>8. CASE check[q].at = "rollback"
  <2> DEFINE fs == {Abandon(q, e) : e \in entries}
  <2>1. es = {e \in entries : e.status # q} \/ es = fs
    BY <1>8 DEF AfterError, RolledBack
  <2>2. CASE es = {e \in entries : e.status # q}
    <3>1. Sound(es)
      BY <1>3, <2>2, SubsetSound
    <3>2. Cardinality(Lost(es)) <= rateErrors + 1
      <4>1. Lost(es) \subseteq Lost(entries)
        BY <2>2 DEF Lost
      <4>2. Cardinality(Lost(es)) <= Cardinality(Lost(entries)) /\ Cardinality(Lost(es)) \in Nat
        BY <1>3, <4>1, LostCount DEF Sound
      <4> QED
        BY <1>3, <1>4, <4>2
    <3> QED
      BY <1>1, <1>2, <1>5, <2>2, <3>1, <3>2
  <2>3. CASE es = fs
    <3>1. Sound(es)
      <4>1. Sound(fs)
        BY <1>3, AbandonSound
      <4> QED
        BY <2>3, <4>1
    <3>2. ASSUME NEW e \in entries
          PROVE  /\ e.status # q => Abandon(q, e) = e
                 /\ e.status = q => /\ Abandon(q, e).status = "lost"
                                    /\ Abandon(q, e).at = "redis"
      BY <1>2, <1>3, <1>5 DEF Abandon, Sound, Entry
    <3>3. \A f \in es : \/ f \in entries /\ f.status # q
                        \/ /\ f.status = "lost" /\ f.at = "redis"
                           /\ \E e \in entries : e.status = q /\ f = Abandon(q, e)
      BY <2>3, <3>2
    <3>4. \A e \in entries : e.status # q => e \in es
      BY <2>3, <3>2
    <3> HIDE DEF fs
    <3>5. Cardinality(Lost(es)) <= rateErrors + 1
      <4>1. PICK x : Lost(es) \subseteq Lost(entries) \cup {x}
        <5>1. CASE \E e \in entries : e.status = q
          <6>1. PICK e0 \in entries : e0.status = q
            BY <5>1
          <6>2. \A e \in entries : e.status = q => e = e0
            BY <6>1 DEF LimiterInv, Logged
          <6>3. Lost(es) \subseteq Lost(entries) \cup {Abandon(q, e0)}
            BY <3>3, <6>2 DEF Lost
          <6> QED
            BY <6>3
        <5>2. CASE ~\E e \in entries : e.status = q
          <6>1. Lost(es) \subseteq Lost(entries) \cup {q}
            BY <3>3, <5>2 DEF Lost
          <6> QED
            BY <6>1
        <5> QED
          BY <5>1, <5>2
      <4>2. /\ IsFiniteSet(Lost(entries) \cup {x})
            /\ Cardinality(Lost(entries) \cup {x}) <= Cardinality(Lost(entries)) + 1
            /\ Cardinality(Lost(entries) \cup {x}) \in Nat
        BY <1>4, OneMore
      <4>3. /\ Cardinality(Lost(es)) <= Cardinality(Lost(entries) \cup {x})
            /\ Cardinality(Lost(es)) \in Nat
        BY <4>1, <4>2, Smaller
      <4> QED
        BY <1>3, <1>4, <4>2, <4>3
    <3> QED
      BY <1>1, <1>2, <1>5, <3>1, <3>3, <3>4, <3>5
  <2> QED
    BY <2>1, <2>2, <2>3
<1>9. CASE check[q].at = "oldest"
  <2>1. es = entries
    BY <1>9 DEF AfterError
  <2>2. \A e \in entries : e.status # q
    BY <1>9, OwnsNone
  <2> QED
    BY <1>1, <1>3, <1>6, <2>1, <2>2
<1> QED
  BY <1>7, <1>8, <1>9

LEMMA RedisFailsKeeps ==
  ASSUME RateAssumption, LimiterInv, NEW q \in Calls, RedisFails(q)
  PROVE  LimiterInv' /\ ChecksOne(q)
<1> DEFINE w == check[q].worker
           c == check[q].client
<1>1. /\ check[q].at \in {"asked", "rollback", "oldest"}
      /\ check[q].at = "asked" => MembersLeft(check[q].client)
      /\ rateErrors < MaxRateErrors /\ rateErrors' = rateErrors + 1
      /\ onRedis' = [onRedis EXCEPT ![w] = FALSE]
  BY DEF RedisFails, AfterFailure
<1>2. w \in Workers /\ c \in Clients
  BY <1>1, AskingTypes DEF LimiterInv
<1>3. PICK es \in AfterError(q) : CheckMemory(q, w, c, es)
  BY DEF RedisFails
<1>4. /\ Sound(es)
      /\ \A e \in es : IF e.at = "redis" THEN SharedLog ELSE e \in entries
      /\ \A e \in entries : e.at # "redis" \/ e.status = "granted" => e \in es
      /\ \A e \in es : e.status \in Calls => e.status # q /\ e \in entries
      /\ Cardinality(Lost(es)) <= rateErrors + 1
  BY <1>1, AfterErrorSound
<1> HIDE DEF w, c
<1>5. \A e \in es : e.status \in Calls => e.status # q /\ check[e.status].at = "rollback"
  BY <1>4 DEF LimiterInv, Logged
<1>6. \A e, f \in es : e.status \in Calls /\ e.status = f.status => e = f
  BY <1>4 DEF LimiterInv, Logged
<1>7. /\ onRedis' \in [Workers -> BOOLEAN] /\ ~onRedis'[w]
      /\ \A v \in Workers : onRedis'[v] => onRedis[v]
  BY <1>1, <1>2 DEF LimiterInv, RateTypeOK
<1>8. rateErrors' \in 0..MaxRateErrors /\ Cardinality(Lost(es)) <= rateErrors'
  BY <1>1, <1>4 DEF LimiterInv, RateTypeOK, RateAssumption
<1>9. RateTypeOK /\ TableBounded /\ Placed
  BY DEF LimiterInv
<1> QED
  BY <1>2, <1>3, <1>4, <1>5, <1>6, <1>7, <1>8, <1>9, AfterMemory

LEMMA TickKeeps ==
  ASSUME RateAssumption, LimiterInv, RateTick
  PROVE  LimiterInv'
<1> DEFINE fs == {Older(e) : e \in {f \in entries : f.age + 1 < Window}}
           back == [f \in fs |-> CHOOSE e \in entries : Older(e) = f]
<1>1. entries' = fs /\ UNCHANGED <<order, onRedis, check, rateErrors>>
  BY DEF RateTick
<1>2. /\ fs \subseteq Entry /\ Sound(fs) /\ LeftOf(fs, entries, back)
      /\ \A f \in fs : f.status = back[f].status
  BY TickSound DEF LimiterInv
<1> HIDE DEF fs, back
<1>3. /\ \A f \in fs : /\ back[f] \in entries /\ f.at = back[f].at /\ f.client = back[f].client
                       /\ f.status = back[f].status
      /\ \A f, h \in fs : back[f] = back[h] => f = h
  BY <1>2 DEF LeftOf
<1>4. RateTypeOK' /\ Placed' /\ TableBounded'
  BY <1>1, <1>2, <1>3 DEF LimiterInv, RateTypeOK, Placed, TableBounded
<1>5. Cardinality(Lost(fs)) <= rateErrors
  <2> DEFINE S == Lost(fs)
             T == Lost(entries)
             g == [f \in S |-> back[f]]
  <2>1. IsFiniteSet(T) /\ Cardinality(T) \in Nat /\ Cardinality(T) <= rateErrors /\ rateErrors \in Int
    BY Smaller DEF Lost, Sound, LimiterInv, Logged, RateTypeOK
  <2>2. g \in [S -> T] /\ \A x, y \in S : g[x] = g[y] => x = y
    BY <1>3 DEF Lost
  <2> HIDE DEF S, T, g
  <2>3. IsFiniteSet(S) /\ Cardinality(S) <= Cardinality(T)
    BY <2>1, <2>2, OneToOne
  <2>4. Cardinality(S) \in Nat
    BY <2>3, FS_CardinalityType
  <2>5. Cardinality(S) <= rateErrors
    BY <2>1, <2>3, <2>4
  <2> QED
    BY <2>5 DEF S
<1>6. Logged'
  BY <1>1, <1>3, <1>5 DEF LimiterInv, Logged
<1> QED
  BY <1>1, <1>2, <1>4, <1>6 DEF LimiterInv

LEMMA LimiterInit == RateAssumption /\ RateInit => LimiterInv
<1> SUFFICES ASSUME RateAssumption, RateInit PROVE LimiterInv
  OBVIOUS
<1>1. RateTypeOK
  BY CheckPlaces DEF RateInit, RateTypeOK, RateAssumption, Checks
<1>2. Sound(entries)
  <2>1. entries = {} /\ IsFiniteSet({}) /\ Cardinality({}) = 0 /\ 0 <= RateLimit
    BY FS_EmptySet DEF RateInit, RateAssumption
  <2>2. \A at \in Stores, c \in Clients : Of(LetThrough(entries), at, c) = {}
    BY <2>1 DEF Of, LetThrough
  <2> QED
    BY <2>1, <2>2 DEF Sound
<1>3. TableBounded
  BY DEF RateInit, TableBounded, RateAssumption
<1>4. Placed
  BY CheckPlaces DEF RateInit, Placed
<1>5. Logged
  <2>1. Lost(entries) = {} /\ entries = {} /\ rateErrors = 0
    BY DEF RateInit, Lost
  <2>2. Cardinality({}) = 0
    BY FS_EmptySet
  <2> QED
    BY <2>1, <2>2 DEF Logged
<1> QED
  BY <1>1, <1>2, <1>3, <1>4, <1>5 DEF LimiterInv

\* Every step a request takes in the limiter.
LEMMA StepChecks ==
  ASSUME RateAssumption, LimiterInv, NEW q \in Calls, Asks(q) \/ Decide(q) \/ Dismiss(q)
  PROVE  LimiterInv' /\ ChecksOne(q)
BY AskKeeps, CheckRedisKeeps, DecidesQuietly, RedisFailsKeeps DEF Asks, Decide

LEMMA StepKeepsLimiter == RateAssumption /\ LimiterInv /\ [RateNext]_rateVars => LimiterInv'
<1> SUFFICES ASSUME RateAssumption, LimiterInv, [RateNext]_rateVars PROVE LimiterInv'
  OBVIOUS
<1>1. CASE UNCHANGED rateVars
  BY <1>1 DEF rateVars, LimiterInv, RateTypeOK, TableBounded, Placed, Logged
<1>2. CASE RateNext
  BY <1>2, StepChecks, TickKeeps DEF RateNext
<1> QED
  BY <1>1, <1>2

-----------------------------------------------------------------------------
(* What the limiter promises                                               *)

\* The elements of a set of at most n can be numbered by 1..n.
LEMMA Numbered ==
  ASSUME NEW S, IsFiniteSet(S), NEW n \in Nat, Cardinality(S) <= n
  PROVE  \E g \in [S -> 1..n] : \A x, y \in S : g[x] = g[y] => x = y
<1> DEFINE m == Cardinality(S)
<1>1. m \in Nat /\ ExistsBijection(1..m, S)
  BY FS_CardinalityType
<1>2. PICK b \in [1..m -> S] : \A s \in S : \E i \in 1..m : b[i] = s
  BY <1>1 DEF ExistsBijection, Bijection, Surjection
<1> DEFINE g == [s \in S |-> CHOOSE i \in 1..m : b[i] = s]
<1>3. \A s \in S : g[s] \in 1..m /\ b[g[s]] = s
  BY <1>2
<1> HIDE DEF g, m
<1>4. \A s \in S : g[s] \in 1..n
  BY <1>1, <1>3 DEF m
<1>5. g \in [S -> 1..n]
  BY <1>4 DEF g
<1>6. \A x, y \in S : g[x] = g[y] => x = y
  BY <1>3
<1> QED
  BY <1>5, <1>6

\* A client has, in every store that counts it, at most the limit.
LEMMA StoresCount ==
  ASSUME RateAssumption, LimiterInv, NEW c \in Clients
  PROVE  LET let == {e \in entries : e.client = c /\ e.status = "granted"}
         IN  /\ IsFiniteSet(let) /\ Cardinality(let) \in Nat
             /\ Cardinality(let) <=
                  RateLimit * (Cardinality(Fallen) + (IF SharedLog THEN 1 ELSE 0))
<1> DEFINE let == {e \in entries : e.client = c /\ e.status = "granted"}
           places == Fallen \cup (IF SharedLog THEN {"redis"} ELSE {})
           in(at) == Of(LetThrough(entries), at, c)
           n == Cardinality(Fallen) + (IF SharedLog THEN 1 ELSE 0)
<1>1. IsFiniteSet(let) /\ Cardinality(let) \in Nat
  BY Smaller DEF LimiterInv, Sound
<1>2. IsFiniteSet(places) /\ Cardinality(places) = n /\ n \in Nat
  <2>1. IsFiniteSet(Fallen) /\ Cardinality(Fallen) \in Nat /\ "redis" \notin Fallen
    <3>1. Fallen \subseteq Workers /\ IsFiniteSet(Workers) /\ "redis" \notin Workers
      BY DEF RateAssumption, Fallen
    <3> QED
      BY <3>1, Smaller
  <2>2. CASE SharedLog
    <3>1. places = Fallen \cup {"redis"} /\ n = Cardinality(Fallen) + 1
      BY <2>2
    <3> QED
      BY <2>1, <3>1, FS_AddElement
  <2>3. CASE ~SharedLog
    <3>1. places = Fallen /\ n = Cardinality(Fallen)
      BY <2>1, <2>3
    <3> QED
      BY <2>1, <3>1
  <2> QED
    BY <2>2, <2>3
<1>3. \A e \in let : e.at \in places /\ e.at \in Stores /\ e \in in(e.at)
  <2> SUFFICES ASSUME NEW e \in let PROVE e.at \in places /\ e.at \in Stores /\ e \in in(e.at)
    OBVIOUS
  <2>1. e.at \in Stores
    BY DEF LimiterInv, Sound, Entry
  <2> QED
    BY <2>1 DEF LimiterInv, Placed, Fallen, Stores, Of, LetThrough
<1>4. RateLimit \in Nat /\ IsFiniteSet(1..RateLimit) /\ Cardinality(1..RateLimit) = RateLimit
  BY FS_Interval DEF RateAssumption
<1>5. \A at \in Stores :
        \E g \in [in(at) -> 1..RateLimit] : \A x, y \in in(at) : g[x] = g[y] => x = y
  <2> SUFFICES ASSUME NEW at \in Stores
               PROVE  \E g \in [in(at) -> 1..RateLimit] : \A x, y \in in(at) : g[x] = g[y] => x = y
    OBVIOUS
  <2>1. IsFiniteSet(in(at)) /\ Cardinality(in(at)) <= RateLimit
    BY Smaller DEF LimiterInv, Sound, Of, LetThrough
  <2> QED
    BY <1>4, <2>1, Numbered
<1> DEFINE rank == [at \in Stores |->
             CHOOSE g \in [in(at) -> 1..RateLimit] : \A x, y \in in(at) : g[x] = g[y] => x = y]
<1>6. \A at \in Stores : /\ rank[at] \in [in(at) -> 1..RateLimit]
                         /\ \A x, y \in in(at) : rank[at][x] = rank[at][y] => x = y
  BY <1>5
<1> HIDE DEF rank, in, let, places
<1> DEFINE f == [e \in let |-> <<e.at, rank[e.at][e]>>]
<1>7. f \in [let -> places \X (1..RateLimit)]
  <2>1. \A e \in let : e.at \in places /\ rank[e.at][e] \in 1..RateLimit
    BY <1>3, <1>6
  <2> QED
    BY <2>1
<1>8. ASSUME NEW x \in let, NEW y \in let, f[x] = f[y] PROVE x = y
  <2>1. x.at = y.at /\ rank[x.at][x] = rank[y.at][y]
    BY <1>8
  <2> QED
    BY <1>3, <1>6, <2>1
<1>9. /\ IsFiniteSet(places \X (1..RateLimit))
      /\ Cardinality(places \X (1..RateLimit)) = n * RateLimit
  <2> DEFINE slots == 1..RateLimit
  <2>1. IsFiniteSet(slots) /\ Cardinality(slots) = RateLimit
    BY <1>4
  <2> HIDE DEF slots, n
  <2>2. /\ IsFiniteSet(places \X slots)
        /\ Cardinality(places \X slots) = Cardinality(places) * Cardinality(slots)
    BY <1>2, <2>1, FS_Product
  <2>3. /\ IsFiniteSet(places \X slots)
        /\ Cardinality(places \X slots) = n * RateLimit
    BY <1>2, <2>1, <2>2
  <2> QED
    BY <2>3 DEF slots
<1>10. Cardinality(let) <= n * RateLimit
  <2> DEFINE pairs == places \X (1..RateLimit)
  <2>1. /\ IsFiniteSet(pairs) /\ Cardinality(pairs) = n * RateLimit
        /\ f \in [let -> pairs] /\ \A x, y \in let : f[x] = f[y] => x = y
    BY <1>7, <1>8, <1>9
  <2> HIDE DEF pairs, f
  <2> QED
    BY <2>1, OneToOne
<1>11. n * RateLimit = RateLimit * n
  BY <1>2, <1>4
<1> QED
  BY <1>1, <1>10, <1>11 DEF let

LEMMA LimiterBounded == RateAssumption /\ LimiterInv => RateBounded
BY StoresCount DEF RateBounded

\* Entries in the log that were not let through are in a request that is about
\* to take them back, or lost.
LEMMA LimiterAccounted == RateAssumption /\ LimiterInv => LogAccounted
<1> SUFFICES ASSUME RateAssumption, LimiterInv PROVE LogAccounted
  OBVIOUS
<1> DEFINE refused == {e \in entries : e.at = "redis" /\ e.status # "granted"}
           owned == {e \in entries : e.status \in Calls}
           lost == Lost(entries)
           waiting == {q \in Calls : check[q].at = "rollback"}
           owner == [e \in owned |-> e.status]
<1>1. refused \subseteq lost \cup owned
  BY DEF LimiterInv, Sound, Entry, Lost
<1>2. /\ IsFiniteSet(lost) /\ IsFiniteSet(owned) /\ IsFiniteSet(waiting)
      /\ Cardinality(lost) \in Nat /\ Cardinality(owned) \in Nat /\ Cardinality(waiting) \in Nat
  BY Smaller DEF LimiterInv, Sound, Lost, RateAssumption
<1>3. Cardinality(owned) <= Cardinality(waiting)
  <2>1. owner \in [owned -> waiting] /\ \A x, y \in owned : owner[x] = owner[y] => x = y
    BY DEF LimiterInv, Logged
  <2> HIDE DEF owner, owned, waiting
  <2> QED
    BY <1>2, <2>1, OneToOne
<1>4. Cardinality(lost) <= rateErrors /\ rateErrors \in Nat
  BY DEF LimiterInv, Logged, RateTypeOK, RateAssumption
<1> HIDE DEF refused, owned, lost, waiting
<1>5. /\ IsFiniteSet(lost \cup owned)
      /\ Cardinality(lost \cup owned)
           = Cardinality(lost) + Cardinality(owned) - Cardinality(lost \cap owned)
  BY <1>2, FS_Union
<1>6. Cardinality(lost \cap owned) \in Nat
  BY <1>2, Smaller
<1>7. Cardinality(refused) <= Cardinality(lost \cup owned) /\ Cardinality(refused) \in Nat
  BY <1>1, <1>5, Smaller
<1>8. Cardinality(refused) <= Cardinality(waiting) + rateErrors
  BY <1>2, <1>3, <1>4, <1>5, <1>6, <1>7
<1> QED
  BY <1>8 DEF LogAccounted, refused, waiting

LEMMA LimiterLimits == LimiterInv => LimitedPerStore
<1> SUFFICES ASSUME LimiterInv, NEW at \in Stores, NEW c \in Clients
             PROVE  Cardinality(Granted(at, c)) <= RateLimit
  BY DEF LimitedPerStore
<1>1. Granted(at, c) = Of(LetThrough(entries), at, c)
  BY DEF Granted, Of, LetThrough
<1> QED
  BY <1>1 DEF LimiterInv, Sound

\* The limiter alone: the invariant everything else follows from ...
THEOREM LimiterInvariant == RateSpec => []LimiterInv
BY RateAssumption, LimiterInit, StepKeepsLimiter, PTL DEF RateSpec

\* ... and no log or window lets a client through more often than the limit.
THEOREM EachStoreLimits == RateSpec => []LimitedPerStore
BY LimiterInvariant, LimiterLimits, PTL

-----------------------------------------------------------------------------
(* The routes behind the limiter                                           *)

\* The limiter does in the composition what it does alone.
LEMMA ApiRates == [ApiNext]_apiVars => [RateNext]_rateVars
<1> SUFFICES ASSUME [ApiNext]_apiVars PROVE [RateNext]_rateVars
  OBVIOUS
<1>1. Calls = Requests
  BY ApiAssumption
<1>2. ASSUME NEW q \in Requests, Depend(q) \/ Serve(q) \/ Run(q) PROVE [RateNext]_rateVars
  BY <1>1, <1>2 DEF Depend, Serve, Run, RateNext
<1>3. CASE Pass
  BY <1>3 DEF Pass, RateNext
<1> QED
  BY <1>2, <1>3 DEF ApiNext, apiVars, rateVars

\* And so do the handlers: the limiter names devices.
LEMMA ApiFavs == RateTypeOK /\ [ApiNext]_apiVars => [FavNext]_favVars
<1> SUFFICES ASSUME RateTypeOK, [ApiNext]_apiVars PROVE [FavNext]_favVars
  OBVIOUS
<1>1. ASSUME NEW q \in Requests, Serve(q) PROVE FavNext
  <2>1. check[q].client \in Devices
    BY <1>1, AskingTypes, ApiAssumption DEF Serve
  <2> QED
    BY <1>1, <2>1 DEF Serve, FavNext, Begin
<1>2. ASSUME NEW q \in Requests, Run(q) PROVE FavNext
  BY <1>2 DEF Run, FavNext
<1>3. CASE Pass \/ \E q \in Requests : Depend(q)
  BY <1>3 DEF Pass, Depend
<1> QED
  BY <1>1, <1>2, <1>3 DEF ApiNext, apiVars

ApiTypes == LimiterInv /\ FinInv

LEMMA ApiStart == ApiInit => ApiTypes
BY RateAssumption, LimiterInit, InitInv DEF ApiInit, ApiTypes, FinInv

LEMMA ApiSteps == ApiTypes /\ [ApiNext]_apiVars => ApiTypes'
BY RateAssumption, ApiRates, ApiFavs, StepKeepsLimiter, StepFinite DEF ApiTypes, LimiterInv

\* Both components keep their invariants behind one another ...
THEOREM ApiInvariant == ApiSpec => []ApiTypes
BY ApiStart, ApiSteps, PTL DEF ApiSpec

\* ... and their specifications: what is proved of the limiter alone, and of the
\* saved places without one, holds of the two together.
THEOREM ApiKeepsBoth == ApiSpec => RateSpec /\ FavSpec
<1>1. ApiInit => RateInit /\ FavInit
  BY DEF ApiInit
<1>2. ApiTypes /\ [ApiNext]_apiVars => [RateNext]_rateVars /\ [FavNext]_favVars
  BY ApiRates, ApiFavs DEF ApiTypes, LimiterInv
<1> QED
  BY <1>1, <1>2, ApiInvariant, PTL DEF ApiSpec, RateSpec, FavSpec

\* _windows is bounded, whatever the clients do: RateInv.
THEOREM LimiterTypes == ApiSpec => []RateInv
<1>1. ApiTypes => RateInv
  BY DEF ApiTypes, LimiterInv, RateInv
<1> QED
  BY <1>1, ApiInvariant, PTL

\* One limit for all workers that are on Redis, one more for each worker that
\* has fallen back to memory.
THEOREM LimitsAddUp == ApiSpec => []RateBounded
<1>1. ApiTypes => RateBounded
  BY RateAssumption, LimiterBounded DEF ApiTypes
<1> QED
  BY <1>1, ApiInvariant, PTL

\* A refused request weighs on the log of Redis until it is rolled back, and no
\* longer unless Redis failed meanwhile.
THEOREM RefusedAreTakenBack == ApiSpec => []LogAccounted
<1>1. ApiTypes => LogAccounted
  BY RateAssumption, LimiterAccounted DEF ApiTypes
<1> QED
  BY <1>1, ApiInvariant, PTL

-----------------------------------------------------------------------------
(* How far the limit of saved places can be overrun behind the limiter     *)

Cap == RateLimit * (Cardinality(Fallen) + 1)

\* A handler runs for the device that was let through ...
ServesGranted ==
  \A q \in Requests : handler[q] # Resting =>
    check[q].at = "granted" /\ handler[q].device = check[q].client

\* ... which still has an entry for each of its requests, unless it has
\* happened that it had not.
EntryEach ==
  ~uncounted => \A d \in Devices : Cardinality(InService(d)) <= Cardinality(CountedFor(d))

\* What is stored, and what is cleared to be.
Reach(d) == Cardinality(RowsOf(d)) + Cardinality(Inserting(d)) <= FavLimit + Cap - 1
WithinCap == ~uncounted => \A d \in Devices : Reach(d)

BurstInv == ServesGranted /\ EntryEach /\ WithinCap

LEMMA Times ==
  ASSUME NEW k \in Nat, NEW a \in Nat, NEW b \in Nat, a <= b
  PROVE  k * a <= k * b
OBVIOUS

LEMMA Counted ==
  ASSUME ApiTypes, NEW d
  PROVE  /\ IsFiniteSet(InService(d)) /\ Cardinality(InService(d)) \in Nat
         /\ IsFiniteSet(CountedFor(d)) /\ Cardinality(CountedFor(d)) \in Nat
         /\ IsFiniteSet(Inserting(d)) /\ Cardinality(Inserting(d)) \in Nat
         /\ IsFiniteSet(RowsOf(d)) /\ Cardinality(RowsOf(d)) \in Nat
<1>1. IsFiniteSet(entries) /\ IsFiniteSet(favorites) /\ IsFiniteSet(Requests)
  BY FavAssumption DEF ApiTypes, LimiterInv, Sound, FinInv
<1>2. /\ InService(d) \subseteq Requests /\ CountedFor(d) \subseteq entries
      /\ Inserting(d) \subseteq Requests /\ RowsOf(d) \subseteq favorites
  BY DEF InService, CountedFor, Inserting, RowsOf
<1> QED
  BY <1>1, <1>2, Smaller

\* Workers that have fallen back to memory stay there, so the cap only grows.
LEMMA CapGrows ==
  ASSUME ApiTypes, ApiTypes', [ApiNext]_apiVars
  PROVE  Cap \in Nat /\ Cap' \in Nat /\ Cap <= Cap' /\ Cap >= 1
<1>1. [RateNext]_rateVars
  BY ApiRates
<1>2. \A w \in Workers : onRedis'[w] => onRedis[w]
  BY <1>1 DEF ApiTypes, LimiterInv, RateTypeOK, RateNext, rateVars, RateTick, Asks, Ask, Decide,
              CheckRedis, RollBack, ReadOldest, RedisFails, AfterFailure, Dismiss
<1>3. /\ Fallen \subseteq Fallen' /\ Fallen' \subseteq Workers
      /\ IsFiniteSet(Workers) /\ RateLimit \in Nat \ {0}
  BY <1>2, RateAssumption DEF Fallen
<1>4. /\ IsFiniteSet(Fallen') /\ Cardinality(Fallen) \in Nat /\ Cardinality(Fallen') \in Nat
      /\ Cardinality(Fallen) <= Cardinality(Fallen')
  <2>1. IsFiniteSet(Fallen') /\ Cardinality(Fallen') \in Nat
    BY <1>3, Smaller
  <2> QED
    BY <1>3, <2>1, Smaller
<1> DEFINE a == Cardinality(Fallen) + 1
           b == Cardinality(Fallen') + 1
<1>5. a \in Nat /\ b \in Nat /\ a <= b /\ 1 <= a
  BY <1>4
<1>6. Cap = RateLimit * a /\ Cap' = RateLimit * b
  BY DEF Cap
<1> HIDE DEF a, b
<1>7. RateLimit * a <= RateLimit * b /\ RateLimit * 1 <= RateLimit * a
  BY <1>3, <1>5, Times
<1> QED
  BY <1>3, <1>5, <1>6, <1>7

\* The requests that may be served are within the cap.
ServesWithinCap ==
  ApiTypes /\ EntryEach /\ ~uncounted => \A d \in Devices : Cardinality(InService(d)) <= Cap

LEMMA ServedWithinCap == ServesWithinCap
<1> SUFFICES ASSUME ApiTypes, EntryEach, ~uncounted, NEW d \in Devices
             PROVE  Cardinality(InService(d)) <= Cap
  BY DEF ServesWithinCap
<1> DEFINE n == Cardinality(Fallen)
<1>1. n \in Nat /\ RateLimit \in Nat
  <2>1. Fallen \subseteq Workers /\ IsFiniteSet(Workers) /\ RateLimit \in Nat
    BY RateAssumption DEF Fallen
  <2> QED
    BY <2>1, Smaller
<1>2. RateLimit * (n + (IF SharedLog THEN 1 ELSE 0)) <= RateLimit * (n + 1)
  <2>1. \A m \in {n, n + 1} : RateLimit * m <= RateLimit * (n + 1)
    BY <1>1, Times
  <2> QED
    BY <1>1, <2>1
<1>3. Cardinality(CountedFor(d)) <= RateLimit * (n + (IF SharedLog THEN 1 ELSE 0))
  BY StoresCount, RateAssumption, ApiAssumption DEF ApiTypes, CountedFor
<1>4. Cardinality(InService(d)) <= Cardinality(CountedFor(d))
  BY DEF EntryEach
<1>5. Cap = RateLimit * (n + 1) /\ Cap \in Nat
  BY <1>1 DEF Cap
<1> HIDE DEF n
<1>6. RateLimit * (n + (IF SharedLog THEN 1 ELSE 0)) \in Nat
  BY <1>1
<1> QED
  BY <1>2, <1>3, <1>4, <1>5, <1>6, Counted

LEMMA ServedWithinCapThen == ServesWithinCap'
BY ServedWithinCap, PTL

\* A handler that is not done keeps its device; one that is leaves the others.
LEMMA HandlerKeeps ==
  ASSUME FavTypeOK, NEW q \in Requests, Handle(q)
  PROVE  /\ handler[q] # Resting
         /\ \A p \in Requests : p # q => handler'[p] = handler[p]
         /\ handler'[q] # Resting => handler'[q].device = handler[q].device
<1>1. handler \in [Requests -> {Resting} \cup Saving \cup Removing]
  BY DEF FavTypeOK
<1>2. handler[q] # Resting
  BY DEF Handle, Count, InsertRow, FindByStation, FindByCoords, DeleteRow, StatementFails, Resting
<1>3. CASE Done(q)
  <2>1. handler'[q] = Resting /\ \A p \in Requests : p # q => handler'[p] = handler[p]
    BY <1>1, <1>3 DEF Done
  <2> QED
    BY <1>2, <2>1
<1>4. CASE ~Done(q)
  <2>1. handler[q].at \in {"count", "insert", "station", "coords"}
    BY <1>4 DEF Handle, Count, InsertRow, FindByStation, FindByCoords, DeleteRow, StatementFails
  <2>2. PICK place, ids : handler' = [handler EXCEPT ![q].at = place, ![q].blockers = ids]
    <3>1. CASE \E place : Goto(q, place)
      <4>1. PICK place : Goto(q, place)
        BY <3>1
      <4>2. handler[q] = [handler[q] EXCEPT !.blockers = handler[q].blockers]
        BY <2>1, AtPost DEF Saving
      <4>3. handler' = [handler EXCEPT ![q].at = place, ![q].blockers = handler[q].blockers]
        BY <1>1, <2>1, <4>1, AtPost DEF Goto, Saving
      <4> QED
        BY <4>3
    <3>2. CASE ~\E place : Goto(q, place)
      BY <1>4, <3>2 DEF Handle, Count, InsertRow, FindByStation, FindByCoords, DeleteRow,
                        StatementFails
    <3> QED
      BY <3>1, <3>2
  <2>3. handler[q] \in Saving
    BY <2>1, AtPost
  <2>4. handler'[q].device = handler[q].device
    BY <1>1, <2>2, <2>3 DEF Saving
  <2> QED
    BY <1>1, <1>2, <2>2, <2>4
<1> QED
  BY <1>2, <1>3, <1>4

LEMMA StepServes ==
  ASSUME ApiTypes, ServesGranted, [ApiNext]_apiVars
  PROVE  ServesGranted'
<1>0. FavTypeOK /\ Calls = Requests /\ check \in [Calls -> Checks]
      /\ handler \in [Requests -> {Resting} \cup Saving \cup Removing]
  BY ApiAssumption DEF ApiTypes, FinInv, FavInv, FavTypeOK, LimiterInv, RateTypeOK, Checks
<1>1. CASE UNCHANGED <<handler, check>>
  BY <1>1 DEF ServesGranted
<1>2. ASSUME NEW q \in Requests, Depend(q) PROVE ServesGranted'
  <2>1. ChecksOne(q)
    BY <1>0, <1>2, RateAssumption, StepChecks DEF Depend, ApiTypes
  <2>2. handler[q] = Resting
    BY <1>2, CheckPlaces DEF Depend, Asks, Ask, Decide, CheckRedis, RollBack, ReadOldest, RedisFails,
                             ServesGranted
  <2>3. handler' = handler
    BY <1>2 DEF Depend, favVars
  <2> QED
    BY <1>0, <2>1, <2>2, <2>3 DEF ChecksOne, ServesGranted
<1>3. ASSUME NEW q \in Requests, Serve(q) PROVE ServesGranted'
  <2>1. check[q].at = "granted" /\ check' = check
    BY <1>3 DEF Serve, rateVars
  <2>2. \E h : handler' = [handler EXCEPT ![q] = h] /\ h.device = check[q].client
    <3>1. ASSUME NEW w \in Wishes, Save(q, check[q].client, w)
          PROVE  \E h : handler' = [handler EXCEPT ![q] = h] /\ h.device = check[q].client
      <4> DEFINE h == [at |-> "count", device |-> check[q].client, wish |-> w, blockers |-> {}]
      <4>1. handler' = [handler EXCEPT ![q] = h] /\ h.device = check[q].client
        BY <3>1 DEF Save
      <4> QED
        BY <4>1
    <3>2. ASSUME NEW id \in Ids, Remove(q, check[q].client, id)
          PROVE  \E h : handler' = [handler EXCEPT ![q] = h] /\ h.device = check[q].client
      <4> DEFINE h == [at |-> "delete", device |-> check[q].client, row |-> id]
      <4>1. handler' = [handler EXCEPT ![q] = h] /\ h.device = check[q].client
        BY <3>2 DEF Remove
      <4> QED
        BY <4>1
    <3> QED
      BY <1>3, <3>1, <3>2 DEF Serve
  <2>3. PICK h : handler' = [handler EXCEPT ![q] = h] /\ h.device = check[q].client
    BY <2>2
  <2> QED
    BY <1>0, <2>1, <2>3 DEF ServesGranted
<1>4. ASSUME NEW q \in Requests, Run(q) PROVE ServesGranted'
  <2>1. /\ handler[q] # Resting
        /\ \A p \in Requests : p # q => handler'[p] = handler[p]
        /\ handler'[q] # Resting => handler'[q].device = handler[q].device
    BY <1>0, <1>4, HandlerKeeps DEF Run
  <2>2. CASE handler'[q] = Resting
    <3>1. \A p \in Requests : p # q => check'[p] = check[p]
      BY <1>0, <1>4, <2>2 DEF Run, Dismiss
    <3> QED
      BY <2>1, <2>2, <3>1 DEF ServesGranted
  <2>3. CASE handler'[q] # Resting
    <3>1. check' = check
      BY <1>4, <2>3 DEF Run, rateVars
    <3> QED
      BY <2>1, <3>1 DEF ServesGranted
  <2> QED
    BY <2>2, <2>3
<1>5. CASE Pass
  BY <1>1, <1>5 DEF Pass, RateTick, favVars
<1> QED
  BY <1>1, <1>2, <1>3, <1>4, <1>5 DEF ApiNext, apiVars, favVars, rateVars

\* Whether a device has more requests in service than entries is what uncounted
\* keeps an account of.
LEMMA StepEntries ==
  ASSUME ApiTypes, ApiTypes', EntryEach, [ApiNext]_apiVars
  PROVE  EntryEach'
<1>1. CASE UNCHANGED apiVars
  BY <1>1 DEF apiVars, rateVars, EntryEach, InService, CountedFor
<1>2. CASE ApiNext
  <2> SUFFICES ASSUME ~uncounted', NEW d \in Devices
               PROVE  Cardinality(InService(d)') <= Cardinality(CountedFor(d)')
    BY DEF EntryEach
  <2>1. ~(Cardinality(InService(d)') > Cardinality(CountedFor(d)'))
    BY <1>2 DEF ApiNext
  <2>2. IsFiniteSet(entries') /\ IsFiniteSet(Requests)
    BY FavAssumption DEF ApiTypes, LimiterInv, Sound
  <2>3. InService(d)' \subseteq Requests /\ CountedFor(d)' \subseteq entries'
    BY DEF InService, CountedFor
  <2>4. Cardinality(InService(d)') \in Nat /\ Cardinality(CountedFor(d)') \in Nat
    BY <2>2, <2>3, Smaller
  <2> QED
    BY <2>1, <2>4
<1> QED
  BY <1>1, <1>2

\* A request is cleared while there is room, and counts among those served.
LEMMA StepReach ==
  ASSUME ApiTypes, ApiTypes', BurstInv, ServesGranted', EntryEach', ~uncounted', ~uncounted,
         [ApiNext]_apiVars, NEW d \in Devices
  PROVE  Reach(d)'
<1> DEFINE held == Cardinality(RowsOf(d))
<1>1. held \in Nat /\ held' \in Nat /\ FavLimit \in Nat
  <2>1. IsFiniteSet(favorites') /\ RowsOf(d)' \subseteq favorites'
    BY DEF ApiTypes, FinInv, RowsOf
  <2> QED
    BY <2>1, Smaller, Counted, FavAssumption
<1>2. /\ IsFiniteSet(Inserting(d)) /\ Cardinality(Inserting(d)) \in Nat
      /\ IsFiniteSet(Inserting(d)') /\ Cardinality(Inserting(d)') \in Nat
  <2>1. IsFiniteSet(Requests) /\ Inserting(d)' \subseteq Requests
    BY FavAssumption DEF Inserting
  <2> QED
    BY <2>1, Smaller, Counted
<1>3. Cap \in Nat /\ Cap' \in Nat /\ Cap <= Cap'
  BY CapGrows
<1>4. held + Cardinality(Inserting(d)) <= FavLimit + Cap - 1
  BY DEF BurstInv, WithinCap, Reach
<1>5. [FavQuota(d)!Next]_(FavQuota(d)!vars)
  BY ApiFavs, StepQuota DEF ApiTypes, LimiterInv
<1> SUFFICES held' + Cardinality(Inserting(d)') <= FavLimit + Cap' - 1
  BY DEF Reach
<1>6. CASE UNCHANGED <<held, Inserting(d)>>
  BY <1>1, <1>2, <1>3, <1>4, <1>6
<1>7. ASSUME NEW q \in Requests, FavQuota(d)!Clear(q)
      PROVE  held' + Cardinality(Inserting(d)') <= FavLimit + Cap' - 1
  <2>1. held' = held /\ held + 1 <= FavLimit
    BY <1>1, <1>7 DEF FavQuota!Clear, FavQuota!Room
  <2>2. Inserting(d)' \subseteq InService(d)'
    <3>1. \A p \in Requests : handler'[p].at = "insert" => handler'[p] # Resting
      BY DEF Resting
    <3> QED
      BY <3>1 DEF ServesGranted, Inserting, InService
  <2>3. Cardinality(InService(d)') <= Cap'
    BY ServedWithinCapThen DEF ServesWithinCap
  <2>4. IsFiniteSet(InService(d)')
    <3>1. InService(d)' \subseteq Requests /\ IsFiniteSet(Requests)
      BY FavAssumption DEF InService
    <3> QED
      BY <3>1, Smaller
  <2>5. Cardinality(Inserting(d)') <= Cardinality(InService(d)') /\ Cardinality(InService(d)') \in Nat
    BY <2>2, <2>4, Smaller
  <2> QED
    BY <1>1, <1>2, <1>3, <2>1, <2>3, <2>5
<1>8. ASSUME NEW q \in Requests, FavQuota(d)!Store(q) \/ FavQuota(d)!GiveUp(q)
      PROVE  held' + Cardinality(Inserting(d)') <= FavLimit + Cap' - 1
  <2>1. q \in Inserting(d) /\ Inserting(d)' = Inserting(d) \ {q}
    BY <1>8 DEF FavQuota!Store, FavQuota!GiveUp
  <2>2. Cardinality(Inserting(d)') = Cardinality(Inserting(d)) - 1
    BY <1>2, <2>1, FS_RemoveElement
  <2>3. held' <= held + 1
    BY <1>1, <1>8 DEF FavQuota!Store, FavQuota!GiveUp
  <2> QED
    BY <1>1, <1>2, <1>3, <1>4, <2>2, <2>3
<1>9. CASE FavQuota(d)!Release
  <2>1. held' = held - 1 /\ Inserting(d)' = Inserting(d)
    BY <1>9 DEF FavQuota!Release
  <2> QED
    BY <1>1, <1>2, <1>3, <1>4, <2>1
<1> QED
  BY <1>5, <1>6, <1>7, <1>8, <1>9 DEF FavQuota!Next, FavQuota!vars

LEMMA StepBurst == ApiTypes /\ ApiTypes' /\ BurstInv /\ [ApiNext]_apiVars => BurstInv'
<1> SUFFICES ASSUME ApiTypes, ApiTypes', BurstInv, [ApiNext]_apiVars PROVE BurstInv'
  OBVIOUS
<1>1. ServesGranted' /\ EntryEach'
  BY StepServes, StepEntries DEF BurstInv
<1>2. ~uncounted' => ~uncounted
  BY DEF ApiNext, apiVars
<1>3. WithinCap'
  BY <1>1, <1>2, StepReach DEF WithinCap
<1> QED
  BY <1>1, <1>3 DEF BurstInv

LEMMA BurstStarts == ApiInit => BurstInv
<1> SUFFICES ASSUME ApiInit PROVE BurstInv
  OBVIOUS
<1>1. ServesGranted
  BY DEF ApiInit, FavInit, ServesGranted
<1>2. ASSUME NEW d \in Devices
      PROVE  InService(d) = {} /\ CountedFor(d) = {} /\ RowsOf(d) = {} /\ Inserting(d) = {}
  BY ApiAssumption, CheckPlaces
     DEF ApiInit, FavInit, RateInit, InService, CountedFor, RowsOf, Inserting, Resting
<1>3. FavLimit \in Nat /\ Cap \in Nat /\ Cap >= 1
  <2>1. Fallen \subseteq Workers /\ IsFiniteSet(Workers) /\ RateLimit \in Nat \ {0}
    BY RateAssumption DEF Fallen
  <2>2. Cardinality(Fallen) \in Nat
    BY <2>1, Smaller
  <2>3. RateLimit * 1 <= RateLimit * (Cardinality(Fallen) + 1)
    BY <2>1, <2>2, Times
  <2> QED
    BY <2>1, <2>2, <2>3, FavAssumption DEF Cap
<1>4. Cardinality({}) = 0
  BY FS_EmptySet
<1>5. EntryEach
  <2>1. \A d \in Devices : Cardinality(InService(d)) <= Cardinality(CountedFor(d))
    BY <1>2, <1>4
  <2> QED
    BY <2>1 DEF EntryEach
<1>6. WithinCap
  <2>1. ASSUME NEW d \in Devices PROVE Reach(d)
    <3>1. Cardinality(RowsOf(d)) = 0 /\ Cardinality(Inserting(d)) = 0
      BY <1>2, <1>4
    <3> QED
      BY <1>3, <3>1 DEF Reach
  <2> QED
    BY <2>1 DEF WithinCap
<1> QED
  BY <1>1, <1>5, <1>6 DEF BurstInv

\* The rate limit caps the overrun of the limit of saved places: as long as no
\* device has had more requests in service than the limiter still counted, it
\* holds fewer than its limit and what the limiter lets through in a window
\* together, however many requests are served at the same time.
THEOREM RateCapsTheOverrun == ApiSpec => []RateCapsOverrun
<1>1. ApiTypes /\ BurstInv => RateCapsOverrun
  <2> SUFFICES ASSUME ApiTypes, BurstInv, ~uncounted, NEW d \in Devices
               PROVE  Cardinality(RowsOf(d)) <= FavLimit + RateLimit * (Cardinality(Fallen) + 1) - 1
    BY DEF RateCapsOverrun
  <2>1. Cardinality(RowsOf(d)) + Cardinality(Inserting(d)) <= FavLimit + Cap - 1
    BY DEF BurstInv, WithinCap, Reach
  <2>2. Cap \in Int /\ FavLimit \in Nat
    <3>1. Fallen \subseteq Workers /\ IsFiniteSet(Workers) /\ RateLimit \in Nat
      BY RateAssumption DEF Fallen
    <3>2. Cardinality(Fallen) \in Nat
      BY <3>1, Smaller
    <3> QED
      BY <3>1, <3>2, FavAssumption DEF Cap
  <2> QED
    BY <2>1, <2>2, Counted DEF Cap
<1> QED
  BY <1>1, BurstStarts, StepBurst, ApiInvariant, PTL DEF ApiSpec
=============================================================================
