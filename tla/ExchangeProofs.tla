--------------------------- MODULE ExchangeProofs ---------------------------
(***************************************************************************)
(* Proofs about what is under way between a client, the proxy and a server: *)
(* the replies come to those they are for, in order (InOrder), and a       *)
(* connection that waits to be lent is quiet (IdleIsQuiet).                *)
(*                                                                         *)
(* What is under way on a connection is explained by a plan, the list of    *)
(* the replies that its session's messages call for and that the proxy has *)
(* not read yet.  Each says whether the client is to get it or the proxy   *)
(* keeps it.  The queues of the pooler (parses, closes) and what the client *)
(* is owed are three views of this one list (Books); the replies on the     *)
(* wire are its beginning and the messages on the wire its end, unless an   *)
(* error has cut it (Flowing, Failing, Skipping, Querying).  No variable of *)
(* the proxy holds the plan: the invariant says that there is one, and each *)
(* step of client, proxy or server says which is the next.                  *)
(*                                                                         *)
(* What is known of the wires then gives IdleIsClean: a reset is told of    *)
(* every setting that a client may have left behind.                       *)
(***************************************************************************)
EXTENDS ProxyProofs, SequenceTheorems

\* e counts the elements of K, a set of m numbers, upwards.
Enum(e, K, m) ==
  /\ e \in [1..m -> K]
  /\ \A i, j \in 1..m : i < j => e[i] < e[j]
  /\ \A k \in K : \E i \in 1..m : e[i] = k

\* s is the list of what f gives for the numbers in K, in their order.
Lists(s, K, f) ==
  \E e \in [1..Len(s) -> K] :
    Enum(e, K, Len(s)) /\ \A i \in 1..Len(s) : s[i] = f[e[i]]

\* The numbers of K when the first place is gone.
Shift(K) == {k - 1 : k \in K \ {1}}

\* A list says the same of two functions that agree on its numbers.
LEMMA ListsSame ==
  ASSUME NEW s, NEW K, NEW f, NEW g, \A k \in K : g[k] = f[k], Lists(s, K, f)
  PROVE  Lists(s, K, g)
<1>1. PICK e \in [1..Len(s) -> K] : Enum(e, K, Len(s)) /\ \A i \in 1..Len(s) : s[i] = f[e[i]]
  BY DEF Lists
<1>2. \A i \in 1..Len(s) : s[i] = g[e[i]]
  BY <1>1
<1> QED  BY <1>1, <1>2 DEF Lists

\* The list of no numbers is empty.
LEMMA ListsNone ==
  ASSUME NEW S, NEW s \in Seq(S), NEW f, Lists(s, {}, f)
  PROVE  s = <<>>
<1>1. Len(s) \in Nat /\ (Len(s) = 0 => s = <<>>)
  OBVIOUS
<1>2. PICK e \in [1..Len(s) -> {}] : TRUE
  BY DEF Lists
<1>3. ~(1 \in 1..Len(s))
  BY <1>2
<1> QED  BY <1>1, <1>3

\* ... and the empty list is a list of no numbers.
LEMMA ListsEmpty ==
  ASSUME NEW f  PROVE Lists(<<>>, {}, f)
<1>1. Len(<<>>) = 0 /\ 1..0 = {}
  OBVIOUS
<1> DEFINE e == [i \in 1..0 |-> i]
<1>2. e \in [1..0 -> {}]
  BY <1>1
<1>3. Enum(e, {}, 0)
  BY <1>1, <1>2 DEF Enum
<1> QED  BY <1>1, <1>2, <1>3 DEF Lists

\* A number above all others is listed last.
LEMMA ListsAppend ==
  ASSUME NEW S, NEW s \in Seq(S), NEW y \in S, NEW n \in Nat, NEW K \in SUBSET (1..n),
         NEW f, NEW g, \A k \in K : g[k] = f[k], g[n+1] = y, Lists(s, K, f)
  PROVE  Lists(Append(s, y), K \cup {n+1}, g)
<1>1. PICK e \in [1..Len(s) -> K] : Enum(e, K, Len(s)) /\ \A i \in 1..Len(s) : s[i] = f[e[i]]
  BY DEF Lists
<1> DEFINE m == Len(s)
           d == [i \in 1..(m+1) |-> IF i = m+1 THEN n+1 ELSE e[i]]
           L == K \cup {n+1}
<1>2. /\ m \in Nat /\ Len(Append(s, y)) = m+1
      /\ Append(s, y)[m+1] = y /\ \A i \in 1..m : Append(s, y)[i] = s[i]
  OBVIOUS
<1> HIDE DEF m
<1>3. d \in [1..(m+1) -> L]
  BY <1>1, <1>2 DEF m
<1>4. \A i, j \in 1..(m+1) : i < j => d[i] < d[j]
  <2> SUFFICES ASSUME NEW i \in 1..(m+1), NEW j \in 1..(m+1), i < j
               PROVE  d[i] < d[j]
    OBVIOUS
  <2>1. i \in 1..m /\ d[i] = e[i]
    BY <1>2
  <2>4. e[i] \in K
    BY <2>1 DEF m
  <2>5. e[i] \in 1..n
    BY <2>4
  <2>2. CASE j = m+1
    BY <2>1, <2>2, <2>5
  <2>3. CASE j # m+1
    BY <2>1, <2>3, <1>1, <1>2 DEF Enum, m
  <2> QED  BY <2>2, <2>3
<1>5. \A k \in L : \E i \in 1..(m+1) : d[i] = k
  <2> SUFFICES ASSUME NEW k \in L  PROVE \E i \in 1..(m+1) : d[i] = k
    OBVIOUS
  <2>1. CASE k = n+1
    BY <2>1, <1>2
  <2>2. CASE k \in K
    <3>1. PICK i \in 1..m : e[i] = k
      BY <1>1, <2>2 DEF Enum, m
    <3> QED  BY <3>1, <1>2
  <2> QED  BY <2>1, <2>2
<1>6. \A i \in 1..(m+1) : Append(s, y)[i] = g[d[i]]
  <2> SUFFICES ASSUME NEW i \in 1..(m+1)  PROVE Append(s, y)[i] = g[d[i]]
    OBVIOUS
  <2>1. CASE i = m+1
    BY <2>1, <1>2
  <2>2. CASE i \in 1..m
    <3>1. d[i] = e[i] /\ e[i] \in K /\ s[i] = f[e[i]]
      BY <2>2, <1>1, <1>2 DEF m
    <3> QED  BY <3>1, <2>2, <1>2
  <2> QED  BY <2>1, <2>2, <1>2
<1>7. Enum(d, L, m+1)
  BY <1>3, <1>4, <1>5 DEF Enum
<1> HIDE DEF d, L
<1>8. Lists(Append(s, y), L, g)
  BY <1>2, <1>3, <1>6, <1>7 DEF Lists
<1> QED  BY <1>8 DEF L

\* What every counting has, place by place.
LEMMA ListsFirst ==
  ASSUME NEW S, NEW s \in Seq(S), NEW n \in Nat, NEW K \in SUBSET (1..n),
         NEW f, Lists(s, K, f), 1 \in K
  PROVE  s # <<>> /\ Head(s) = f[1]
<1>1. PICK e \in [1..Len(s) -> K] : Enum(e, K, Len(s)) /\ \A i \in 1..Len(s) : s[i] = f[e[i]]
  BY DEF Lists
<1>2. PICK i \in 1..Len(s) : e[i] = 1
  BY <1>1 DEF Enum
<1>3. Len(s) \in Nat
  OBVIOUS
<1>4. 1 \in 1..Len(s)
  BY <1>2, <1>3
<1>7. e[1] \in K
  BY <1>4
<1>8. e[1] \in 1..n
  BY <1>7
<1>5. i = 1
  BY <1>1, <1>2, <1>3, <1>4, <1>8 DEF Enum
<1>6. s # <<>> /\ Head(s) = s[1]
  BY <1>4
<1> QED  BY <1>1, <1>2, <1>4, <1>5, <1>6

\* Without its first, the list is one of the other numbers.
LEMMA ListsTail ==
  ASSUME NEW S, NEW s \in Seq(S), NEW n \in Nat, NEW K \in SUBSET (1..n),
         NEW f, NEW g, \A k \in 1..n : k + 1 <= n => g[k] = f[k+1], Lists(s, K, f), 1 \in K
  PROVE  Lists(Tail(s), Shift(K), g)
<1>1. PICK e \in [1..Len(s) -> K] : Enum(e, K, Len(s)) /\ \A i \in 1..Len(s) : s[i] = f[e[i]]
  BY DEF Lists
<1> DEFINE m == Len(s)
           d == [i \in 1..(m-1) |-> e[i+1] - 1]
           L == Shift(K)
<1>2. m \in Nat \ {0} /\ s # <<>>
  <2>1. s # <<>>
    BY ListsFirst
  <2> QED  BY <2>1
<1>3. Len(Tail(s)) = m-1 /\ \A i \in 1..(m-1) : Tail(s)[i] = s[i+1]
  BY <1>2
<1> HIDE DEF m
<1>4. e[1] = 1
  <2>1. PICK i \in 1..m : e[i] = 1
    BY <1>1 DEF Enum, m
  <2>2. 1 \in 1..m
    BY <1>2
  <2>3. e[1] \in K
    BY <2>2 DEF m
  <2>4. e[1] \in 1..n
    BY <2>3
  <2> QED  BY <1>1, <1>2, <2>1, <2>2, <2>4 DEF Enum, m
<1>5. \A i \in 1..(m-1) : i+1 \in 1..m /\ e[i+1] \in K \ {1} /\ e[i+1] \in 1..n
  <2> SUFFICES ASSUME NEW i \in 1..(m-1)
               PROVE  i+1 \in 1..m /\ e[i+1] \in K \ {1} /\ e[i+1] \in 1..n
    OBVIOUS
  <2>1. i+1 \in 1..m /\ 1 \in 1..m /\ 1 < i+1
    BY <1>2
  <2>2. e[1] < e[i+1]
    BY <2>1, <1>1 DEF Enum, m
  <2>3. e[i+1] \in K
    BY <2>1 DEF m
  <2>4. e[i+1] \in 1..n
    BY <2>3
  <2> QED  BY <2>1, <2>2, <2>3, <2>4, <1>4
<1>6. d \in [1..(m-1) -> L]
  BY <1>5 DEF Shift
<1>7. \A i, j \in 1..(m-1) : i < j => d[i] < d[j]
  <2> SUFFICES ASSUME NEW i \in 1..(m-1), NEW j \in 1..(m-1), i < j
               PROVE  d[i] < d[j]
    OBVIOUS
  <2>1. e[i+1] < e[j+1]
    BY <1>1, <1>2, <1>5 DEF Enum, m
  <2>2. e[i+1] \in 1..n /\ e[j+1] \in 1..n
    BY <1>5
  <2> QED  BY <2>1, <2>2
<1>8. \A k \in L : \E i \in 1..(m-1) : d[i] = k
  <2> SUFFICES ASSUME NEW h \in K \ {1}  PROVE \E i \in 1..(m-1) : d[i] = h - 1
    BY DEF Shift
  <2>1. PICK i \in 1..m : e[i] = h
    BY <1>1 DEF Enum, m
  <2>2. i # 1
    BY <2>1, <1>4
  <2>3. i-1 \in 1..(m-1) /\ (i-1)+1 = i
    BY <2>2, <1>2
  <2> QED  BY <2>1, <2>3
<1>9. \A i \in 1..(m-1) : Tail(s)[i] = g[d[i]]
  <2> SUFFICES ASSUME NEW i \in 1..(m-1)  PROVE Tail(s)[i] = g[d[i]]
    OBVIOUS
  <2>1. Tail(s)[i] = f[e[i+1]] /\ e[i+1] \in 1..n /\ e[i+1] # 1
    BY <1>1, <1>3, <1>5 DEF m
  <2>2. d[i] = e[i+1] - 1
    OBVIOUS
  <2>3. d[i] \in 1..n /\ d[i] + 1 = e[i+1] /\ d[i] + 1 <= n
    BY <2>1, <2>2
  <2>4. g[d[i]] = f[d[i] + 1]
    BY <2>3
  <2> QED  BY <2>1, <2>3, <2>4
<1>10. Enum(d, L, m-1)
  BY <1>6, <1>7, <1>8 DEF Enum
<1> HIDE DEF d, L
<1>11. Lists(Tail(s), L, g)
  BY <1>3, <1>6, <1>9, <1>10 DEF Lists
<1> QED  BY <1>11 DEF L

\* A list is one of the places that move up by one.
LEMMA ListsShift ==
  ASSUME NEW S, NEW s \in Seq(S), NEW n \in Nat, NEW K \in SUBSET (1..n),
         NEW f, NEW g, \A k \in 1..n : k + 1 <= n => g[k] = f[k+1], Lists(s, K, f), 1 \notin K
  PROVE  Lists(s, Shift(K), g)
<1>1. PICK e \in [1..Len(s) -> K] : Enum(e, K, Len(s)) /\ \A i \in 1..Len(s) : s[i] = f[e[i]]
  BY DEF Lists
<1> DEFINE m == Len(s)
           d == [i \in 1..m |-> e[i] - 1]
           L == Shift(K)
<1>9. \A i \in 1..m : e[i] \in K
  OBVIOUS
<1>2. \A i \in 1..m : e[i] \in K \ {1} /\ e[i] \in 1..n
  BY <1>9
<1>3. d \in [1..m -> L]
  BY <1>2 DEF Shift
<1>4. \A i, j \in 1..m : i < j => d[i] < d[j]
  <2> SUFFICES ASSUME NEW i \in 1..m, NEW j \in 1..m, i < j
               PROVE  d[i] < d[j]
    OBVIOUS
  <2>1. e[i] < e[j]
    BY <1>1 DEF Enum
  <2> QED  BY <2>1, <1>2
<1>5. \A k \in L : \E i \in 1..m : d[i] = k
  BY <1>1 DEF Enum, Shift
<1>6. \A i \in 1..m : s[i] = g[d[i]]
  <2> SUFFICES ASSUME NEW i \in 1..m  PROVE s[i] = g[d[i]]
    OBVIOUS
  <2>1. s[i] = f[e[i]] /\ e[i] \in 1..n /\ e[i] # 1
    BY <1>1, <1>2
  <2>2. d[i] \in 1..n /\ d[i] + 1 = e[i]
    BY <2>1
  <2> QED  BY <2>1, <2>2
<1>7. Enum(d, L, m)
  BY <1>3, <1>4, <1>5 DEF Enum
<1> HIDE DEF d, L
<1>8. Lists(s, L, g)
  BY <1>3, <1>6, <1>7 DEF Lists
<1> QED  BY <1>8 DEF L

-----------------------------------------------------------------------------
(* The plan of a connection: the replies that are still to come            *)

Kinds == {"parsed", "closed", "bound", "done", "ready"}

\* One reply of the server: what it will be, whether the client gets it, and the
\* statement it is about.
Item == [kind : Kinds, disp : Disposition, query : Queries \cup {NoQuery}]

ClientOf == [owed : Seq(Kinds), batch : {"closed", "open", "aborted"},
             misordered : BOOLEAN, blamed : BOOLEAN]

At(p, kind) == {i \in 1..Len(p) : p[i].kind = kind}
Forwarded(p) == {i \in 1..Len(p) : p[i].disp = "forward"}
ParseOf(p) == [i \in 1..Len(p) |-> [reply |-> p[i].disp, query |-> p[i].query]]
DispOf(p) == [i \in 1..Len(p) |-> p[i].disp]
KindOf(p) == [i \in 1..Len(p) |-> p[i].kind]

\* What the pooler remembers of the plan, and what the client does.
Books(p, s, d) ==
  /\ Lists(s.parses, At(p, "parsed"), ParseOf(p))
  /\ Lists(s.closes, At(p, "closed"), DispOf(p))
  /\ Lists(d.owed, Forwarded(p), KindOf(p))

\* When no reply is to come, nobody has any on the books.
LEMMA BooksNone ==
  ASSUME NEW s \in Statements, NEW d \in ClientOf
  PROVE  Books(<<>>, s, d) <=> s.parses = <<>> /\ s.closes = <<>> /\ d.owed = <<>>
<1>1. At(<<>>, "parsed") = {} /\ At(<<>>, "closed") = {} /\ Forwarded(<<>>) = {}
  BY DEF At, Forwarded
<1>2. /\ s.parses \in Seq([reply : Disposition, query : Queries])
      /\ s.closes \in Seq(Disposition) /\ d.owed \in Seq(Kinds)
  BY DEF Statements, ClientOf
<1>3. ASSUME Books(<<>>, s, d)
      PROVE  s.parses = <<>> /\ s.closes = <<>> /\ d.owed = <<>>
  BY <1>1, <1>2, <1>3, ListsNone DEF Books
<1>4. ASSUME s.parses = <<>>, s.closes = <<>>, d.owed = <<>>
      PROVE  Books(<<>>, s, d)
  BY <1>1, <1>4, ListsEmpty DEF Books
<1> QED  BY <1>3, <1>4

\* A plan that grows by one reply.
LEMMA PlanAppend ==
  ASSUME NEW p \in Seq(Item), NEW it \in Item
  PROVE  /\ Append(p, it) \in Seq(Item) /\ Len(p) \in Nat
         /\ Len(Append(p, it)) = Len(p) + 1 /\ Append(p, it)[Len(p) + 1] = it
         /\ \A i \in 1..Len(p) : Append(p, it)[i] = p[i] /\ i \in 1..(Len(p) + 1)
  OBVIOUS

\* A plan whose first reply has come.
LEMMA PlanTail ==
  ASSUME NEW p \in Seq(Item), p # <<>>
  PROVE  /\ Tail(p) \in Seq(Item) /\ Len(p) \in Nat \ {0}
         /\ Len(Tail(p)) = Len(p) - 1 /\ p[1] \in Item
         /\ \A i \in 1..(Len(p) - 1) : Tail(p)[i] = p[i + 1] /\ i + 1 \in 1..Len(p)
  OBVIOUS

\* One more reply is expected.
LEMMA BooksAppend ==
  ASSUME NEW p \in Seq(Item), NEW it \in Item, NEW s \in Statements, NEW s2 \in Statements,
         NEW d \in ClientOf, NEW d2 \in ClientOf, Books(p, s, d),
         it.kind = "parsed" => it.query \in Queries,
         s2.parses = IF it.kind = "parsed"
                     THEN Append(s.parses, [reply |-> it.disp, query |-> it.query])
                     ELSE s.parses,
         s2.closes = IF it.kind = "closed" THEN Append(s.closes, it.disp) ELSE s.closes,
         d2.owed = IF it.disp = "forward" THEN Append(d.owed, it.kind) ELSE d.owed
  PROVE  Books(Append(p, it), s2, d2)
<1> DEFINE n == Len(p)
           p2 == Append(p, it)
<1>1. /\ n \in Nat /\ Len(p2) = n + 1 /\ p2[n+1] = it
      /\ \A i \in 1..n : p2[i] = p[i] /\ i \in 1..(n+1)
  BY PlanAppend
<1> HIDE DEF n, p2
<1>2. n = Len(p) /\ n + 1 \in 1..(n+1) /\ \A i \in 1..(n+1) : i \in 1..n \/ i = n + 1
  BY <1>1 DEF n
<1>3. /\ At(p, "parsed") \in SUBSET (1..n) /\ At(p, "closed") \in SUBSET (1..n)
      /\ Forwarded(p) \in SUBSET (1..n)
  BY <1>2 DEF At, Forwarded
<1>7. /\ Lists(s.parses, At(p, "parsed"), ParseOf(p))
      /\ Lists(s.closes, At(p, "closed"), DispOf(p))
      /\ Lists(d.owed, Forwarded(p), KindOf(p))
  BY DEF Books
<1>4. Lists(s2.parses, At(p2, "parsed"), ParseOf(p2))
  <2>1. \A k \in At(p, "parsed") : ParseOf(p2)[k] = ParseOf(p)[k]
    BY <1>1, <1>2, <1>3 DEF ParseOf
  <2> DEFINE y == [reply |-> it.disp, query |-> it.query]
             S == [reply : Disposition, query : Queries]
  <2>2. ParseOf(p2)[n+1] = y
    BY <1>1, <1>2 DEF ParseOf
  <2>3. s.parses \in Seq(S)
    BY DEF Statements
  <2>4. CASE it.kind = "parsed"
    <3>1. At(p2, "parsed") = At(p, "parsed") \cup {n+1}
      BY <2>4, <1>1, <1>2 DEF At
    <3>2. y \in S
      BY <2>4 DEF Item
    <3> HIDE DEF y, S
    <3>3. Lists(Append(s.parses, y), At(p, "parsed") \cup {n+1}, ParseOf(p2))
      BY <2>1, <2>2, <2>3, <3>2, <1>1, <1>3, <1>7, ListsAppend
    <3> QED  BY <2>4, <3>1, <3>3 DEF y
  <2>5. CASE it.kind # "parsed"
    <3>1. At(p2, "parsed") = At(p, "parsed")
      BY <2>5, <1>1, <1>2 DEF At
    <3> QED  BY <2>1, <2>5, <3>1, <1>7, ListsSame
  <2> QED  BY <2>4, <2>5
<1>5. Lists(s2.closes, At(p2, "closed"), DispOf(p2))
  <2>1. \A k \in At(p, "closed") : DispOf(p2)[k] = DispOf(p)[k]
    BY <1>1, <1>2, <1>3 DEF DispOf
  <2>2. DispOf(p2)[n+1] = it.disp
    BY <1>1, <1>2 DEF DispOf
  <2>3. s.closes \in Seq(Disposition) /\ it.disp \in Disposition
    BY DEF Statements, Item
  <2>4. CASE it.kind = "closed"
    <3>1. At(p2, "closed") = At(p, "closed") \cup {n+1}
      BY <2>4, <1>1, <1>2 DEF At
    <3> QED  BY <2>1, <2>2, <2>3, <2>4, <3>1, <1>1, <1>3, <1>7, ListsAppend
  <2>5. CASE it.kind # "closed"
    <3>1. At(p2, "closed") = At(p, "closed")
      BY <2>5, <1>1, <1>2 DEF At
    <3> QED  BY <2>1, <2>5, <3>1, <1>7, ListsSame
  <2> QED  BY <2>4, <2>5
<1>6. Lists(d2.owed, Forwarded(p2), KindOf(p2))
  <2>1. \A k \in Forwarded(p) : KindOf(p2)[k] = KindOf(p)[k]
    BY <1>1, <1>2, <1>3 DEF KindOf
  <2>2. KindOf(p2)[n+1] = it.kind
    BY <1>1, <1>2 DEF KindOf
  <2>3. d.owed \in Seq(Kinds) /\ it.kind \in Kinds
    BY DEF ClientOf, Item
  <2>4. CASE it.disp = "forward"
    <3>1. Forwarded(p2) = Forwarded(p) \cup {n+1}
      BY <2>4, <1>1, <1>2 DEF Forwarded
    <3> QED  BY <2>1, <2>2, <2>3, <2>4, <3>1, <1>1, <1>3, <1>7, ListsAppend
  <2>5. CASE it.disp # "forward"
    <3>1. Forwarded(p2) = Forwarded(p)
      BY <2>5, <1>1, <1>2 DEF Forwarded
    <3> QED  BY <2>1, <2>5, <3>1, <1>7, ListsSame
  <2> QED  BY <2>4, <2>5
<1> QED  BY <1>4, <1>5, <1>6 DEF Books, p2

\* The first reply of the plan is what the books say of it.
LEMMA BooksHead ==
  ASSUME NEW p \in Seq(Item), p # <<>>, NEW s \in Statements, NEW d \in ClientOf, Books(p, s, d)
  PROVE  /\ p[1].kind = "parsed" => s.parses # <<>> /\ Head(s.parses).reply = p[1].disp
                                    /\ Head(s.parses).query = p[1].query
         /\ p[1].kind = "closed" => s.closes # <<>> /\ Head(s.closes) = p[1].disp
         /\ p[1].disp = "forward" => d.owed # <<>> /\ Head(d.owed) = p[1].kind
<1> DEFINE n == Len(p)
<1>1. n \in Nat /\ 1 \in 1..n
  BY PlanTail
<1>2. /\ At(p, "parsed") \in SUBSET (1..n) /\ At(p, "closed") \in SUBSET (1..n)
      /\ Forwarded(p) \in SUBSET (1..n)
  BY DEF At, Forwarded
<1>3. /\ s.parses \in Seq([reply : Disposition, query : Queries])
      /\ s.closes \in Seq(Disposition) /\ d.owed \in Seq(Kinds)
  BY DEF Statements, ClientOf
<1>7. /\ Lists(s.parses, At(p, "parsed"), ParseOf(p))
      /\ Lists(s.closes, At(p, "closed"), DispOf(p))
      /\ Lists(d.owed, Forwarded(p), KindOf(p))
  BY DEF Books
<1>4. ASSUME p[1].kind = "parsed"
      PROVE  s.parses # <<>> /\ Head(s.parses).reply = p[1].disp /\ Head(s.parses).query = p[1].query
  <2>0. 1 \in At(p, "parsed")
    BY <1>1, <1>4 DEF At
  <2>1. s.parses # <<>> /\ Head(s.parses) = ParseOf(p)[1]
    BY <1>1, <1>2, <1>3, <1>4, <2>0, <1>7, ListsFirst
  <2> QED  BY <2>1, <1>1 DEF ParseOf
<1>5. ASSUME p[1].kind = "closed"
      PROVE  s.closes # <<>> /\ Head(s.closes) = p[1].disp
  <2>0. 1 \in At(p, "closed")
    BY <1>1, <1>5 DEF At
  <2>1. s.closes # <<>> /\ Head(s.closes) = DispOf(p)[1]
    BY <1>1, <1>2, <1>3, <1>5, <2>0, <1>7, ListsFirst
  <2> QED  BY <2>1, <1>1 DEF DispOf
<1>6. ASSUME p[1].disp = "forward"
      PROVE  d.owed # <<>> /\ Head(d.owed) = p[1].kind
  <2>0. 1 \in Forwarded(p)
    BY <1>1, <1>6 DEF Forwarded
  <2>1. d.owed # <<>> /\ Head(d.owed) = KindOf(p)[1]
    BY <1>1, <1>2, <1>3, <1>6, <2>0, <1>7, ListsFirst
  <2> QED  BY <2>1, <1>1 DEF KindOf
<1> QED  BY <1>4, <1>5, <1>6

\* The first reply has come.
LEMMA BooksTail ==
  ASSUME NEW p \in Seq(Item), p # <<>>, NEW s \in Statements, NEW s2 \in Statements,
         NEW d \in ClientOf, NEW d2 \in ClientOf, Books(p, s, d),
         s2.parses = IF p[1].kind = "parsed" THEN Tail(s.parses) ELSE s.parses,
         s2.closes = IF p[1].kind = "closed" THEN Tail(s.closes) ELSE s.closes,
         d2.owed = IF p[1].disp = "forward" THEN Tail(d.owed) ELSE d.owed
  PROVE  Books(Tail(p), s2, d2)
<1> DEFINE n == Len(p)
           p2 == Tail(p)
<1>1. /\ n \in Nat \ {0} /\ Len(p2) = n - 1
      /\ \A i \in 1..(n-1) : p2[i] = p[i+1] /\ i + 1 \in 1..n
  BY PlanTail
<1> HIDE DEF n, p2
<1>2. n = Len(p) /\ 1 \in 1..n /\ \A k \in 1..n : k + 1 <= n => k \in 1..(n-1)
  BY <1>1 DEF n
<1>3. /\ At(p, "parsed") \in SUBSET (1..n) /\ At(p, "closed") \in SUBSET (1..n)
      /\ Forwarded(p) \in SUBSET (1..n)
  BY <1>2 DEF At, Forwarded
<1>4. \A i \in 1..(n-1) : i = (i + 1) - 1 /\ i + 1 # 1
  BY <1>1
<1>5. \A i \in 1..n : i # 1 => i - 1 \in 1..(n-1) /\ (i - 1) + 1 = i
  BY <1>1
<1>6. /\ At(p2, "parsed") = Shift(At(p, "parsed"))
      /\ At(p2, "closed") = Shift(At(p, "closed"))
      /\ Forwarded(p2) = Shift(Forwarded(p))
  <2>1. ASSUME NEW kind
        PROVE  At(p2, kind) = Shift(At(p, kind))
    <3>1. ASSUME NEW i \in At(p2, kind)  PROVE i \in Shift(At(p, kind))
      <4>1. i \in 1..(n-1) /\ i + 1 \in At(p, kind) \ {1}
        BY <1>1, <1>2, <1>4 DEF At
      <4> QED  BY <4>1, <1>4 DEF Shift
    <3>2. ASSUME NEW i \in At(p, kind) \ {1}  PROVE i - 1 \in At(p2, kind)
      <4>1. i - 1 \in 1..(n-1) /\ (i - 1) + 1 = i
        BY <1>2, <1>5 DEF At
      <4> QED  BY <4>1, <1>1 DEF At
    <3> QED  BY <3>1, <3>2 DEF Shift
  <2>2. Forwarded(p2) = Shift(Forwarded(p))
    <3>1. ASSUME NEW i \in Forwarded(p2)  PROVE i \in Shift(Forwarded(p))
      <4>1. i \in 1..(n-1) /\ i + 1 \in Forwarded(p) \ {1}
        BY <1>1, <1>2, <1>4 DEF Forwarded
      <4> QED  BY <4>1, <1>4 DEF Shift
    <3>2. ASSUME NEW i \in Forwarded(p) \ {1}  PROVE i - 1 \in Forwarded(p2)
      <4>1. i - 1 \in 1..(n-1) /\ (i - 1) + 1 = i
        BY <1>2, <1>5 DEF Forwarded
      <4> QED  BY <4>1, <1>1 DEF Forwarded
    <3> QED  BY <3>1, <3>2 DEF Shift
  <2> QED  BY <2>1, <2>2
<1>10. /\ Lists(s.parses, At(p, "parsed"), ParseOf(p))
      /\ Lists(s.closes, At(p, "closed"), DispOf(p))
      /\ Lists(d.owed, Forwarded(p), KindOf(p))
  BY DEF Books
<1>7. Lists(s2.parses, At(p2, "parsed"), ParseOf(p2))
  <2>1. \A k \in 1..n : k + 1 <= n => ParseOf(p2)[k] = ParseOf(p)[k+1]
    BY <1>1, <1>2 DEF ParseOf
  <2>2. s.parses \in Seq([reply : Disposition, query : Queries])
    BY DEF Statements
  <2>3. CASE p[1].kind = "parsed"
    <3>1. 1 \in At(p, "parsed")
      BY <2>3, <1>2 DEF At
    <3>2. Lists(Tail(s.parses), Shift(At(p, "parsed")), ParseOf(p2))
      BY <2>1, <2>2, <3>1, <1>1, <1>3, <1>10, ListsTail
    <3> QED  BY <3>2, <2>3, <1>6
  <2>4. CASE p[1].kind # "parsed"
    <3>1. 1 \notin At(p, "parsed")
      BY <2>4 DEF At
    <3>2. Lists(s.parses, Shift(At(p, "parsed")), ParseOf(p2))
      BY <2>1, <2>2, <3>1, <1>1, <1>3, <1>10, ListsShift
    <3> QED  BY <3>2, <2>4, <1>6
  <2> QED  BY <2>3, <2>4
<1>8. Lists(s2.closes, At(p2, "closed"), DispOf(p2))
  <2>1. \A k \in 1..n : k + 1 <= n => DispOf(p2)[k] = DispOf(p)[k+1]
    BY <1>1, <1>2 DEF DispOf
  <2>2. s.closes \in Seq(Disposition)
    BY DEF Statements
  <2>3. CASE p[1].kind = "closed"
    <3>1. 1 \in At(p, "closed")
      BY <2>3, <1>2 DEF At
    <3>2. Lists(Tail(s.closes), Shift(At(p, "closed")), DispOf(p2))
      BY <2>1, <2>2, <3>1, <1>1, <1>3, <1>10, ListsTail
    <3> QED  BY <3>2, <2>3, <1>6
  <2>4. CASE p[1].kind # "closed"
    <3>1. 1 \notin At(p, "closed")
      BY <2>4 DEF At
    <3>2. Lists(s.closes, Shift(At(p, "closed")), DispOf(p2))
      BY <2>1, <2>2, <3>1, <1>1, <1>3, <1>10, ListsShift
    <3> QED  BY <3>2, <2>4, <1>6
  <2> QED  BY <2>3, <2>4
<1>9. Lists(d2.owed, Forwarded(p2), KindOf(p2))
  <2>1. \A k \in 1..n : k + 1 <= n => KindOf(p2)[k] = KindOf(p)[k+1]
    BY <1>1, <1>2 DEF KindOf
  <2>2. d.owed \in Seq(Kinds)
    BY DEF ClientOf
  <2>3. CASE p[1].disp = "forward"
    <3>1. 1 \in Forwarded(p)
      BY <2>3, <1>2 DEF Forwarded
    <3>2. Lists(Tail(d.owed), Shift(Forwarded(p)), KindOf(p2))
      BY <2>1, <2>2, <3>1, <1>1, <1>3, <1>10, ListsTail
    <3> QED  BY <3>2, <2>3, <1>6
  <2>4. CASE p[1].disp # "forward"
    <3>1. 1 \notin Forwarded(p)
      BY <2>4 DEF Forwarded
    <3>2. Lists(d.owed, Shift(Forwarded(p)), KindOf(p2))
      BY <2>1, <2>2, <3>1, <1>1, <1>3, <1>10, ListsShift
    <3> QED  BY <3>2, <2>4, <1>6
  <2> QED  BY <2>3, <2>4
<1> QED  BY <1>7, <1>8, <1>9 DEF Books, p2

-----------------------------------------------------------------------------
(* The phases of an exchange between a session and its server, for a plan   *)
(* p, the pooler's record s, the driver d, the wires w (to the server) and  *)
(* r (to the proxy), the status t the pooler has seen last and the server v *)

\* A reply that is not forwarded answers a Parse or a Close and is followed by one
\* of the same batch; a "ready" ends the plan.
Loose(p) ==
  \A i \in 1..Len(p) :
    /\ p[i].kind = "ready" => i = Len(p)
    /\ p[i].disp = "suppress" => p[i].kind \in {"parsed", "closed"}
    /\ p[i].disp = "suppress" /\ i < Len(p) => p[i+1].kind # "ready"

Settled(p) == p # <<>> => p[Len(p)].disp = "forward"

Batch(p, d) == p # <<>> => (d.batch = "closed" <=> p[Len(p)].kind = "ready")

Line == ExtendedKinds \cup {"sync"}

AnswerKind(k) ==
  IF k = "parse" THEN "parsed" ELSE IF k = "bind" THEN "bound"
  ELSE IF k = "sync" THEN "ready" ELSE "closed"

Asks(m, it, c) ==
  m.from = c /\ m.kind \in Line /\ it.kind = AnswerKind(m.kind) /\ it.query = m.arg

\* What is on the wire to the server calls for the last replies of the plan.
Waiting(c, p, w) ==
  /\ Len(w) <= Len(p)
  /\ \A i \in 1..Len(w) : Asks(w[i], p[Len(p) - Len(w) + i], c)

\* What is on the wire to the proxy begins with the first n replies of the plan.
Answering(c, p, r, n) ==
  /\ n <= Len(p) /\ n <= Len(r)
  /\ \A i \in 1..n : r[i].to = c /\ r[i].kind = p[i].kind

\* The status the pooler has seen, or will have seen, is the server's.
Status(r, t, v) ==
  /\ \A i \in 1..Len(r) : r[i].kind = "ready" => r[i].arg = v.tx
  /\ (\A i \in 1..Len(r) : r[i].kind # "ready") => t = v.tx

\* All goes well.
Flowing(c, p, d, w, r, t, v) ==
  /\ ~v.skip /\ d.batch # "aborted" /\ Len(p) = Len(r) + Len(w)
  /\ Waiting(c, p, w) /\ Answering(c, p, r, Len(r)) /\ Status(r, t, v)

\* The k-th reply is an error instead, which has not reached the proxy; the server
\* skips to the Sync, or has read it.
Failing(c, p, d, w, r, v, k) ==
  /\ p[k].kind # "ready" /\ d.batch # "aborted"
  /\ Answering(c, p, r, k-1) /\ k <= Len(r) /\ r[k].to = c /\ r[k].kind = "error"
  /\ Waiting(c, p, w) /\ k + Len(w) <= Len(p)
  /\ \/ v.skip /\ Len(r) = k /\ (p[Len(p)].kind = "ready" => w # <<>>)
     \/ /\ ~v.skip /\ w = <<>> /\ Len(r) = k + 1 /\ d.batch = "closed"
        /\ r[k+1].kind = "ready" /\ r[k+1].to = c /\ r[k+1].arg = v.tx

\* The client knows of the error, and the server still skips to the Sync.
Skipping(c, p, d, w, r, v) ==
  /\ v.skip /\ r = <<>>
  /\ \/ p = <<>> /\ d.batch = "aborted"
     \/ Len(p) = 1 /\ p[1].kind = "ready" /\ d.batch = "closed" /\ w # <<>>
  /\ \A i \in 1..Len(w) : /\ w[i].from = c /\ w[i].kind \in Line
                          /\ w[i].kind = "sync" <=> i = Len(w) /\ p # <<>>

ClientKinds ==
  {"work", "begin", "commit", "rollback", "discard", "listen", "unlisten", "set", "reset"}

\* A simple query is on its way.
Querying(c, p, d, w, r, v) ==
  /\ ~v.skip /\ r = <<>> /\ d.batch = "closed"
  /\ Len(p) = 2 /\ p[1].kind = "done" /\ p[2].kind = "ready"
  /\ Len(w) = 1 /\ w[1].from = c /\ w[1].kind \in ClientKinds

Exchange(c, p, s, d, w, r, t, v) ==
  /\ Books(p, s, d) /\ Loose(p) /\ Batch(p, d) /\ ~d.misordered
  /\ \/ Flowing(c, p, d, w, r, t, v)
     \/ \E k \in 1..Len(p) : Failing(c, p, d, w, r, v, k)
     \/ Skipping(c, p, d, w, r, v)
     \/ Querying(c, p, d, w, r, v)

\* Nothing is asked and nothing owed.
LEMMA ExchangeNone ==
  ASSUME NEW c, NEW s \in Statements, NEW d \in ClientOf, NEW t, NEW v,
         s.parses = <<>>, s.closes = <<>>, d.owed = <<>>, d.batch # "aborted", ~d.misordered,
         ~v.skip, t = v.tx
  PROVE  Exchange(c, <<>>, s, d, <<>>, <<>>, t, v)
<1>1. Books(<<>>, s, d)
  BY BooksNone
<1>2. Len(<<>>) = 0 /\ 1..0 = {}
  OBVIOUS
<1>3. Flowing(c, <<>>, d, <<>>, <<>>, t, v)
  BY <1>2 DEF Flowing, Waiting, Answering, Status
<1> QED  BY <1>1, <1>2, <1>3 DEF Exchange, Loose, Batch

\* A client that is owed nothing has a connection on which nothing is under way.
LEMMA ExchangeQuiet ==
  ASSUME NEW c, NEW p \in Seq(Item), NEW s \in Statements, NEW d \in ClientOf,
         NEW M, NEW w \in Seq(M), NEW R, NEW r \in Seq(R), NEW t, NEW v,
         Exchange(c, p, s, d, w, r, t, v), Settled(p), d.owed = <<>>, d.batch # "aborted"
  PROVE  /\ p = <<>> /\ w = <<>> /\ r = <<>> /\ s.parses = <<>> /\ s.closes = <<>>
         /\ ~v.skip /\ t = v.tx
<1>1. p = <<>>
  <2> SUFFICES ASSUME p # <<>>  PROVE FALSE
    OBVIOUS
  <2>1. Len(p) \in Nat \ {0} /\ Len(p) \in Forwarded(p)
    BY PlanTail DEF Settled, Forwarded
  <2>2. Lists(d.owed, Forwarded(p), KindOf(p))
    BY DEF Exchange, Books
  <2>3. PICK e \in [1..Len(d.owed) -> Forwarded(p)] : Enum(e, Forwarded(p), Len(d.owed))
    BY <2>2 DEF Lists
  <2>4. PICK i \in 1..Len(d.owed) : e[i] = Len(p)
    BY <2>1, <2>3 DEF Enum
  <2> QED  BY <2>4
<1>2. Len(<<>>) = 0 /\ Len(w) \in Nat /\ Len(r) \in Nat /\ 1..0 = {}
      /\ (Len(w) = 0 => w = <<>>) /\ (Len(r) = 0 => r = <<>>)
  OBVIOUS
<1>3. Flowing(c, <<>>, d, w, r, t, v)
  BY <1>1, <1>2 DEF Exchange, Skipping, Querying
<1>4. w = <<>> /\ r = <<>> /\ ~v.skip /\ t = v.tx
  <2>1. Len(r) + Len(w) = 0
    BY <1>2, <1>3 DEF Flowing
  <2>2. w = <<>> /\ r = <<>>
    BY <1>2, <2>1
  <2> QED  BY <1>2, <1>3, <2>2 DEF Flowing, Status
<1>5. s.parses = <<>> /\ s.closes = <<>>
  BY <1>1, BooksNone DEF Exchange
<1> QED  BY <1>1, <1>4, <1>5

\* A client that is owed no "ready" has a plan without one.
LEMMA ExchangeOpen ==
  ASSUME NEW c, NEW p \in Seq(Item), NEW s \in Statements, NEW d \in ClientOf,
         NEW w, NEW r, NEW t, NEW v,
         Exchange(c, p, s, d, w, r, t, v), "ready" \notin Range(d.owed), p # <<>>
  PROVE  p[Len(p)].kind # "ready" /\ d.batch # "closed"
<1>1. Len(p) \in 1..Len(p)
  BY PlanTail
<1>2. p[Len(p)].kind # "ready"
  <2> SUFFICES ASSUME p[Len(p)].kind = "ready"  PROVE FALSE
    OBVIOUS
  <2>0. p[Len(p)] \in Item /\ p[Len(p)].disp # "suppress"
    BY <1>1 DEF Exchange, Loose
  <2>1. Len(p) \in Forwarded(p)
    BY <1>1, <2>0 DEF Forwarded, Item, Disposition
  <2>2. Lists(d.owed, Forwarded(p), KindOf(p))
    BY DEF Exchange, Books
  <2>3. PICK e \in [1..Len(d.owed) -> Forwarded(p)] :
          Enum(e, Forwarded(p), Len(d.owed)) /\ \A i \in 1..Len(d.owed) : d.owed[i] = KindOf(p)[e[i]]
    BY <2>2 DEF Lists
  <2>4. PICK i \in 1..Len(d.owed) : e[i] = Len(p)
    BY <2>1, <2>3 DEF Enum
  <2>5. d.owed[i] = "ready"
    BY <2>3, <2>4, <1>1 DEF KindOf
  <2>6. i \in DOMAIN d.owed
    BY DEF ClientOf
  <2> QED  BY <2>5, <2>6 DEF Range
<1> QED  BY <1>2 DEF Exchange, Batch

\* The batch is marked open before its first message is booked.
LEMMA ExchangeOpens ==
  ASSUME NEW c, NEW p \in Seq(Item), NEW s, NEW d, NEW d2, NEW w, NEW r, NEW t, NEW v,
         Exchange(c, p, s, d, w, r, t, v), p = <<>> \/ p[Len(p)].kind # "ready",
         d.batch # "aborted",
         d2.owed = d.owed, d2.batch = "open", d2.misordered = d.misordered
  PROVE  Exchange(c, p, s, d2, w, r, t, v)
<1>1. Books(p, s, d2) /\ Batch(p, d2) /\ ~d2.misordered /\ Loose(p)
  BY DEF Exchange, Books, Batch
<1>2. ASSUME Flowing(c, p, d, w, r, t, v)
      PROVE  Flowing(c, p, d2, w, r, t, v)
  BY <1>2 DEF Flowing
<1>3. ASSUME NEW k \in 1..Len(p), Failing(c, p, d, w, r, v, k)
      PROVE  Failing(c, p, d2, w, r, v, k)
  <2>1. p # <<>>
    BY <1>3
  <2>2. d.batch # "closed"
    BY <2>1 DEF Exchange, Batch
  <2> QED  BY <1>3, <2>2 DEF Failing
<1>4. ~Skipping(c, p, d, w, r, v)
  BY DEF Skipping
<1>5. ~Querying(c, p, d, w, r, v)
  BY DEF Querying
<1> QED  BY <1>1, <1>2, <1>3, <1>4, <1>5 DEF Exchange

\* A message that is put on the wire.
LEMMA WireAppend ==
  ASSUME NEW M, NEW w \in Seq(M), NEW m \in M
  PROVE  /\ Len(w) \in Nat /\ Len(Append(w, m)) = Len(w) + 1 /\ Append(w, m) # <<>>
         /\ Append(w, m)[Len(w) + 1] = m
         /\ \A i \in 1..Len(w) : Append(w, m)[i] = w[i]
         /\ \A i \in 1..(Len(w) + 1) : i \in 1..Len(w) \/ i = Len(w) + 1
<1>1. /\ Len(w) \in Nat /\ Len(Append(w, m)) = Len(w) + 1 /\ Append(w, m)[Len(w) + 1] = m
      /\ \A i \in 1..Len(w) : Append(w, m)[i] = w[i]
  OBVIOUS
<1>2. Len(<<>>) = 0
  OBVIOUS
<1>3. Append(w, m) # <<>>
  BY <1>1, <1>2
<1> QED  BY <1>1, <1>3

\* One more message waits.
LEMMA WaitingAppend ==
  ASSUME NEW c, NEW p \in Seq(Item), NEW M, NEW w \in Seq(M), NEW m \in M, NEW it \in Item,
         Waiting(c, p, w), Asks(m, it, c)
  PROVE  Waiting(c, Append(p, it), Append(w, m))
<1> DEFINE n == Len(p)
           l == Len(w)
           p2 == Append(p, it)
           w2 == Append(w, m)
<1>1. /\ n \in Nat /\ Len(p2) = n + 1 /\ p2[n+1] = it /\ \A i \in 1..n : p2[i] = p[i]
  BY PlanAppend
<1>2. /\ l \in Nat /\ Len(w2) = l + 1 /\ w2[l+1] = m /\ \A i \in 1..l : w2[i] = w[i]
      /\ \A i \in 1..(l+1) : i \in 1..l \/ i = l + 1
  BY WireAppend
<1>3. l <= n /\ \A i \in 1..l : Asks(w[i], p[n - l + i], c)
  BY DEF Waiting
<1> HIDE DEF n, l, p2, w2
<1>4. \A i \in 1..l : n - l + i \in 1..n /\ (n + 1) - (l + 1) + i = n - l + i
  BY <1>1, <1>2, <1>3
<1>5. (n + 1) - (l + 1) + (l + 1) = n + 1
  BY <1>1, <1>2
<1>6. \A i \in 1..(l+1) : Asks(w2[i], p2[(n + 1) - (l + 1) + i], c)
  BY <1>1, <1>2, <1>3, <1>4, <1>5
<1>7. l + 1 <= n + 1
  BY <1>1, <1>2, <1>3
<1>8. Waiting(c, p2, w2)
  BY <1>1, <1>2, <1>6, <1>7 DEF Waiting
<1> QED  BY <1>8 DEF p2, w2

\* A longer plan begins with what has been answered.
LEMMA AnsweringAppend ==
  ASSUME NEW c, NEW p \in Seq(Item), NEW it \in Item, NEW r, NEW n \in Nat, Answering(c, p, r, n)
  PROVE  Answering(c, Append(p, it), r, n)
<1>1. /\ Len(p) \in Nat /\ Len(Append(p, it)) = Len(p) + 1
      /\ \A i \in 1..Len(p) : Append(p, it)[i] = p[i]
  BY PlanAppend
<1>2. n <= Len(p) /\ \A i \in 1..n : i \in 1..Len(p)
  BY <1>1 DEF Answering
<1> QED  BY <1>1, <1>2 DEF Answering

\* A plan stays loose when it grows by a reply that may be its next.
LEMMA LooseAppend ==
  ASSUME NEW p \in Seq(Item), NEW it \in Item, Loose(p),
         p = <<>> \/ p[Len(p)].kind # "ready",
         it.disp = "suppress" => it.kind \in {"parsed", "closed"},
         it.kind = "ready" => Settled(p)
  PROVE  Loose(Append(p, it))
<1> DEFINE n == Len(p)
           p2 == Append(p, it)
<1>1. /\ n \in Nat /\ Len(p2) = n + 1 /\ p2[n+1] = it /\ \A i \in 1..n : p2[i] = p[i]
  BY PlanAppend
<1>2. n = 0 <=> p = <<>>
  OBVIOUS
<1> HIDE DEF p2
<1> SUFFICES ASSUME NEW i \in 1..(n+1)
             PROVE  /\ p2[i].kind = "ready" => i = n + 1
                    /\ p2[i].disp = "suppress" => p2[i].kind \in {"parsed", "closed"}
                    /\ p2[i].disp = "suppress" /\ i < n + 1 => p2[i+1].kind # "ready"
  BY <1>1 DEF Loose, p2
<1>3. CASE i = n + 1
  BY <1>1, <1>3
<1>4. CASE i # n + 1
  <2>1. i \in 1..n /\ p2[i] = p[i] /\ p # <<>>
    BY <1>1, <1>2, <1>4
  <2>2. /\ p[i].kind = "ready" => i = n
        /\ p[i].disp = "suppress" => p[i].kind \in {"parsed", "closed"}
    BY <2>1 DEF Loose
  <2>3. p[i].kind # "ready"
    BY <2>1, <2>2
  <2>4. ASSUME p[i].disp = "suppress"  PROVE p2[i+1].kind # "ready"
    <3>1. CASE i = n
      BY <3>1, <2>1, <2>4, <1>1 DEF Settled, Disposition
    <3>2. CASE i # n
      <4>1. i + 1 \in 1..n /\ i < n
        BY <3>2, <2>1, <1>1
      <4> QED  BY <4>1, <2>1, <2>4, <1>1 DEF Loose
    <3> QED  BY <3>1, <3>2
  <2> QED  BY <2>1, <2>2, <2>3, <2>4
<1> QED  BY <1>3, <1>4

\* The session sends a message of an open batch.
LEMMA ExchangeExtends ==
  ASSUME NEW c, NEW p \in Seq(Item), NEW s \in Statements, NEW s2 \in Statements,
         NEW d \in ClientOf, NEW d2 \in ClientOf,
         NEW M, NEW w \in Seq(M), NEW R, NEW r \in Seq(R), NEW t, NEW v,
         NEW m \in M, NEW it \in Item,
         Exchange(c, p, s, d, w, r, t, v), d.batch = "open",
         Asks(m, it, c), it.kind # "ready", it.kind = "parsed" => it.query \in Queries,
         it.disp = "suppress" => it.kind \in {"parsed", "closed"},
         s2.parses = IF it.kind = "parsed"
                     THEN Append(s.parses, [reply |-> it.disp, query |-> it.query])
                     ELSE s.parses,
         s2.closes = IF it.kind = "closed" THEN Append(s.closes, it.disp) ELSE s.closes,
         d2.owed = IF it.disp = "forward" THEN Append(d.owed, it.kind) ELSE d.owed,
         d2.batch = "open", d2.misordered = d.misordered
  PROVE  Exchange(c, Append(p, it), s2, d2, Append(w, m), r, t, v)
<1> DEFINE p2 == Append(p, it)
           w2 == Append(w, m)
<1>1. /\ p2 \in Seq(Item) /\ Len(p) \in Nat /\ Len(p2) = Len(p) + 1 /\ p2[Len(p) + 1] = it
      /\ \A i \in 1..Len(p) : p2[i] = p[i] /\ i \in 1..(Len(p) + 1)
  BY PlanAppend
<1>2. Len(w) \in Nat /\ Len(w2) = Len(w) + 1 /\ w2 # <<>> /\ Len(r) \in Nat
  BY WireAppend
<1>3. p = <<>> \/ p[Len(p)].kind # "ready"
  BY DEF Exchange, Batch
<1>4. Books(p2, s2, d2)
  BY BooksAppend DEF Exchange
<1>5. Loose(p2)
  BY <1>3, LooseAppend DEF Exchange
<1>6. Batch(p2, d2) /\ ~d2.misordered
  BY <1>1 DEF Exchange, Batch
<1>7. ASSUME Flowing(c, p, d, w, r, t, v)
      PROVE  Flowing(c, p2, d2, w2, r, t, v)
  <2>1. Waiting(c, p2, w2)
    BY <1>7, WaitingAppend DEF Flowing
  <2>2. Answering(c, p2, r, Len(r))
    BY <1>2, <1>7, AnsweringAppend DEF Flowing
  <2>3. Len(p2) = Len(r) + Len(w2)
    BY <1>1, <1>2, <1>7 DEF Flowing
  <2> QED  BY <1>7, <2>1, <2>2, <2>3 DEF Flowing
<1>8. ASSUME NEW k \in 1..Len(p), Failing(c, p, d, w, r, v, k)
      PROVE  k \in 1..Len(p2) /\ Failing(c, p2, d2, w2, r, v, k)
  <2>1. Waiting(c, p2, w2)
    BY <1>8, WaitingAppend DEF Failing
  <2>2. k - 1 \in Nat /\ Answering(c, p2, r, k - 1)
    BY <1>8, AnsweringAppend DEF Failing
  <2>3. k + Len(w2) <= Len(p2) /\ k \in 1..Len(p2) /\ p2[k] = p[k]
    BY <1>1, <1>2, <1>8 DEF Failing
  <2>4. v.skip /\ Len(r) = k
    BY <1>8 DEF Failing
  <2> QED  BY <1>2, <1>8, <2>1, <2>2, <2>3, <2>4 DEF Failing
<1>9. ~Skipping(c, p, d, w, r, v) /\ ~Querying(c, p, d, w, r, v)
  BY DEF Skipping, Querying
<1> HIDE DEF p2, w2
<1>10. Exchange(c, p2, s2, d2, w2, r, t, v)
  BY <1>4, <1>5, <1>6, <1>7, <1>8, <1>9 DEF Exchange
<1> QED  BY <1>10 DEF p2, w2

\* The session closes its batch, also one that has failed.
LEMMA ExchangeSyncs ==
  ASSUME NEW c, NEW p \in Seq(Item), NEW s \in Statements,
         NEW d \in ClientOf, NEW d2 \in ClientOf,
         NEW M, NEW w \in Seq(M), NEW R, NEW r \in Seq(R), NEW t, NEW v,
         NEW m \in M, NEW it \in Item,
         Exchange(c, p, s, d, w, r, t, v), Settled(p), d.batch # "closed",
         Asks(m, it, c), m.kind = "sync", it.disp = "forward",
         d2.owed = Append(d.owed, "ready"), d2.batch = "closed", d2.misordered = d.misordered
  PROVE  Exchange(c, Append(p, it), s, d2, Append(w, m), r, t, v)
<1> DEFINE p2 == Append(p, it)
           w2 == Append(w, m)
<1>0. it.kind = "ready"
  BY DEF Asks, AnswerKind
<1>1. /\ p2 \in Seq(Item) /\ Len(p) \in Nat /\ Len(p2) = Len(p) + 1 /\ p2[Len(p) + 1] = it
      /\ \A i \in 1..Len(p) : p2[i] = p[i] /\ i \in 1..(Len(p) + 1)
  BY PlanAppend
<1>2. /\ Len(w) \in Nat /\ Len(w2) = Len(w) + 1 /\ w2 # <<>> /\ Len(r) \in Nat
      /\ w2[Len(w) + 1] = m /\ \A i \in 1..Len(w) : w2[i] = w[i]
      /\ \A i \in 1..(Len(w) + 1) : i \in 1..Len(w) \/ i = Len(w) + 1
  BY WireAppend
<1>3. p = <<>> \/ p[Len(p)].kind # "ready"
  BY DEF Exchange, Batch
<1>4. Books(p2, s, d2)
  BY <1>0, BooksAppend DEF Exchange
<1>5. Loose(p2)
  BY <1>0, <1>3, LooseAppend DEF Exchange
<1>6. Batch(p2, d2) /\ ~d2.misordered
  BY <1>0, <1>1 DEF Exchange, Batch
<1>7. ASSUME Flowing(c, p, d, w, r, t, v)
      PROVE  Flowing(c, p2, d2, w2, r, t, v)
  <2>1. Waiting(c, p2, w2)
    BY <1>7, WaitingAppend DEF Flowing
  <2>2. Answering(c, p2, r, Len(r))
    BY <1>2, <1>7, AnsweringAppend DEF Flowing
  <2>3. Len(p2) = Len(r) + Len(w2)
    BY <1>1, <1>2, <1>7 DEF Flowing
  <2> QED  BY <1>7, <2>1, <2>2, <2>3 DEF Flowing
<1>8. ASSUME NEW k \in 1..Len(p), Failing(c, p, d, w, r, v, k)
      PROVE  k \in 1..Len(p2) /\ Failing(c, p2, d2, w2, r, v, k)
  <2>1. Waiting(c, p2, w2)
    BY <1>8, WaitingAppend DEF Failing
  <2>2. k - 1 \in Nat /\ Answering(c, p2, r, k - 1)
    BY <1>8, AnsweringAppend DEF Failing
  <2>3. k + Len(w2) <= Len(p2) /\ k \in 1..Len(p2) /\ p2[k] = p[k]
    BY <1>1, <1>2, <1>8 DEF Failing
  <2>4. v.skip /\ Len(r) = k
    BY <1>8 DEF Failing
  <2> QED  BY <1>2, <1>8, <2>1, <2>2, <2>3, <2>4 DEF Failing
<1>9. ASSUME Skipping(c, p, d, w, r, v)
      PROVE  Skipping(c, p2, d2, w2, r, v)
  <2>1. p = <<>> /\ Len(p) = 0
    BY <1>9 DEF Skipping
  <2>2. Len(p2) = 1 /\ p2[1].kind = "ready" /\ p2 # <<>>
    BY <1>0, <1>1, <2>1
  <2>3. \A i \in 1..(Len(w) + 1) : /\ w2[i].from = c /\ w2[i].kind \in Line
                                   /\ w2[i].kind = "sync" <=> i = Len(w) + 1
    BY <1>2, <1>9, <2>1 DEF Skipping, Asks
  <2> QED  BY <1>2, <1>9, <2>2, <2>3 DEF Skipping
<1>10. ~Querying(c, p, d, w, r, v)
  BY DEF Querying
<1> HIDE DEF p2, w2
<1>11. Exchange(c, p2, s, d2, w2, r, t, v)
  BY <1>4, <1>5, <1>6, <1>7, <1>8, <1>9, <1>10 DEF Exchange
<1> QED  BY <1>11 DEF p2, w2

-----------------------------------------------------------------------------
(* What the server makes of a message                                      *)

Senders == Sessions \cup {NoSession}

MessageOf == [kind : {"parse", "close"}, arg : Queries, from : Senders]
             \cup [kind : {"bind"}, arg : Queries \cup {NoQuery}, from : Senders]
             \cup [kind : {"portal", "sync"}, arg : {NoQuery}, from : Senders]
             \cup [kind : ClientKinds \cup {"clean", "rollback and clean"},
                   arg : SUBSET Vars, from : Senders]

ReplyOf == [kind : Kinds \cup {"error"}, arg : {"none", "client", "pooler"} \cup Tx,
            to : Senders]

\* A server that skips answers nothing but a Sync.
LEMMA OutcomeSkipped ==
  ASSUME NEW v, NEW m, NEW o \in Outcomes(v, m), v.skip, m.kind # "sync"
  PROVE  o.srv = v /\ o.replies = <<>>
  BY DEF Outcomes, Outcome

\* A Sync ends the skipping, and is answered with the status.
LEMMA OutcomeSync ==
  ASSUME NEW v \in Server, NEW m, NEW o \in Outcomes(v, m), m.kind = "sync"
  PROVE  /\ o.srv \in Server /\ o.srv.tx = v.tx /\ ~o.srv.skip
         /\ o.replies = <<[kind |-> "ready", arg |-> v.tx]>>
<1> DEFINE z == Ended([v EXCEPT !.skip = FALSE])
<1>1. o = Outcome(z, <<Ready(z)>>)
  BY DEF Outcomes
<1>2. z \in Server /\ z.tx = v.tx /\ z.skip = FALSE
  BY DEF Ended, Server
<1> QED  BY <1>1, <1>2 DEF Outcome, Ready

\* An error in the extended protocol.
LEMMA OutcomeFails ==
  ASSUME NEW v \in Server, NEW cause, NEW o \in Fails(v, cause)
  PROVE  o.srv \in Server /\ o.srv.skip /\ o.replies = <<[kind |-> "error", arg |-> cause]>>
<1> DEFINE z == [Aborted(v) EXCEPT !.skip = TRUE]
<1>1. o = Outcome(z, <<Error(cause)>>)
  BY DEF Fails
<1>2. Aborted(v) \in Server
  BY DEF Aborted, Server, Tx
<1>3. z \in Server /\ z.skip
  BY <1>2 DEF Server
<1> QED  BY <1>1, <1>3 DEF Outcome, Error

\* A message of the extended protocol is answered, or is an error.
LEMMA OutcomeLine ==
  ASSUME NEW v \in Server, NEW m \in MessageOf, NEW o \in Outcomes(v, m),
         ~v.skip, m.kind \in ExtendedKinds
  PROVE  /\ o.srv \in Server
         /\ \/ /\ o.srv.tx = v.tx /\ ~o.srv.skip
               /\ o.replies = <<[kind |-> AnswerKind(m.kind), arg |-> "none"]>>
            \/ /\ o.srv.skip
               /\ \E cause \in {"client", "pooler"} :
                    o.replies = <<[kind |-> "error", arg |-> cause]>>
<1>0. o \in Extended(v, m) /\ m.kind # "sync"
  BY DEF Outcomes, ExtendedKinds
<1>1. CASE m.kind = "parse"
  <2>1. o \in ParseOutcomes(v, m.arg) /\ m.arg \in Queries
    BY <1>0, <1>1 DEF Extended, MessageOf, ClientKinds
  <2>2. ASSUME o \notin Fails(v, "client"), o \notin Fails(v, "pooler")
        PROVE  o = Outcome([v EXCEPT !.stmts = @ \cup {m.arg}], <<Answer("parsed")>>)
    BY <2>1, <2>2 DEF ParseOutcomes
  <2>3. [v EXCEPT !.stmts = @ \cup {m.arg}] \in Server
    BY <2>1 DEF Server
  <2> QED  BY <1>1, <2>2, <2>3, OutcomeFails DEF Outcome, Answer, AnswerKind, Server
<1>2. CASE m.kind = "bind"
  <2>1. o \in BindOutcomes(v, m.arg)
    BY <1>0, <1>2 DEF Extended
  <2> DEFINE z == [v EXCEPT !.vars = @ \cup (IF m.arg \in SetQueries THEN Vars ELSE {})]
  <2>2. ASSUME o \notin Fails(v, "client"), o \notin Fails(v, "pooler")
        PROVE  o = Outcome(z, <<Answer("bound")>>)
    BY <2>1, <2>2 DEF BindOutcomes
  <2>3. z \in Server /\ z.tx = v.tx /\ z.skip = v.skip
    BY DEF Server
  <2> HIDE DEF z
  <2>4. ASSUME NEW cause \in {"client", "pooler"}, o \in Fails(v, cause)
        PROVE  o.srv \in Server /\ o.srv.skip /\ o.replies = <<[kind |-> "error", arg |-> cause]>>
    BY <2>4, OutcomeFails
  <2>5. ASSUME o = Outcome(z, <<Answer("bound")>>)
        PROVE  /\ o.srv \in Server /\ o.srv.tx = v.tx /\ ~o.srv.skip
               /\ o.replies = <<[kind |-> AnswerKind(m.kind), arg |-> "none"]>>
    BY <1>2, <2>3, <2>5 DEF Outcome, Answer, AnswerKind
  <2> QED  BY <2>2, <2>4, <2>5
<1>3. CASE m.kind = "close"
  <2> DEFINE z == [v EXCEPT !.stmts = @ \ {m.arg}]
  <2>1. o = Outcome(z, <<Answer("closed")>>)
    BY <1>0, <1>3 DEF Extended
  <2>2. z \in Server /\ z.tx = v.tx /\ z.skip = v.skip
    BY DEF Server
  <2> QED  BY <1>3, <2>1, <2>2 DEF Outcome, Answer, AnswerKind
<1>4. CASE m.kind = "portal"
  <2>1. o = Outcome(v, <<Answer("closed")>>)
    BY <1>0, <1>4 DEF Extended
  <2> QED  BY <1>4, <2>1 DEF Outcome, Answer, AnswerKind
<1> QED  BY <1>1, <1>2, <1>3, <1>4 DEF ExtendedKinds

\* What a simple query, or a reset, makes of the session.
LEMMA EffectTypes ==
  ASSUME NEW v \in Server, NEW m \in MessageOf, NEW z \in Effects(v, m),
         m.kind \in ClientKinds \cup {"clean", "rollback and clean"}
  PROVE  z \in Server /\ z.skip = v.skip
<1>0. m.arg \subseteq Vars
  BY DEF MessageOf, ClientKinds
<1> DEFINE back == RolledBack(v)
<1>1. back \in Server /\ back.skip = v.skip
  BY DEF Server, Tx, RolledBack
<1>2. \A u \in {v, back} : [u EXCEPT !.vars = @ \ m.arg] \in Server
                           /\ [u EXCEPT !.vars = @ \ m.arg].skip = v.skip
  BY <1>1 DEF Server
<1>3. /\ [v EXCEPT !.tx = "idle"] \in Server /\ [v EXCEPT !.tx = "open"] \in Server
      /\ [v EXCEPT !.stmts = {}, !.vars = {}] \in Server
      /\ [v EXCEPT !.vars = @ \cup m.arg] \in Server
  BY <1>0 DEF Server, Tx
<1>4. /\ [v EXCEPT !.tx = "idle"].skip = v.skip /\ [v EXCEPT !.tx = "open"].skip = v.skip
      /\ [v EXCEPT !.stmts = {}, !.vars = {}].skip = v.skip
      /\ [v EXCEPT !.vars = @ \cup m.arg].skip = v.skip
  BY DEF Server
<1> HIDE DEF back
<1>5. z \in {v, back, [v EXCEPT !.vars = @ \ m.arg], [back EXCEPT !.vars = @ \ m.arg],
             [v EXCEPT !.tx = "idle"], [v EXCEPT !.tx = "open"],
             [v EXCEPT !.stmts = {}, !.vars = {}], [v EXCEPT !.vars = @ \cup m.arg]}
  BY DEF Effects, Cleaned, Changed, back
<1> QED  BY <1>1, <1>2, <1>3, <1>4, <1>5

\* A simple query is answered, or refused, and then the status follows.
LEMMA OutcomeSimple ==
  ASSUME NEW v \in Server, NEW m \in MessageOf, NEW o \in Outcomes(v, m),
         ~v.skip, m.kind \in ClientKinds \cup {"clean", "rollback and clean"}
  PROVE  /\ o.srv \in Server /\ ~o.srv.skip
         /\ \/ o.replies = <<[kind |-> "done", arg |-> "none"], [kind |-> "ready", arg |-> o.srv.tx]>>
            \/ o.replies = <<[kind |-> "error", arg |-> "client"], [kind |-> "ready", arg |-> o.srv.tx]>>
<1>0. o \in Simple(v, m)
  BY DEF Outcomes, ExtendedKinds, ClientKinds
<1>1. CASE \E z \in Effects(v, m) : o = Outcome(Ended(z), <<Answer("done"), Ready(z)>>)
  <2>1. PICK z \in Effects(v, m) : o = Outcome(Ended(z), <<Answer("done"), Ready(z)>>)
    BY <1>1
  <2>2. z \in Server /\ ~z.skip
    BY EffectTypes
  <2>3. Ended(z) \in Server /\ ~Ended(z).skip /\ Ended(z).tx = z.tx
    BY <2>2 DEF Ended, Server
  <2> QED  BY <2>1, <2>3 DEF Outcome, Answer, Ready
<1>2. CASE o = Outcome(Aborted(v), <<Error("client"), Ready(Aborted(v))>>)
  <2>1. Aborted(v) \in Server /\ ~Aborted(v).skip
    BY DEF Aborted, Server, Tx
  <2> QED  BY <1>2, <2>1 DEF Outcome, Error, Ready
<1> QED  BY <1>0, <1>1, <1>2 DEF Simple

\* The replies reach the wire.
Replied(r, replies, c) == r \o [i \in DOMAIN replies |-> To(replies[i], c)]

\* No reply, one reply or two, added to those on the wire.
LEMMA RepliedNone ==
  ASSUME NEW r \in Seq(ReplyOf), NEW c
  PROVE  Replied(r, <<>>, c) = r
<1>1. [i \in DOMAIN <<>> |-> To(<<>>[i], c)] = <<>>
  OBVIOUS
<1> QED  BY <1>1, ConcatEmptySeq DEF Replied

\* One reply.
LEMMA RepliedOne ==
  ASSUME NEW r \in Seq(ReplyOf), NEW c, NEW a, To(a, c) \in ReplyOf
  PROVE  LET r2 == Replied(r, <<a>>, c)
         IN  /\ r2 \in Seq(ReplyOf) /\ Len(r) \in Nat /\ Len(r2) = Len(r) + 1
             /\ \A i \in 1..Len(r) : r2[i] = r[i]
             /\ r2[Len(r) + 1] = To(a, c)
<1> DEFINE z == [i \in DOMAIN <<a>> |-> To(<<a>>[i], c)]
<1>1. z = <<To(a, c)>>
  OBVIOUS
<1> HIDE DEF z
<1>2. z \in Seq(ReplyOf) /\ Len(z) = 1 /\ z[1] = To(a, c)
  BY <1>1
<1>3. /\ r \o z \in Seq(ReplyOf) /\ Len(r \o z) = Len(r) + Len(z)
      /\ \A i \in 1..(Len(r) + Len(z)) : (r \o z)[i] = IF i <= Len(r) THEN r[i] ELSE z[i - Len(r)]
  BY <1>2, ConcatProperties
<1>4. Len(r) \in Nat
  OBVIOUS
<1>5. (r \o z)[Len(r) + 1] = z[1]
  BY <1>2, <1>3, <1>4
<1>6. Replied(r, <<a>>, c) = r \o z
  BY DEF Replied, z
<1>7. \A i \in 1..Len(r) : (r \o z)[i] = r[i]
  BY <1>2, <1>3, <1>4
<1> QED  BY <1>1, <1>2, <1>3, <1>4, <1>5, <1>6, <1>7

\* Two replies.
LEMMA RepliedTwo ==
  ASSUME NEW r \in Seq(ReplyOf), NEW c, NEW a, NEW b, To(a, c) \in ReplyOf, To(b, c) \in ReplyOf
  PROVE  LET r2 == Replied(r, <<a, b>>, c)
         IN  /\ r2 \in Seq(ReplyOf) /\ Len(r) \in Nat /\ Len(r2) = Len(r) + 2
             /\ \A i \in 1..Len(r) : r2[i] = r[i]
             /\ r2[Len(r) + 1] = To(a, c) /\ r2[Len(r) + 2] = To(b, c)
<1> DEFINE z == [i \in DOMAIN <<a, b>> |-> To(<<a, b>>[i], c)]
<1>1. z = <<To(a, c), To(b, c)>>
  OBVIOUS
<1> HIDE DEF z
<1>2. z \in Seq(ReplyOf) /\ Len(z) = 2 /\ z[1] = To(a, c) /\ z[2] = To(b, c)
  BY <1>1
<1>3. /\ r \o z \in Seq(ReplyOf) /\ Len(r \o z) = Len(r) + Len(z)
      /\ \A i \in 1..(Len(r) + Len(z)) : (r \o z)[i] = IF i <= Len(r) THEN r[i] ELSE z[i - Len(r)]
  BY <1>2, ConcatProperties
<1>4. Len(r) \in Nat
  OBVIOUS
<1>5. (r \o z)[Len(r) + 1] = z[1] /\ (r \o z)[Len(r) + 2] = z[2]
  BY <1>2, <1>3, <1>4
<1>6. Replied(r, <<a, b>>, c) = r \o z
  BY DEF Replied, z
<1>7. \A i \in 1..Len(r) : (r \o z)[i] = r[i]
  BY <1>2, <1>3, <1>4
<1> QED  BY <1>1, <1>2, <1>3, <1>4, <1>5, <1>6, <1>7

\* A wire whose first message or reply is taken.
LEMMA WireTail ==
  ASSUME NEW M, NEW w \in Seq(M), w # <<>>
  PROVE  /\ Tail(w) \in Seq(M) /\ Len(w) \in Nat \ {0} /\ Len(Tail(w)) = Len(w) - 1
         /\ Head(w) = w[1] /\ w[1] \in M
         /\ \A i \in 1..(Len(w) - 1) : Tail(w)[i] = w[i + 1] /\ i + 1 \in 1..Len(w)
  OBVIOUS

\* What is left of one is nothing.
LEMMA SingletonTail ==
  ASSUME NEW M, NEW w \in Seq(M), w # <<>>
  PROVE  Tail(w) = <<>> <=> Len(w) = 1
<1>1. Len(w) \in Nat \ {0} /\ Len(Tail(w)) = Len(w) - 1 /\ Tail(w) \in Seq(M)
  OBVIOUS
<1> DEFINE u == Tail(w)
<1> HIDE DEF u
<1>2. u \in Seq(M) /\ Len(u) = Len(w) - 1
  BY <1>1 DEF u
<1>3. u = <<>> <=> Len(u) = 0
  BY <1>2, EmptySeq
<1> QED  BY <1>1, <1>2, <1>3 DEF u

\* The first message has been read.
LEMMA WaitingTail ==
  ASSUME NEW c, NEW p \in Seq(Item), NEW M, NEW w \in Seq(M), w # <<>>, Waiting(c, p, w)
  PROVE  /\ Waiting(c, p, Tail(w))
         /\ Len(p) - Len(w) + 1 \in 1..Len(p) /\ Asks(w[1], p[Len(p) - Len(w) + 1], c)
<1> DEFINE n == Len(p)
           l == Len(w)
           w2 == Tail(w)
<1>1. /\ l \in Nat \ {0} /\ Len(w2) = l - 1 /\ \A i \in 1..(l-1) : w2[i] = w[i+1] /\ i + 1 \in 1..l
  BY WireTail
<1>2. n \in Nat /\ l <= n /\ \A i \in 1..l : Asks(w[i], p[n - l + i], c)
  BY DEF Waiting
<1> HIDE DEF n, l, w2
<1>3. n - l + 1 \in 1..n /\ 1 \in 1..l
  BY <1>1, <1>2
<1>4. \A i \in 1..(l-1) : n - (l-1) + i = n - l + (i+1)
  BY <1>1, <1>2
<1>5. l - 1 <= n
  BY <1>1, <1>2
<1>6. Waiting(c, p, w2)
  BY <1>1, <1>2, <1>4, <1>5 DEF Waiting, n
<1> QED  BY <1>2, <1>3, <1>6 DEF n, l, w2

\* The server reads a message while all goes well.
LEMMA FlowingServed ==
  ASSUME NEW c \in Sessions, NEW p \in Seq(Item), NEW d, NEW w \in Seq(MessageOf), w # <<>>,
         NEW r \in Seq(ReplyOf), NEW t, NEW v \in Server,
         Flowing(c, p, d, w, r, t, v), Loose(p), Batch(p, d),
         NEW o \in Outcomes(v, Head(w))
  PROVE  LET r2 == Replied(r, o.replies, c)
         IN  /\ r2 \in Seq(ReplyOf) /\ o.srv \in Server
             /\ \/ Flowing(c, p, d, Tail(w), r2, t, o.srv)
                \/ /\ Len(r) + 1 \in 1..Len(p)
                   /\ Failing(c, p, d, Tail(w), r2, o.srv, Len(r) + 1)
<1> DEFINE m == Head(w)
           r2 == Replied(r, o.replies, c)
           n == Len(r)
<1>1. /\ Tail(w) \in Seq(MessageOf) /\ Len(w) \in Nat \ {0} /\ Len(Tail(w)) = Len(w) - 1
      /\ m = w[1] /\ m \in MessageOf
  BY WireTail
<1>2. /\ Waiting(c, p, Tail(w)) /\ Len(p) - Len(w) + 1 \in 1..Len(p)
      /\ Asks(m, p[Len(p) - Len(w) + 1], c)
  BY <1>1, WaitingTail DEF Flowing
<1>3. n \in Nat /\ Len(p) \in Nat /\ Len(p) - Len(w) + 1 = n + 1
  BY <1>1 DEF Flowing
<1>4. n + 1 \in 1..Len(p) /\ Asks(m, p[n+1], c)
  BY <1>2, <1>3
<1>5. p[n+1].kind = AnswerKind(m.kind) /\ m.kind \in Line
  BY <1>4 DEF Asks
<1>6. Answering(c, p, r, n) /\ Status(r, t, v) /\ ~v.skip
  BY DEF Flowing
\* the answer the plan has
<1>7. ASSUME NEW arg \in {"none"} \cup Tx, NEW z \in Server,
             r2 = Replied(r, <<[kind |-> p[n+1].kind, arg |-> arg]>>, c),
             z.tx = v.tx, ~z.skip, p[n+1].kind = "ready" => arg = v.tx
      PROVE  r2 \in Seq(ReplyOf) /\ Flowing(c, p, d, Tail(w), r2, t, z)
  <2> DEFINE a == [kind |-> p[n+1].kind, arg |-> arg]
  <2>0. p[n+1] \in Item
    BY <1>4
  <2>1. p[n+1].kind \in Kinds
    BY <2>0 DEF Item
  <2>2. To(a, c) = [kind |-> p[n+1].kind, arg |-> arg, to |-> c] /\ To(a, c) \in ReplyOf
    BY <2>1 DEF To, ReplyOf, Senders
  <2>3. /\ r2 \in Seq(ReplyOf) /\ Len(r2) = n + 1 /\ \A i \in 1..n : r2[i] = r[i]
        /\ r2[n+1] = To(a, c)
    BY <1>7, <2>2, RepliedOne
  <2> HIDE DEF a, r2
  <2>4. \A i \in 1..(n+1) : i \in 1..n \/ i = n + 1
    BY <1>3
  <2>5. Answering(c, p, r2, n+1)
    BY <1>3, <1>4, <1>6, <2>2, <2>3, <2>4 DEF Answering
  <2>6. Status(r2, t, z)
    <3>0. r2[n+1].kind = p[n+1].kind /\ r2[n+1].arg = arg
      BY <2>2, <2>3
    <3>3. \A i \in 1..n : r2[i].kind = "ready" => r2[i].arg = z.tx
      BY <1>6, <1>7, <2>3 DEF Status
    <3>1. \A i \in 1..(n+1) : r2[i].kind = "ready" => r2[i].arg = z.tx
      BY <1>7, <2>4, <3>0, <3>3
    <3>2. ASSUME \A i \in 1..(n+1) : r2[i].kind # "ready"  PROVE t = z.tx
      <4>1. \A i \in 1..n : r[i].kind # "ready"
        <5>1. \A i \in 1..n : i \in 1..(n+1) /\ r2[i] = r[i]
          BY <1>3, <2>3
        <5> QED  BY <3>2, <5>1
      <4> QED  BY <4>1, <1>6, <1>7 DEF Status
    <3> QED  BY <2>3, <3>1, <3>2 DEF Status
  <2>7. Len(p) = Len(r2) + Len(Tail(w))
    BY <1>1, <1>3, <2>3
  <2> QED  BY <1>2, <1>7, <2>3, <2>5, <2>6, <2>7 DEF Flowing
<1>8. CASE m.kind = "sync"
  <2>1. /\ o.srv \in Server /\ o.srv.tx = v.tx /\ ~o.srv.skip
        /\ o.replies = <<[kind |-> "ready", arg |-> v.tx]>>
    BY <1>8, OutcomeSync
  <2>2. p[n+1].kind = "ready" /\ v.tx \in Tx
    BY <1>5, <1>8 DEF AnswerKind, Server
  <2>3. r2 \in Seq(ReplyOf) /\ Flowing(c, p, d, Tail(w), r2, t, o.srv)
    BY <2>1, <2>2, <1>7
  <2> QED  BY <2>1, <2>3
<1>9. CASE m.kind # "sync"
  <2>0. m.kind \in ExtendedKinds /\ p[n+1].kind # "ready"
    BY <1>5, <1>9 DEF Line, AnswerKind
  <2>1. o.srv \in Server
    BY <1>1, <1>6, <2>0, OutcomeLine
  <2>2. CASE /\ o.srv.tx = v.tx /\ ~o.srv.skip
             /\ o.replies = <<[kind |-> AnswerKind(m.kind), arg |-> "none"]>>
    <3>1. r2 \in Seq(ReplyOf) /\ Flowing(c, p, d, Tail(w), r2, t, o.srv)
      BY <1>5, <1>7, <2>0, <2>1, <2>2
    <3> QED  BY <2>1, <3>1
  <2>3. ASSUME o.srv.skip, NEW cause \in {"client", "pooler"},
               o.replies = <<[kind |-> "error", arg |-> cause]>>
        PROVE  r2 \in Seq(ReplyOf) /\ Failing(c, p, d, Tail(w), r2, o.srv, n + 1)
    <3> DEFINE a == [kind |-> "error", arg |-> cause]
    <3>1. To(a, c) = [kind |-> "error", arg |-> cause, to |-> c] /\ To(a, c) \in ReplyOf
      BY DEF To, ReplyOf, Senders
    <3>2. /\ r2 \in Seq(ReplyOf) /\ Len(r2) = n + 1 /\ \A i \in 1..n : r2[i] = r[i]
          /\ r2[n+1] = To(a, c)
      BY <2>3, <3>1, RepliedOne
    <3> HIDE DEF a, r2
    <3>3. Answering(c, p, r2, (n+1) - 1)
      BY <1>3, <1>4, <1>6, <3>2 DEF Answering
    <3>4. p[Len(p)].kind = "ready" => Tail(w) # <<>>
      <4> SUFFICES ASSUME p[Len(p)].kind = "ready", Tail(w) = <<>>  PROVE FALSE
        OBVIOUS
      <4>2. Len(w) = 1
        BY <1>1, SingletonTail
      <4>1. Len(w) = 1 /\ n + 1 = Len(p)
        BY <1>3, <4>2
      <4> QED  BY <4>1, <2>0
    <3>5. n + 1 <= Len(r2) /\ (n + 1) + Len(Tail(w)) <= Len(p)
      BY <1>1, <1>3, <3>2
    <3> QED  BY <1>2, <2>0, <2>3, <3>1, <3>2, <3>3, <3>4, <3>5 DEF Failing, Flowing
  <2> QED  BY <1>1, <1>4, <1>6, <2>0, <2>1, <2>2, <2>3, OutcomeLine
<1> QED  BY <1>8, <1>9

\* The server reads on after an error, up to the Sync.
LEMMA FailingServed ==
  ASSUME NEW c \in Sessions, NEW p \in Seq(Item), NEW d, NEW w \in Seq(MessageOf), w # <<>>,
         NEW r \in Seq(ReplyOf), NEW v \in Server, NEW k \in 1..Len(p),
         Failing(c, p, d, w, r, v, k), Loose(p), Batch(p, d),
         NEW o \in Outcomes(v, Head(w))
  PROVE  LET r2 == Replied(r, o.replies, c)
         IN  /\ r2 \in Seq(ReplyOf) /\ o.srv \in Server
             /\ Failing(c, p, d, Tail(w), r2, o.srv, k)
<1> DEFINE m == Head(w)
           r2 == Replied(r, o.replies, c)
           h == Len(p) - Len(w) + 1
<1>1. /\ Tail(w) \in Seq(MessageOf) /\ Len(w) \in Nat \ {0} /\ Len(Tail(w)) = Len(w) - 1
      /\ m = w[1] /\ m \in MessageOf
  BY WireTail
<1>2. Waiting(c, p, Tail(w)) /\ h \in 1..Len(p) /\ Asks(m, p[h], c)
  BY <1>1, WaitingTail DEF Failing
<1>3. v.skip /\ Len(r) = k /\ Len(p) \in Nat /\ k \in Nat
  BY DEF Failing
<1>4. p[h].kind = "ready" <=> m.kind = "sync"
  BY <1>2 DEF Asks, AnswerKind, Line, ExtendedKinds
<1>5. k + Len(Tail(w)) <= Len(p)
  BY <1>1, <1>3 DEF Failing
<1>6. CASE m.kind = "sync"
  <2>1. /\ o.srv \in Server /\ o.srv.tx = v.tx /\ ~o.srv.skip
        /\ o.replies = <<[kind |-> "ready", arg |-> v.tx]>>
    BY <1>6, OutcomeSync
  <2>2. h = Len(p) /\ p[Len(p)].kind = "ready"
    BY <1>2, <1>4, <1>6 DEF Loose
  <2>3. Tail(w) = <<>>
    <3>1. Len(w) = 1
      BY <1>1, <1>3, <2>2
    <3> QED  BY <3>1, SingletonTail
  <2>4. d.batch = "closed"
    BY <2>2, <1>2 DEF Batch
  <2> DEFINE a == [kind |-> "ready", arg |-> v.tx]
  <2>5. To(a, c) = [kind |-> "ready", arg |-> v.tx, to |-> c] /\ To(a, c) \in ReplyOf
    BY DEF To, ReplyOf, Senders, Server, Kinds
  <2>6. /\ r2 \in Seq(ReplyOf) /\ Len(r2) = k + 1 /\ \A i \in 1..k : r2[i] = r[i]
        /\ r2[k+1] = To(a, c)
    <3>1. r2 = Replied(r, <<a>>, c)
      BY <2>1
    <3> HIDE DEF a, r2
    <3>2. To(a, c) \in ReplyOf
      BY <2>5
    <3> QED  BY <1>3, <3>1, <3>2, RepliedOne
  <2> HIDE DEF a, r2
  <2>7. Answering(c, p, r2, k-1) /\ r2[k] = r[k] /\ k <= Len(r2)
    BY <1>3, <2>6 DEF Failing, Answering
  <2> QED  BY <1>2, <1>5, <2>1, <2>3, <2>4, <2>5, <2>6, <2>7 DEF Failing, r2
<1>7. CASE m.kind # "sync"
  <2>1. o.srv = v /\ r2 = r
    BY <1>3, <1>7, OutcomeSkipped, RepliedNone
  <2>2. ASSUME p[Len(p)].kind = "ready"  PROVE Tail(w) # <<>>
    <3> SUFFICES ASSUME Tail(w) = <<>>  PROVE FALSE
      OBVIOUS
    <3>1. Len(w) = 1
      BY SingletonTail
    <3>2. h = Len(p)
      BY <1>3, <3>1
    <3> QED  BY <2>2, <3>2, <1>4, <1>7
  <2> HIDE DEF r2, m
  <2>3. Failing(c, p, d, Tail(w), r, v, k)
    BY <1>2, <1>3, <1>5, <2>2 DEF Failing
  <2> QED  BY <2>1, <2>3 DEF r2
<1> QED  BY <1>6, <1>7

\* A server that skips reads on: it skips, or it reads the Sync and is back.
LEMMA SkippingServed ==
  ASSUME NEW c \in Sessions, NEW p \in Seq(Item), NEW d, NEW w \in Seq(MessageOf), w # <<>>,
         NEW r \in Seq(ReplyOf), NEW t, NEW v \in Server,
         Skipping(c, p, d, w, r, v),
         NEW o \in Outcomes(v, Head(w))
  PROVE  LET r2 == Replied(r, o.replies, c)
         IN  /\ r2 \in Seq(ReplyOf) /\ o.srv \in Server
             /\ \/ Flowing(c, p, d, Tail(w), r2, t, o.srv)
                \/ Skipping(c, p, d, Tail(w), r2, o.srv)
<1> DEFINE m == Head(w)
           r2 == Replied(r, o.replies, c)
<1>1. /\ Tail(w) \in Seq(MessageOf) /\ Len(w) \in Nat \ {0} /\ Len(Tail(w)) = Len(w) - 1
      /\ m = w[1] /\ m \in MessageOf /\ 1 \in 1..Len(w)
      /\ \A i \in 1..(Len(w) - 1) : Tail(w)[i] = w[i + 1] /\ i + 1 \in 1..Len(w)
  BY WireTail
<1>2. v.skip /\ r = <<>> /\ (m.kind = "sync" <=> 1 = Len(w) /\ p # <<>>)
  BY <1>1 DEF Skipping
<1>6. CASE m.kind = "sync"
  <2>1. /\ o.srv \in Server /\ o.srv.tx = v.tx /\ ~o.srv.skip
        /\ o.replies = <<[kind |-> "ready", arg |-> v.tx]>>
    BY <1>6, OutcomeSync
  <2>2. Len(p) = 1 /\ p[1].kind = "ready" /\ d.batch = "closed"
    BY <1>2, <1>6 DEF Skipping
  <2>3. Tail(w) = <<>> /\ Len(Tail(w)) = 0
    BY <1>1, <1>2, <1>6, SingletonTail
  <2> DEFINE a == [kind |-> "ready", arg |-> v.tx]
  <2>5. To(a, c) = [kind |-> "ready", arg |-> v.tx, to |-> c] /\ To(a, c) \in ReplyOf
    BY DEF To, ReplyOf, Senders, Server, Kinds
  <2>6. Len(r) = 0
    BY <1>2
  <2>7. r2 \in Seq(ReplyOf) /\ Len(r2) = 1 /\ r2[1] = To(a, c)
    <3>1. r2 = Replied(r, <<a>>, c)
      BY <2>1
    <3> HIDE DEF a, r2
    <3>2. To(a, c) \in ReplyOf
      BY <2>5
    <3>3. r2 \in Seq(ReplyOf) /\ Len(r2) = Len(r) + 1 /\ r2[Len(r) + 1] = To(a, c)
      BY <3>1, <3>2, RepliedOne
    <3> QED  BY <2>6, <3>3
  <2> HIDE DEF a, r2
  <2>8. Answering(c, p, r2, 1) /\ Status(r2, t, o.srv)
    BY <2>1, <2>2, <2>5, <2>7 DEF Answering, Status
  <2> DEFINE u == Tail(w)
  <2>11. Len(u) = 0
    BY <2>3
  <2> HIDE DEF u
  <2>9. Waiting(c, p, u)
    BY <2>2, <2>11 DEF Waiting
  <2>10. Flowing(c, p, d, Tail(w), r2, t, o.srv)
    BY <2>1, <2>2, <2>7, <2>8, <2>9, <2>11 DEF Flowing, u
  <2> QED  BY <2>1, <2>7, <2>10 DEF r2
<1>7. CASE m.kind # "sync"
  <2>1. o.srv = v /\ r2 = r
    BY <1>2, <1>7, OutcomeSkipped, RepliedNone
  <2>2. p # <<>> => Tail(w) # <<>>
    BY <1>2, <1>7, SingletonTail
  <2>3. \A i \in 1..Len(Tail(w)) :
          /\ Tail(w)[i].from = c /\ Tail(w)[i].kind \in Line
          /\ Tail(w)[i].kind = "sync" <=> i = Len(Tail(w)) /\ p # <<>>
    <3> SUFFICES ASSUME NEW i \in 1..(Len(w) - 1)
                 PROVE  /\ Tail(w)[i].from = c /\ Tail(w)[i].kind \in Line
                        /\ Tail(w)[i].kind = "sync" <=> i = Len(w) - 1 /\ p # <<>>
      BY <1>1
    <3>1. /\ w[i+1].from = c /\ w[i+1].kind \in Line
          /\ w[i+1].kind = "sync" <=> i + 1 = Len(w) /\ p # <<>>
      BY <1>1 DEF Skipping
    <3>2. i + 1 = Len(w) <=> i = Len(w) - 1
      BY <1>1
    <3> QED  BY <1>1, <3>1, <3>2
  <2>4. Len(p) = 1 => p # <<>>
    <3>1. p = <<>> <=> Len(p) = 0
      BY EmptySeq
    <3> QED  BY <3>1
  <2>5. Skipping(c, p, d, Tail(w), r, v)
    BY <2>2, <2>3, <2>4 DEF Skipping
  <2> QED  BY <2>1, <2>5
<1> QED  BY <1>6, <1>7

\* A server answers the simple query that waits for it.
LEMMA QueryingServed ==
  ASSUME NEW c \in Sessions, NEW p \in Seq(Item), NEW d, NEW w \in Seq(MessageOf), w # <<>>,
         NEW r \in Seq(ReplyOf), NEW t, NEW v \in Server,
         Querying(c, p, d, w, r, v),
         NEW o \in Outcomes(v, Head(w))
  PROVE  LET r2 == Replied(r, o.replies, c)
         IN  /\ r2 \in Seq(ReplyOf) /\ o.srv \in Server
             /\ \/ Flowing(c, p, d, Tail(w), r2, t, o.srv)
                \/ 1 \in 1..Len(p) /\ Failing(c, p, d, Tail(w), r2, o.srv, 1)
<1> DEFINE m == Head(w)
           r2 == Replied(r, o.replies, c)
<1>1. /\ Tail(w) \in Seq(MessageOf) /\ Tail(w) = <<>> /\ Len(Tail(w)) = 0
      /\ m = w[1] /\ m \in MessageOf
  BY WireTail, SingletonTail DEF Querying
<1>2. ~v.skip /\ m.kind \in ClientKinds /\ Len(r) = 0 /\ d.batch = "closed"
  BY <1>1 DEF Querying
<1>3. Len(p) = 2 /\ p[1].kind = "done" /\ p[2].kind = "ready"
  BY DEF Querying
<1>4. Waiting(c, p, Tail(w))
  BY <1>1, <1>3 DEF Waiting
<1>5. /\ o.srv \in Server /\ ~o.srv.skip
      /\ \/ o.replies = <<[kind |-> "done", arg |-> "none"], [kind |-> "ready", arg |-> o.srv.tx]>>
         \/ o.replies = <<[kind |-> "error", arg |-> "client"], [kind |-> "ready", arg |-> o.srv.tx]>>
  BY <1>1, <1>2, OutcomeSimple
<1> DEFINE b == [kind |-> "ready", arg |-> o.srv.tx]
<1>6. To(b, c) = [kind |-> "ready", arg |-> o.srv.tx, to |-> c] /\ To(b, c) \in ReplyOf
  BY <1>5 DEF To, ReplyOf, Senders, Server, Kinds
<1>7. CASE o.replies = <<[kind |-> "done", arg |-> "none"], b>>
  <2> DEFINE a == [kind |-> "done", arg |-> "none"]
  <2>1. To(a, c) = [kind |-> "done", arg |-> "none", to |-> c] /\ To(a, c) \in ReplyOf
    BY DEF To, ReplyOf, Senders, Kinds
  <2>2. r2 \in Seq(ReplyOf) /\ Len(r2) = 2 /\ r2[1] = To(a, c) /\ r2[2] = To(b, c)
    <3>1. r2 = Replied(r, <<a, b>>, c)
      BY <1>7
    <3> HIDE DEF a, b, r2
    <3>2. To(a, c) \in ReplyOf /\ To(b, c) \in ReplyOf
      BY <1>6, <2>1
    <3>3. /\ r2 \in Seq(ReplyOf) /\ Len(r2) = Len(r) + 2
          /\ r2[Len(r) + 1] = To(a, c) /\ r2[Len(r) + 2] = To(b, c)
      BY <3>1, <3>2, RepliedTwo
    <3> QED  BY <1>2, <3>3
  <2> HIDE DEF a, b, r2
  <2>3. Answering(c, p, r2, 2)
    BY <1>3, <1>6, <2>1, <2>2 DEF Answering
  <2>4. Status(r2, t, o.srv)
    BY <1>6, <2>1, <2>2 DEF Status
  <2>5. Flowing(c, p, d, Tail(w), r2, t, o.srv)
    <3> DEFINE u == Tail(w)
    <3>1. Len(u) = 0 /\ Waiting(c, p, u)
      BY <1>1, <1>4
    <3> HIDE DEF u
    <3>2. Flowing(c, p, d, u, r2, t, o.srv)
      BY <1>2, <1>3, <1>5, <2>2, <2>3, <2>4, <3>1 DEF Flowing
    <3> QED  BY <3>2 DEF u
  <2> QED  BY <1>5, <2>2, <2>5 DEF r2
<1>8. CASE o.replies = <<[kind |-> "error", arg |-> "client"], b>>
  <2> DEFINE a == [kind |-> "error", arg |-> "client"]
  <2>1. To(a, c) = [kind |-> "error", arg |-> "client", to |-> c] /\ To(a, c) \in ReplyOf
    BY DEF To, ReplyOf, Senders
  <2>2. r2 \in Seq(ReplyOf) /\ Len(r2) = 2 /\ r2[1] = To(a, c) /\ r2[2] = To(b, c)
    <3>1. r2 = Replied(r, <<a, b>>, c)
      BY <1>8
    <3> HIDE DEF a, b, r2
    <3>2. To(a, c) \in ReplyOf /\ To(b, c) \in ReplyOf
      BY <1>6, <2>1
    <3>3. /\ r2 \in Seq(ReplyOf) /\ Len(r2) = Len(r) + 2
          /\ r2[Len(r) + 1] = To(a, c) /\ r2[Len(r) + 2] = To(b, c)
      BY <3>1, <3>2, RepliedTwo
    <3> QED  BY <1>2, <3>3
  <2> HIDE DEF a, b, r2
  <2>3. Answering(c, p, r2, 1 - 1)
    BY <1>3, <2>2 DEF Answering
  <2>4. 1 \in 1..Len(p) /\ Failing(c, p, d, Tail(w), r2, o.srv, 1)
    BY <1>1, <1>2, <1>3, <1>4, <1>5, <1>6, <2>1, <2>2, <2>3 DEF Failing
  <2> QED  BY <1>5, <2>2, <2>4 DEF r2
<1> QED  BY <1>5, <1>7, <1>8

\* The server reads a message of a session.
LEMMA ExchangeServed ==
  ASSUME NEW c \in Sessions, NEW p \in Seq(Item), NEW s, NEW d,
         NEW w \in Seq(MessageOf), w # <<>>,
         NEW r \in Seq(ReplyOf), NEW t, NEW v \in Server,
         Exchange(c, p, s, d, w, r, t, v),
         NEW o \in Outcomes(v, Head(w))
  PROVE  LET r2 == Replied(r, o.replies, c)
         IN  /\ r2 \in Seq(ReplyOf) /\ o.srv \in Server
             /\ Exchange(c, p, s, d, Tail(w), r2, t, o.srv)
<1> DEFINE r2 == Replied(r, o.replies, c)
<1> HIDE DEF r2
<1>1. Loose(p) /\ Batch(p, d)
  BY DEF Exchange
<1>2. ASSUME Flowing(c, p, d, w, r, t, v)
      PROVE  r2 \in Seq(ReplyOf) /\ o.srv \in Server /\ Exchange(c, p, s, d, Tail(w), r2, t, o.srv)
  BY <1>1, <1>2, FlowingServed DEF Exchange, r2
<1>3. ASSUME NEW k \in 1..Len(p), Failing(c, p, d, w, r, v, k)
      PROVE  r2 \in Seq(ReplyOf) /\ o.srv \in Server /\ Exchange(c, p, s, d, Tail(w), r2, t, o.srv)
  BY <1>1, <1>3, FailingServed DEF Exchange, r2
<1>4. ASSUME Skipping(c, p, d, w, r, v)
      PROVE  r2 \in Seq(ReplyOf) /\ o.srv \in Server /\ Exchange(c, p, s, d, Tail(w), r2, t, o.srv)
  BY <1>4, SkippingServed DEF Exchange, r2
<1>5. ASSUME Querying(c, p, d, w, r, v)
      PROVE  r2 \in Seq(ReplyOf) /\ o.srv \in Server /\ Exchange(c, p, s, d, Tail(w), r2, t, o.srv)
  BY <1>5, QueryingServed DEF Exchange, r2
<1> QED  BY <1>2, <1>3, <1>4, <1>5 DEF Exchange, r2

-----------------------------------------------------------------------------
(* A simple query is sent *)

\* Its plan.
NoteOf(kind) == [kind |-> kind, disp |-> "forward", query |-> NoQuery]
QueryPlan == Append(<<NoteOf("done")>>, NoteOf("ready"))

\* A note of a reply the client gets is an item of a plan.
LEMMA NoteTyped == \A k \in Kinds : NoteOf(k) \in Item
  BY DEF NoteOf, Item, Disposition

\* A simple query on a connection with nothing under way has a plan of two.
LEMMA ExchangeQueries ==
  ASSUME NEW c, NEW s \in Statements, NEW d \in ClientOf, NEW d2 \in ClientOf,
         NEW t, NEW v, NEW m,
         s.parses = <<>>, s.closes = <<>>, d.owed = <<>>, ~v.skip,
         d2.owed = <<"done", "ready">>, d2.batch = "closed", ~d2.misordered,
         m.from = c, m.kind \in ClientKinds
  PROVE  /\ QueryPlan \in Seq(Item) /\ Settled(QueryPlan)
         /\ Exchange(c, QueryPlan, s, d2, <<m>>, <<>>, t, v)
<1> DEFINE p1 == <<NoteOf("done")>>
           p2 == Append(p1, NoteOf("ready"))
           d1 == [d EXCEPT !.owed = <<"done">>]
<1>1. NoteOf("done") \in Item /\ NoteOf("ready") \in Item
  BY NoteTyped DEF Kinds
<1>2. p1 \in Seq(Item) /\ p2 \in Seq(Item) /\ p2 = QueryPlan /\ p1 = Append(<<>>, NoteOf("done"))
  <2>1. p1 \in Seq(Item) /\ p1 = Append(<<>>, NoteOf("done")) /\ <<>> \in Seq(Item)
    BY <1>1
  <2>2. p2 \in Seq(Item)
    BY <1>1, <2>1, PlanAppend
  <2> QED  BY <2>1, <2>2 DEF QueryPlan
<1>3. /\ Len(QueryPlan) = 2
      /\ QueryPlan[1] = NoteOf("done") /\ QueryPlan[2] = NoteOf("ready")
  <2>1. Len(p1) = 1 /\ p1[1] = NoteOf("done")
    OBVIOUS
  <2> HIDE DEF p1
  <2>2. Len(p2) = 2 /\ p2[2] = NoteOf("ready") /\ p2[1] = p1[1]
    BY <1>1, <1>2, <2>1, PlanAppend
  <2> QED  BY <1>2, <2>1, <2>2
<1>4. Books(<<>>, s, d)
  BY BooksNone
<1>5. d1 \in ClientOf /\ d1.owed = <<"done">>
  <2>1. <<"done">> \in Seq(Kinds)
    BY DEF Kinds
  <2> QED  BY <2>1 DEF ClientOf
<1>6. Books(p1, s, d1)
  <2>1. <<>> \in Seq(Item) /\ d1.owed = Append(d.owed, "done") /\ p1 = Append(<<>>, NoteOf("done"))
    BY <1>2, <1>5
  <2>2. NoteOf("done").kind = "done" /\ NoteOf("done").disp = "forward"
    BY DEF NoteOf
  <2> HIDE DEF d1, p1
  <2> QED  BY <1>1, <1>4, <1>5, <2>1, <2>2, BooksAppend
<1>7. Books(p2, s, d2)
  <2>1. d2.owed = Append(d1.owed, "ready")
    BY <1>5
  <2>2. NoteOf("ready").kind = "ready" /\ NoteOf("ready").disp = "forward"
    BY DEF NoteOf
  <2> HIDE DEF d1, p1
  <2> QED  BY <1>1, <1>2, <1>5, <1>6, <2>1, <2>2, BooksAppend
<1>8. Loose(QueryPlan) /\ Batch(QueryPlan, d2) /\ Settled(QueryPlan)
  <2>1. \A i \in 1..2 : i = 1 \/ i = 2
    OBVIOUS
  <2> QED  BY <2>1, <1>3 DEF Loose, Batch, Settled, NoteOf
<1>9. Querying(c, QueryPlan, d2, <<m>>, <<>>, v)
  BY <1>3 DEF Querying, NoteOf
<1> QED  BY <1>2, <1>7, <1>8, <1>9 DEF Exchange

-----------------------------------------------------------------------------
(* The pooler's record of a connection stays one *)

\* A set of numbers with a member has a least one.
LEMMA LeastOf ==
  ASSUME NEW S, S \subseteq Nat, S # {}
  PROVE  \E i \in S : \A j \in S : i <= j
<1>1. PICK i \in S : \A j \in S : ~(<<j, i>> \in OpToRel(<, Nat))
  BY NatLessThanWellFounded, WFMin
<1>2. \A j \in S : ~(j < i)
  BY <1>1 DEF OpToRel
<1> QED  BY <1>2

\* Every set of places can be counted upwards.
LEMMA PlacesCounted ==
  ASSUME NEW n \in Nat, NEW K \in SUBSET (1..n)
  PROVE  \E m \in 0..n : \E e \in [1..m -> K] : Enum(e, K, m)
<1> DEFINE id == [i \in Nat |-> i]
           Good(h) == \A L \in SUBSET (1..h) : \E u \in Seq(Nat) : Len(u) <= h /\ Lists(u, L, id)
           Bad == {h \in Nat : ~Good(h)}
<1>1. Good(0)
  <2> SUFFICES ASSUME NEW L \in SUBSET (1..0)
               PROVE  \E u \in Seq(Nat) : Len(u) <= 0 /\ Lists(u, L, id)
    OBVIOUS
  <2>1. L = {} /\ <<>> \in Seq(Nat) /\ Len(<<>>) <= 0
    OBVIOUS
  <2> HIDE DEF id
  <2>2. Lists(<<>>, L, id)
    BY <2>1, ListsEmpty
  <2> QED  BY <2>1, <2>2
<1>2. ASSUME NEW h \in Nat, Good(h)  PROVE Good(h + 1)
  <2> SUFFICES ASSUME NEW L \in SUBSET (1..(h+1))
               PROVE  \E u \in Seq(Nat) : Len(u) <= h + 1 /\ Lists(u, L, id)
    OBVIOUS
  <2>1. CASE h + 1 \notin L
    <3>1. L \in SUBSET (1..h)
      BY <2>1
    <3>2. PICK u \in Seq(Nat) : Len(u) <= h /\ Lists(u, L, id)
      BY <1>2, <3>1
    <3>3. Len(u) <= h + 1
      BY <3>2
    <3> QED  BY <3>2, <3>3
  <2>2. CASE h + 1 \in L
    <3> DEFINE K2 == L \ {h + 1}
    <3>1. K2 \in SUBSET (1..h) /\ L = K2 \cup {h + 1}
      BY <2>2
    <3> HIDE DEF K2
    <3>2. PICK u \in Seq(Nat) : Len(u) <= h /\ Lists(u, K2, id)
      BY <1>2, <3>1
    <3>3. h + 1 \in Nat /\ id[h+1] = h + 1
      OBVIOUS
    <3> HIDE DEF id
    <3>4. Lists(Append(u, h + 1), K2 \cup {h + 1}, id)
      BY <3>1, <3>2, <3>3, ListsAppend
    <3>5. Append(u, h + 1) \in Seq(Nat) /\ Len(Append(u, h + 1)) <= h + 1
      BY <3>2, <3>3
    <3> QED  BY <3>1, <3>4, <3>5
  <2> QED  BY <2>1, <2>2
<1> HIDE DEF Good
<1>3. Good(n)
  <2> SUFFICES ASSUME ~Good(n)  PROVE FALSE
    OBVIOUS
  <2>1. Bad \subseteq Nat /\ Bad # {}
    OBVIOUS
  <2>2. PICK i \in Bad : \A j \in Bad : i <= j
    BY <2>1, LeastOf
  <2>3. i # 0
    BY <1>1, <2>2
  <2>4. i - 1 \in Nat /\ (i - 1) + 1 = i /\ i - 1 \notin Bad
    BY <2>2, <2>3
  <2>5. Good(i - 1)
    BY <2>4
  <2>6. Good((i - 1) + 1)
    BY <1>2, <2>4, <2>5
  <2> QED  BY <2>2, <2>4, <2>6
<1>4. PICK u \in Seq(Nat) : Len(u) <= n /\ Lists(u, K, id)
  BY <1>3 DEF Good
<1>5. Len(u) \in 0..n
  BY <1>4
<1> QED  BY <1>4, <1>5 DEF Lists

\* A retain leaves the elements at the places it is told, and nothing else.
LEMMA RetainKeeps ==
  ASSUME NEW S, NEW seq \in Seq(S), NEW places \in SUBSET (1..Len(seq))
  PROVE  /\ Retain(seq, places) \in Seq(S)
         /\ Range(Retain(seq, places)) = {seq[i] : i \in places}
<1> DEFINE Fits(e) == /\ Range(e) = places
                      /\ \A i, j \in DOMAIN e : i < j => e[i] < e[j]
           All == UNION {[1..n -> places] : n \in 0..Len(seq)}
           at == CHOOSE e \in All : Fits(e)
<1>1. Len(seq) \in Nat
  OBVIOUS
<1>2. PICK m \in 0..Len(seq) : \E e \in [1..m -> places] : Enum(e, places, m)
  BY <1>1, PlacesCounted
<1>13. PICK e \in [1..m -> places] : Enum(e, places, m)
  BY <1>2
<1>3. e \in All /\ Fits(e)
  <2>1. DOMAIN e = 1..m
    OBVIOUS
  <2>2. Range(e) = places
    BY <1>13, <2>1 DEF Enum, Range
  <2> QED  BY <1>13, <2>1, <2>2 DEF Enum
<1>4. at \in All /\ Fits(at)
  BY <1>3
<1>5. Retain(seq, places) = [i \in DOMAIN at |-> seq[at[i]]]
  BY DEF Retain
<1> HIDE DEF at
<1>6. PICK n \in 0..Len(seq) : at \in [1..n -> places]
  BY <1>4
<1>7. DOMAIN at = 1..n /\ n \in Nat /\ \A i \in 1..n : at[i] \in places
  BY <1>6
<1>8. \A i \in 1..n : seq[at[i]] \in S
  <2>1. \A i \in 1..Len(seq) : seq[i] \in S
    OBVIOUS
  <2> QED  BY <1>7, <2>1
<1>9. Retain(seq, places) \in [1..n -> S]
  BY <1>5, <1>7, <1>8
<1>10. Retain(seq, places) \in Seq(S)
  BY <1>7, <1>9
<1>11. \A i \in places : \E j \in 1..n : at[j] = i
  BY <1>4, <1>7 DEF Range
<1>12. Range(Retain(seq, places)) = {seq[i] : i \in places}
  <2> DEFINE u == Retain(seq, places)
  <2>1. DOMAIN u = 1..n /\ \A i \in 1..n : u[i] = seq[at[i]]
    BY <1>5, <1>7
  <2> HIDE DEF u
  <2>2. Range(u) = {u[i] : i \in 1..n}
    BY <2>1 DEF Range
  <2>3. \A y \in Range(u) : \E i \in places : y = seq[i]
    BY <1>7, <2>1, <2>2
  <2>4. \A i \in places : seq[i] \in Range(u)
    BY <1>11, <2>1, <2>2
  <2> QED  BY <2>3, <2>4 DEF u
<1> QED  BY <1>10, <1>12

\* A cache without one of its statements.
LEMMA WithoutKeeps ==
  ASSUME NEW S, NEW seq \in Seq(S), NEW queries
  PROVE  /\ Without(seq, queries) \in Seq(S)
         /\ Range(Without(seq, queries)) = Range(seq) \ queries
<1> DEFINE places == {i \in DOMAIN seq : seq[i] \notin queries}
<1>1. places \in SUBSET (1..Len(seq))
  OBVIOUS
<1>2. {seq[i] : i \in places} = Range(seq) \ queries
  BY DEF Range
<1>3. Without(seq, queries) = Retain(seq, places)
  BY DEF Without
<1> HIDE DEF places
<1> QED  BY <1>1, <1>2, <1>3, RetainKeeps

\* Whatever is done to it, a record is one.
LEMMA RecordKept ==
  ASSUME NEW s \in Statements
  PROVE  /\ NoStatements \in Statements /\ ResetPending(s) \in Statements
         /\ DiscardAll(s) \in Statements /\ NotePortalClose(s) \in Statements
         /\ AfterParseReply(s) \in Statements /\ AfterCloseReply(s) \in Statements
         /\ RollBackAfterError(s) \in Statements
<1>1. /\ s.cache \in Seq(Queries) /\ s.closes \in Seq(Disposition)
      /\ s.parses \in Seq([reply : Disposition, query : Queries])
  BY DEF Statements
<1>2. Append(s.closes, "forward") \in Seq(Disposition)
  BY <1>1 DEF Disposition
<1>3. s.parses # <<>> => Tail(s.parses) \in Seq([reply : Disposition, query : Queries])
  BY <1>1
<1>4. s.closes # <<>> => Tail(s.closes) \in Seq(Disposition)
  BY <1>1
<1>5. RollBackAfterError(s) \in Statements
  <2> DEFINE pending == {p.query : p \in Range(s.parses)}
  <2>1. Without(s.cache, pending) \in Seq(Queries)
    BY <1>1, WithoutKeeps
  <2> HIDE DEF pending
  <2>2. [cache |-> Without(s.cache, pending), parses |-> <<>>, closes |-> <<>>] \in Statements
    BY <2>1 DEF Statements
  <2> QED  BY <2>2 DEF RollBackAfterError, pending
<1>6. <<>> \in Seq(Queries) /\ <<>> \in Seq(Disposition)
      /\ <<>> \in Seq([reply : Disposition, query : Queries])
  OBVIOUS
<1>7. NoStatements \in Statements /\ ResetPending(s) \in Statements /\ DiscardAll(s) \in Statements
  BY <1>1, <1>6 DEF Statements, NoStatements, ResetPending, DiscardAll
<1>8. NotePortalClose(s) \in Statements
  BY <1>1, <1>2 DEF Statements, NotePortalClose
<1>9. AfterParseReply(s) \in Statements /\ AfterCloseReply(s) \in Statements
  BY <1>1, <1>3, <1>4 DEF Statements, AfterParseReply, AfterCloseReply
<1> QED  BY <1>5, <1>7, <1>8, <1>9

\* What a Parse or a Bind that needs one does to the record.
LEMMA PrepareKept ==
  ASSUME NEW s \in Statements, NEW q \in Queries, NEW reply \in Disposition
  PROVE  LET prep == Prepare(s, q, reply)
         IN  /\ prep.st \in Statements
             /\ prep.hit <=> q \in Cached(s)
             /\ prep.hit => /\ prep.evicted = NoQuery
                            /\ prep.st.parses = s.parses /\ prep.st.closes = s.closes
             /\ ~prep.hit =>
                  /\ prep.st.parses = Append(s.parses, [reply |-> reply, query |-> q])
                  /\ prep.evicted = NoQuery => prep.st.closes = s.closes
                  /\ prep.evicted # NoQuery => /\ prep.evicted \in Queries
                                               /\ prep.st.closes = Append(s.closes, "suppress")
<1> DEFINE prep == Prepare(s, q, reply)
<1>1. /\ s.cache \in Seq(Queries) /\ s.closes \in Seq(Disposition)
      /\ s.parses \in Seq([reply : Disposition, query : Queries])
  BY DEF Statements
<1>2. CASE q \in Cached(s)
  <2>1. prep = [st |-> Touch(s, q), hit |-> TRUE, evicted |-> NoQuery]
    BY <1>2 DEF Prepare
  <2>2. Append(Without(s.cache, {q}), q) \in Seq(Queries)
    <3>1. Without(s.cache, {q}) \in Seq(Queries)
      BY <1>1, WithoutKeeps
    <3> QED  BY <3>1
  <2>3. /\ Touch(s, q) \in Statements
        /\ Touch(s, q).parses = s.parses /\ Touch(s, q).closes = s.closes
    BY <1>1, <2>2 DEF Touch, Statements
  <2> QED  BY <1>2, <2>1, <2>3
<1>3. CASE q \notin Cached(s)
  <2>1. prep = [st |-> RecordPrepare(s, q, reply), hit |-> FALSE, evicted |-> Evicted(s)]
    BY <1>3 DEF Prepare
  <2>2. Full(s) => s.cache # <<>>
    BY <1>1, MaxPreparedAssumption, EmptySeq DEF Full
  <2>3. Full(s) => Head(s.cache) \in Queries /\ Tail(s.cache) \in Seq(Queries)
    BY <1>1, <2>2
  <2>4. Append(IF Full(s) THEN Tail(s.cache) ELSE s.cache, q) \in Seq(Queries)
    BY <1>1, <2>3
  <2>5. Append(s.parses, [reply |-> reply, query |-> q])
          \in Seq([reply : Disposition, query : Queries])
    BY <1>1
  <2>6. Append(s.closes, "suppress") \in Seq(Disposition)
    BY <1>1 DEF Disposition
  <2>7. RecordPrepare(s, q, reply) \in Statements
    BY <1>1, <2>4, <2>5, <2>6 DEF RecordPrepare, Statements
  <2>8. Evicted(s) # NoQuery <=> Full(s)
    BY <2>3, StatementNamesAssumption DEF Evicted
  <2>9. prep.hit = FALSE /\ prep.evicted = Evicted(s) /\ prep.st = RecordPrepare(s, q, reply)
    BY <2>1
  <2>10. /\ RecordPrepare(s, q, reply).parses = Append(s.parses, [reply |-> reply, query |-> q])
         /\ RecordPrepare(s, q, reply).closes
              = IF Full(s) THEN Append(s.closes, "suppress") ELSE s.closes
    BY DEF RecordPrepare
  <2>11. Evicted(s) # NoQuery => Evicted(s) \in Queries
    BY <2>3 DEF Evicted
  <2> HIDE DEF prep
  <2> QED  BY <1>3, <2>7, <2>8, <2>9, <2>10, <2>11 DEF prep
<1> QED  BY <1>2, <1>3

-----------------------------------------------------------------------------
(* The proxy reads a reply *)

\* What comes is for the client: the reply the plan has next, or an error in its place.
LEMMA HeadAnswers ==
  ASSUME NEW c, NEW p \in Seq(Item), NEW s, NEW d, NEW w,
         NEW r \in Seq(ReplyOf), r # <<>>, NEW t, NEW v,
         Exchange(c, p, s, d, w, r, t, v)
  PROVE  /\ p # <<>> /\ r[1].to = c
         /\ \/ r[1].kind = p[1].kind /\ Flowing(c, p, d, w, r, t, v)
            \/ r[1].kind = p[1].kind /\ \E k \in 2..Len(p) : Failing(c, p, d, w, r, v, k)
            \/ r[1].kind = "error" /\ Failing(c, p, d, w, r, v, 1)
<1>1. Len(r) \in Nat \ {0} /\ 1 \in 1..Len(r) /\ Len(p) \in Nat
  BY WireTail
<1>2. p = <<>> <=> Len(p) = 0
  BY EmptySeq
<1>3. ASSUME Flowing(c, p, d, w, r, t, v)
      PROVE  p # <<>> /\ r[1].to = c /\ r[1].kind = p[1].kind
  <2>1. Answering(c, p, r, Len(r))
    BY <1>3 DEF Flowing
  <2> QED  BY <2>1, <1>1, <1>2 DEF Answering
<1>4. ASSUME NEW k \in 1..Len(p), Failing(c, p, d, w, r, v, k)
      PROVE  /\ p # <<>> /\ r[1].to = c
             /\ k = 1 => r[1].kind = "error"
             /\ k # 1 => k \in 2..Len(p) /\ r[1].kind = p[1].kind
  <2>1. p # <<>> /\ Answering(c, p, r, k-1) /\ r[k].to = c /\ r[k].kind = "error"
    BY <1>2, <1>4 DEF Failing
  <2>2. k # 1 => 1 \in 1..(k-1) /\ k \in 2..Len(p)
    BY <1>1
  <2> QED  BY <2>1, <2>2 DEF Answering
<1>5. ~Skipping(c, p, d, w, r, v) /\ ~Querying(c, p, d, w, r, v)
  BY DEF Skipping, Querying
<1> QED  BY <1>3, <1>4, <1>5 DEF Exchange

\* A plan without its first reply.
LEMMA PlanShrinks ==
  ASSUME NEW p \in Seq(Item), p # <<>>, NEW d, NEW d2, d2.batch = d.batch,
         Loose(p), Batch(p, d)
  PROVE  /\ Loose(Tail(p)) /\ Batch(Tail(p), d2) /\ (Settled(p) => Settled(Tail(p)))
         /\ Tail(p) # <<>> => Len(p) > 1 /\ Tail(p)[Len(p) - 1] = p[Len(p)]
<1> DEFINE n == Len(p)
           q == Tail(p)
<1>1. /\ n \in Nat \ {0} /\ Len(q) = n - 1 /\ q \in Seq(Item)
      /\ \A i \in 1..(n-1) : q[i] = p[i+1] /\ i + 1 \in 1..n
  BY PlanTail
<1>2. q = <<>> <=> n = 1
  BY SingletonTail
<1> HIDE DEF n, q
<1>3. q # <<>> => n > 1 /\ q[n-1] = p[n]
  <2> SUFFICES ASSUME q # <<>>  PROVE n > 1 /\ q[n-1] = p[n]
    OBVIOUS
  <2>1. n - 1 \in 1..(n-1) /\ (n - 1) + 1 = n /\ n > 1
    BY <1>1, <1>2
  <2> QED  BY <1>1, <2>1
<1>4. Loose(q)
  <2> SUFFICES ASSUME NEW i \in 1..(n-1)
               PROVE  /\ q[i].kind = "ready" => i = n - 1
                      /\ q[i].disp = "suppress" => q[i].kind \in {"parsed", "closed"}
                      /\ q[i].disp = "suppress" /\ i < n - 1 => q[i+1].kind # "ready"
    BY <1>1 DEF Loose
  <2>1. /\ p[i+1].kind = "ready" => i + 1 = n
        /\ p[i+1].disp = "suppress" => p[i+1].kind \in {"parsed", "closed"}
        /\ p[i+1].disp = "suppress" /\ i + 1 < n => p[(i+1)+1].kind # "ready"
    BY <1>1 DEF Loose, n
  <2>2. q[i] = p[i+1] /\ (i < n - 1 => q[i+1] = p[(i+1)+1] /\ i + 1 < n)
    BY <1>1
  <2>3. i + 1 = n => i = n - 1
    BY <1>1
  <2> QED  BY <2>1, <2>2, <2>3
<1>5. Batch(q, d2)
  BY <1>1, <1>3 DEF Batch, n
<1>6. Settled(p) => Settled(q)
  BY <1>1, <1>3 DEF Settled, n
<1> QED  BY <1>3, <1>4, <1>5, <1>6 DEF n, q

\* When the first reply of the plan has come, the same messages wait.
LEMMA WaitingShrinks ==
  ASSUME NEW c, NEW p \in Seq(Item), p # <<>>, NEW M, NEW w \in Seq(M),
         Waiting(c, p, w), Len(w) < Len(p)
  PROVE  Waiting(c, Tail(p), w)
<1> DEFINE n == Len(p)
           q == Tail(p)
           l == Len(w)
<1>1. /\ n \in Nat \ {0} /\ Len(q) = n - 1 /\ l \in Nat
      /\ \A i \in 1..(n-1) : q[i] = p[i+1] /\ i + 1 \in 1..n
  BY PlanTail
<1>2. l < n /\ \A i \in 1..l : Asks(w[i], p[n - l + i], c)
  BY DEF Waiting
<1> HIDE DEF n, q, l
<1>3. \A i \in 1..l : (n - 1) - l + i \in 1..(n-1) /\ ((n - 1) - l + i) + 1 = n - l + i
  BY <1>1, <1>2
<1>4. \A i \in 1..l : Asks(w[i], q[(n - 1) - l + i], c)
  BY <1>1, <1>2, <1>3
<1>5. l <= n - 1
  BY <1>1, <1>2
<1>6. Waiting(c, q, w)
  BY <1>1, <1>4, <1>5 DEF Waiting, l
<1> QED  BY <1>6 DEF q

\* When the first reply is read, the others answer what is left of the plan.
LEMMA AnsweringTail ==
  ASSUME NEW c, NEW p \in Seq(Item), p # <<>>, NEW r \in Seq(ReplyOf), r # <<>>,
         NEW n \in Nat \ {0}, Answering(c, p, r, n)
  PROVE  Answering(c, Tail(p), Tail(r), n - 1)
<1>1. /\ Len(p) \in Nat \ {0} /\ Len(Tail(p)) = Len(p) - 1
      /\ \A i \in 1..(Len(p) - 1) : Tail(p)[i] = p[i + 1]
  BY PlanTail
<1>2. /\ Len(r) \in Nat \ {0} /\ Len(Tail(r)) = Len(r) - 1
      /\ \A i \in 1..(Len(r) - 1) : Tail(r)[i] = r[i + 1]
  BY WireTail
<1>3. n <= Len(p) /\ n <= Len(r) /\ \A i \in 1..n : r[i].to = c /\ r[i].kind = p[i].kind
  BY DEF Answering
<1>4. \A i \in 1..(n-1) : i + 1 \in 1..n /\ i \in 1..(Len(p) - 1) /\ i \in 1..(Len(r) - 1)
  BY <1>1, <1>2, <1>3
<1>5. n - 1 <= Len(Tail(p)) /\ n - 1 <= Len(Tail(r))
  BY <1>1, <1>2, <1>3
<1>6. \A i \in 1..(n-1) : Tail(r)[i].to = c /\ Tail(r)[i].kind = Tail(p)[i].kind
  BY <1>1, <1>2, <1>3, <1>4
<1> QED  BY <1>5, <1>6 DEF Answering

\* A reply read from a server that goes on: it still goes on.
LEMMA FlowingRelayed ==
  ASSUME NEW c, NEW p \in Seq(Item), p # <<>>, NEW d, NEW d2, d2.batch = d.batch,
         NEW M, NEW w \in Seq(M), NEW r \in Seq(ReplyOf), r # <<>>, NEW t, NEW v,
         NEW t2, t2 = IF r[1].kind = "ready" THEN r[1].arg ELSE t,
         Flowing(c, p, d, w, r, t, v)
  PROVE  Flowing(c, Tail(p), d2, w, Tail(r), t2, v)
<1> DEFINE n == Len(r)
           r2 == Tail(r)
<1>1. Len(p) \in Nat \ {0} /\ Len(Tail(p)) = Len(p) - 1 /\ Len(w) \in Nat
  BY PlanTail
<1>2. /\ n \in Nat \ {0} /\ Len(r2) = n - 1
      /\ \A i \in 1..(n-1) : r2[i] = r[i+1] /\ i + 1 \in 1..n
  BY WireTail
<1>3. Len(p) = n + Len(w) /\ Waiting(c, p, w) /\ Answering(c, p, r, n) /\ Status(r, t, v)
  BY DEF Flowing
<1> HIDE DEF n, r2
<1>4. Waiting(c, Tail(p), w)
  BY <1>1, <1>2, <1>3, WaitingShrinks
<1>5. Answering(c, Tail(p), r2, n - 1)
  BY <1>2, <1>3, AnsweringTail DEF r2
<1>6. Status(r2, t2, v)
  <2>1. \A i \in 1..n : r[i].kind = "ready" => r[i].arg = v.tx
    BY <1>3 DEF Status, n
  <2>2. \A i \in 1..(n-1) : r2[i].kind = "ready" => r2[i].arg = v.tx
    BY <1>2, <2>1
  <2>3. ASSUME \A i \in 1..(n-1) : r2[i].kind # "ready"  PROVE t2 = v.tx
    <3>1. CASE r[1].kind = "ready"
      BY <3>1, <2>1, <1>2
    <3>2. CASE r[1].kind # "ready"
      <4>1. \A i \in 1..n : i = 1 \/ (i - 1 \in 1..(n-1) /\ (i - 1) + 1 = i)
        BY <1>2
      <4>2. ASSUME NEW i \in 1..n  PROVE r[i].kind # "ready"
        <5>1. CASE i = 1
          BY <3>2, <5>1
        <5>2. CASE i # 1
          <6>1. i - 1 \in 1..(n-1) /\ (i - 1) + 1 = i
            BY <4>1, <5>2
          <6>2. r2[i-1] = r[i]
            BY <1>2, <6>1
          <6> QED  BY <2>3, <6>1, <6>2
        <5> QED  BY <5>1, <5>2
      <4> QED  BY <3>2, <4>2, <1>3 DEF Status, n
    <3> QED  BY <3>1, <3>2
  <2> QED  BY <1>2, <2>2, <2>3 DEF Status
<1>7. Len(Tail(p)) = Len(r2) + Len(w) /\ Answering(c, Tail(p), r2, Len(r2))
  BY <1>1, <1>2, <1>3, <1>5
<1> QED  BY <1>4, <1>6, <1>7 DEF Flowing, r2

\* A reply read while an error is under way behind it.
LEMMA FailingRelayed ==
  ASSUME NEW c, NEW p \in Seq(Item), p # <<>>, NEW d, NEW d2, d2.batch = d.batch,
         NEW M, NEW w \in Seq(M), NEW r \in Seq(ReplyOf), r # <<>>, NEW v,
         NEW k \in 2..Len(p), Failing(c, p, d, w, r, v, k), Loose(p), Batch(p, d)
  PROVE  k - 1 \in 1..Len(Tail(p)) /\ Failing(c, Tail(p), d2, w, Tail(r), v, k - 1)
<1> DEFINE n == Len(r)
           r2 == Tail(r)
           q == Tail(p)
<1>1. /\ Len(p) \in Nat \ {0} /\ Len(q) = Len(p) - 1 /\ Len(w) \in Nat
      /\ \A i \in 1..(Len(p) - 1) : q[i] = p[i+1]
  BY PlanTail
<1>2. /\ n \in Nat \ {0} /\ Len(r2) = n - 1
      /\ \A i \in 1..(n-1) : r2[i] = r[i+1] /\ i + 1 \in 1..n
  BY WireTail
<1>3. /\ Waiting(c, p, w) /\ k + Len(w) <= Len(p) /\ k <= n /\ Answering(c, p, r, k - 1)
      /\ p[k].kind # "ready" /\ r[k].to = c /\ r[k].kind = "error"
  BY DEF Failing
<1>4. q[Len(q)] = p[Len(p)] /\ q # <<>>
  <2>1. Len(p) # 1
    BY <1>1
  <2>2. q # <<>>
    BY <2>1, SingletonTail
  <2>3. q[Len(p) - 1] = p[Len(p)]
    BY <2>2, PlanShrinks
  <2> QED  BY <2>2, <2>3, <1>1
<1>8. \/ v.skip /\ n = k /\ (p[Len(p)].kind = "ready" => w # <<>>)
      \/ /\ ~v.skip /\ w = <<>> /\ n = k + 1 /\ d.batch = "closed"
         /\ r[k+1].kind = "ready" /\ r[k+1].to = c /\ r[k+1].arg = v.tx
  BY DEF Failing, n
<1>9. d.batch # "aborted"
  BY DEF Failing
<1>5. Waiting(c, q, w)
  BY <1>1, <1>3, WaitingShrinks
<1>6. k - 1 \in Nat \ {0} /\ (k - 1) - 1 \in Nat
  OBVIOUS
<1>7. Answering(c, q, r2, (k - 1) - 1)
  BY <1>3, <1>6, AnsweringTail
<1> HIDE DEF n, r2, q
<1>10. /\ k - 1 \in 1..Len(q) /\ k - 1 <= Len(r2) /\ (k - 1) + Len(w) <= Len(q)
       /\ q[k-1] = p[k] /\ r2[k-1] = r[k]
  <2>1. /\ k - 1 \in 1..(Len(p) - 1) /\ (k - 1) + 1 = k /\ k - 1 \in 1..(n-1)
        /\ (k - 1) + Len(w) <= Len(p) - 1
    BY <1>1, <1>2, <1>3
  <2> QED  BY <2>1, <1>1, <1>2
<1>11. \/ v.skip /\ Len(r2) = k - 1 /\ (q[Len(q)].kind = "ready" => w # <<>>)
       \/ /\ ~v.skip /\ w = <<>> /\ Len(r2) = (k - 1) + 1 /\ d2.batch = "closed"
          /\ r2[(k-1)+1].kind = "ready" /\ r2[(k-1)+1].to = c /\ r2[(k-1)+1].arg = v.tx
  <2>1. CASE v.skip /\ n = k /\ (p[Len(p)].kind = "ready" => w # <<>>)
    BY <2>1, <1>2, <1>4
  <2>2. CASE /\ ~v.skip /\ w = <<>> /\ n = k + 1 /\ d.batch = "closed"
             /\ r[k+1].kind = "ready" /\ r[k+1].to = c /\ r[k+1].arg = v.tx
    <3>1. k \in 1..(n-1) /\ (k - 1) + 1 = k /\ n - 1 = k
      BY <2>2, <1>2
    <3>2. r2[(k-1)+1] = r[k+1]
      BY <3>1, <1>2
    <3> QED  BY <2>2, <3>1, <3>2, <1>2
  <2> QED  BY <1>8, <2>1, <2>2
<1>12. Failing(c, q, d2, w, r2, v, k - 1)
  BY <1>3, <1>5, <1>7, <1>9, <1>10, <1>11 DEF Failing
<1> QED  BY <1>10, <1>12 DEF q, r2

\* A "ready" is the last that is under way.
LEMMA ReadyEnds ==
  ASSUME NEW c, NEW p \in Seq(Item), NEW s, NEW d,
         NEW M, NEW w \in Seq(M), NEW r \in Seq(ReplyOf), r # <<>>, NEW t, NEW v,
         Exchange(c, p, s, d, w, r, t, v), r[1].kind = "ready"
  PROVE  Tail(p) = <<>> /\ w = <<>> /\ Tail(r) = <<>> /\ ~v.skip /\ v.tx = r[1].arg
<1>1. /\ p # <<>>
      /\ \/ r[1].kind = p[1].kind /\ Flowing(c, p, d, w, r, t, v)
         \/ r[1].kind = p[1].kind /\ \E k \in 2..Len(p) : Failing(c, p, d, w, r, v, k)
  BY HeadAnswers
<1>2. Loose(p)
  BY DEF Exchange
<1>3. Len(p) \in Nat \ {0} /\ 1 \in 1..Len(p) /\ Len(r) \in Nat \ {0} /\ 1 \in 1..Len(r)
      /\ Len(w) \in Nat
  BY <1>1, PlanTail
<1>4. Len(p) = 1
  BY <1>1, <1>2, <1>3 DEF Loose
<1>5. Flowing(c, p, d, w, r, t, v)
  BY <1>1, <1>4
<1>6. Len(p) = Len(r) + Len(w)
  BY <1>5 DEF Flowing
<1>7. Len(r) = 1 /\ Len(w) = 0
  BY <1>3, <1>4, <1>6
<1>8. w = <<>> /\ Tail(r) = <<>> /\ Tail(p) = <<>>
  BY <1>1, <1>4, <1>7, EmptySeq, SingletonTail
<1> QED  BY <1>3, <1>5, <1>8 DEF Flowing, Status

\* The first reply of the plan has come.
LEMMA ExchangeRelayed ==
  ASSUME NEW c, NEW p \in Seq(Item), NEW s \in Statements, NEW s2 \in Statements,
         NEW d \in ClientOf, NEW d2 \in ClientOf,
         NEW M, NEW w \in Seq(M), NEW r \in Seq(ReplyOf), r # <<>>, NEW t, NEW t2, NEW v,
         Exchange(c, p, s, d, w, r, t, v), r[1].kind # "error",
         s2.parses = IF p[1].kind = "parsed" THEN Tail(s.parses) ELSE s.parses,
         s2.closes = IF p[1].kind = "closed" THEN Tail(s.closes) ELSE s.closes,
         d2.owed = IF p[1].disp = "forward" THEN Tail(d.owed) ELSE d.owed,
         d2.batch = d.batch, d2.misordered = d.misordered,
         r[1].kind = "ready" => t2 = r[1].arg, r[1].kind # "ready" => t2 = t
  PROVE  Exchange(c, Tail(p), s2, d2, w, Tail(r), t2, v)
<1>1. /\ p # <<>>
      /\ \/ r[1].kind = p[1].kind /\ Flowing(c, p, d, w, r, t, v)
         \/ r[1].kind = p[1].kind /\ \E k \in 2..Len(p) : Failing(c, p, d, w, r, v, k)
  BY HeadAnswers
<1>2. Books(Tail(p), s2, d2)
  BY <1>1, BooksTail DEF Exchange
<1>3. Loose(p) /\ Batch(p, d) /\ ~d.misordered
  BY DEF Exchange
<1>4. Loose(Tail(p)) /\ Batch(Tail(p), d2)
  BY <1>1, <1>3, PlanShrinks
<1>5. ASSUME Flowing(c, p, d, w, r, t, v)
      PROVE  Flowing(c, Tail(p), d2, w, Tail(r), t2, v)
  <2>1. t2 = IF r[1].kind = "ready" THEN r[1].arg ELSE t
    OBVIOUS
  <2> QED  BY <1>1, <1>5, <2>1, FlowingRelayed
<1>6. ASSUME NEW k \in 2..Len(p), Failing(c, p, d, w, r, v, k)
      PROVE  k - 1 \in 1..Len(Tail(p)) /\ Failing(c, Tail(p), d2, w, Tail(r), v, k - 1)
  BY <1>1, <1>3, <1>6, FailingRelayed
<1> QED  BY <1>1, <1>2, <1>3, <1>4, <1>5, <1>6 DEF Exchange

\* What a client that is owed replies makes of an error: those up to the "ready"
\* are settled.
LEMMA ErrorRead ==
  ASSUME NEW p \in Seq(Item), p # <<>>, NEW s, NEW d \in ClientOf,
         Books(p, s, d), Loose(p), Settled(p), p[1].kind # "ready"
  PROVE  GetsError(d) = IF p[Len(p)].kind = "ready" THEN [d EXCEPT !.owed = <<"ready">>]
                        ELSE [d EXCEPT !.owed = <<>>, !.batch = "aborted"]
<1> DEFINE n == Len(p)
           l == Len(d.owed)
           F == Forwarded(p)
           syncs == {i \in DOMAIN d.owed : d.owed[i] = "ready"}
<1>1. n \in Nat \ {0} /\ l \in Nat /\ DOMAIN d.owed = 1..l /\ d.owed \in Seq(Kinds)
      /\ \A i \in 1..n : p[i] \in Item
  BY PlanTail DEF ClientOf
<1>2. F \in SUBSET (1..n) /\ n \in F
  <2>1. n \in 1..n
    BY <1>1
  <2> QED  BY <2>1 DEF Forwarded, Settled
<1>3. Lists(d.owed, F, KindOf(p))
  BY DEF Books
<1>4. PICK e \in [1..l -> F] : Enum(e, F, l) /\ \A i \in 1..l : d.owed[i] = KindOf(p)[e[i]]
  BY <1>3 DEF Lists
<1>5. /\ \A i \in 1..n : p[i].kind = "ready" => i = n
      /\ \A i \in 1..n : p[i].disp = "suppress" /\ i < n => p[i+1].kind # "ready"
  BY DEF Loose
<1> HIDE DEF n, l, F
<1>6. \A i \in 1..l : e[i] \in F
  OBVIOUS
<1>7. \A i \in 1..l : e[i] \in 1..n /\ d.owed[i] = p[e[i]].kind
  BY <1>2, <1>4, <1>6 DEF KindOf, n
<1>8. PICK h \in 1..l : e[h] = n
  BY <1>2, <1>4 DEF Enum
<1>9. h = l /\ l \in Nat \ {0}
  <2>1. l \in 1..l /\ h <= l
    BY <1>1, <1>8
  <2>2. e[l] \in 1..n
    BY <1>7, <2>1
  <2>3. ~(h < l)
    <3> SUFFICES ASSUME h < l  PROVE FALSE
      OBVIOUS
    <3>1. e[h] < e[l]
      BY <1>4, <2>1 DEF Enum
    <3> QED  BY <3>1, <2>2, <1>1, <1>8
  <2> QED  BY <2>1, <2>3, <1>1
<1>10. d.owed # <<>>
  BY <1>1, <1>9, EmptySeq DEF l
<1>11. \A i \in 1..l : d.owed[i] = "ready" => i = l
  <2> SUFFICES ASSUME NEW i \in 1..l, d.owed[i] = "ready"  PROVE i = l
    OBVIOUS
  <2>1. e[i] = n
    BY <1>5, <1>7
  <2>2. ~(i < l)
    <3> SUFFICES ASSUME i < l  PROVE FALSE
      OBVIOUS
    <3>1. l \in 1..l
      BY <1>9
    <3>2. e[i] < e[l]
      BY <1>4, <3>1 DEF Enum
    <3> QED  BY <2>1, <3>2, <1>1, <1>8, <1>9
  <2> QED  BY <2>2, <1>1
<1>12. d.owed[1] # "ready"
  <2> SUFFICES ASSUME d.owed[1] = "ready"  PROVE FALSE
    OBVIOUS
  <2>1. 1 \in 1..l
    BY <1>9
  <2>2. l = 1 /\ e[1] = n /\ p[n].kind = "ready"
    BY <2>1, <1>7, <1>8, <1>9, <1>11
  <2>3. \A k \in F : k = n
    BY <2>2, <1>4 DEF Enum
  <2>4. n # 1
    BY <2>2
  <2>5. n - 1 \in 1..n /\ n - 1 < n /\ (n - 1) + 1 = n /\ n - 1 \notin F
    BY <1>1, <2>3, <2>4
  <2>6. p[n-1].disp # "forward" /\ p[n-1] \in Item
    BY <1>1, <2>5 DEF F, n, Forwarded
  <2>7. p[n-1].disp = "suppress"
    BY <2>6 DEF Item, Disposition
  <2> QED  BY <1>5, <2>2, <2>5, <2>7
<1>13. 1 \notin syncs
  BY <1>12
<1>14. CASE p[n].kind = "ready"
  <2>1. l \in 1..l
    BY <1>9
  <2>2. d.owed[l] = "ready"
    BY <1>7, <1>8, <1>9, <1>14
  <2>3. syncs = {l}
    BY <1>1, <1>11, <2>1, <2>2
  <2>4. (CHOOSE j \in syncs : \A k \in syncs : j <= k) = l
    BY <2>3, <1>1
  <2>5. SubSeq(d.owed, l, l) = <<"ready">>
    <3> DEFINE z == SubSeq(d.owed, l, l)
    <3>1. \A i \in l..l : d.owed[i] \in Kinds
      BY <2>2, <1>9 DEF Kinds
    <3>2. z \in Seq(Kinds) /\ Len(z) = 1 /\ z[1] = d.owed[l]
      BY <3>1, <1>9, SubSeqProperties
    <3> HIDE DEF z
    <3>3. <<"ready">> \in Seq(Kinds) /\ Len(<<"ready">>) = 1 /\ <<"ready">>[1] = "ready"
      BY DEF Kinds
    <3>4. z = <<"ready">>
      BY <2>2, <3>2, <3>3, SeqEqual
    <3> QED  BY <3>4 DEF z
  <2>6. GetsError(d) = [d EXCEPT !.owed = SubSeq(@, l, Len(@))]
    BY <1>10, <1>13, <2>3, <2>4 DEF GetsError
  <2>7. SubSeq(d.owed, l, Len(d.owed)) = <<"ready">>
    BY <2>5 DEF l
  <2> QED  BY <1>14, <2>6, <2>7 DEF n
<1>15. CASE p[n].kind # "ready"
  <2>1. syncs = {}
    <3>1. \A i \in 1..l : d.owed[i] # "ready"
      BY <1>7, <1>8, <1>9, <1>11, <1>15
    <3> QED  BY <1>1, <3>1
  <2>2. GetsError(d) = [d EXCEPT !.owed = <<>>, !.batch = "aborted"]
    BY <1>10, <1>13, <2>1 DEF GetsError
  <2> QED  BY <1>15, <2>2 DEF n
<1> QED  BY <1>14, <1>15

\* An error has come in the place of the first reply of the plan.
LEMMA ExchangeErrs ==
  ASSUME NEW c, NEW p \in Seq(Item), NEW s \in Statements, NEW s2 \in Statements,
         NEW d \in ClientOf, NEW d2 \in ClientOf,
         NEW M, NEW w \in Seq(M), NEW r \in Seq(ReplyOf), r # <<>>, NEW t, NEW v,
         Exchange(c, p, s, d, w, r, t, v), Settled(p), r[1].kind = "error",
         s2.parses = <<>>, s2.closes = <<>>,
         d2.owed = GetsError(d).owed, d2.batch = GetsError(d).batch,
         d2.misordered = GetsError(d).misordered
  PROVE  \E p2 \in Seq(Item) : Settled(p2) /\ Exchange(c, p2, s2, d2, w, Tail(r), t, v)
<1> DEFINE n == Len(p)
           l == Len(w)
           r2 == Tail(r)
<1>1. p # <<>> /\ Failing(c, p, d, w, r, v, 1)
  <2>1. p # <<>> => n \in Nat \ {0} /\ 1 \in 1..n
    BY PlanTail
  <2>2. p # <<>> => p[1] \in Item
    BY PlanTail
  <2>3. p # <<>> => p[1].kind # "error"
    BY <2>2 DEF Item, Kinds
  <2> QED  BY <2>3, HeadAnswers
<1>2. n \in Nat \ {0} /\ l \in Nat /\ Len(r) \in Nat \ {0}
  BY <1>1, PlanTail, WireTail
<1>3. /\ p[1].kind # "ready" /\ d.batch # "aborted" /\ Waiting(c, p, w) /\ 1 + l <= n
      /\ \/ v.skip /\ Len(r) = 1 /\ (p[n].kind = "ready" => w # <<>>)
         \/ /\ ~v.skip /\ w = <<>> /\ Len(r) = 2 /\ d.batch = "closed"
            /\ r[2].kind = "ready" /\ r[2].to = c /\ r[2].arg = v.tx
  BY <1>1 DEF Failing
<1>4. GetsError(d) = IF p[n].kind = "ready" THEN [d EXCEPT !.owed = <<"ready">>]
                     ELSE [d EXCEPT !.owed = <<>>, !.batch = "aborted"]
  BY <1>1, <1>3, ErrorRead DEF Exchange
<1>5. Batch(p, d) /\ ~d.misordered /\ Loose(p)
  BY DEF Exchange
<1>6. d.batch = "closed" <=> p[n].kind = "ready"
  BY <1>1, <1>5 DEF Batch
<1>7. \A i \in 1..l : /\ w[i].from = c /\ w[i].kind \in Line
                      /\ w[i].kind = "sync" <=> p[n - l + i].kind = "ready"
                      /\ n - l + i \in 1..n /\ (n - l + i = n <=> i = l)
  <2> SUFFICES ASSUME NEW i \in 1..l
               PROVE  /\ w[i].from = c /\ w[i].kind \in Line
                      /\ w[i].kind = "sync" <=> p[n - l + i].kind = "ready"
                      /\ n - l + i \in 1..n /\ (n - l + i = n <=> i = l)
    OBVIOUS
  <2>1. Asks(w[i], p[n - l + i], c)
    BY <1>3 DEF Waiting
  <2>2. n - l + i \in 1..n /\ (n - l + i = n <=> i = l)
    <3>1. 1 + l <= n
      BY <1>3
    <3> HIDE DEF n, l
    <3> QED  BY <1>2, <3>1
  <2>3. w[i].kind = "sync" <=> p[n - l + i].kind = "ready"
    BY <2>1 DEF Asks, AnswerKind, Line, ExtendedKinds
  <2> QED  BY <2>1, <2>2, <2>3 DEF Asks
<1>8. Len(r) = 1 <=> r2 = <<>>
  BY SingletonTail
<1>9. CASE p[n].kind = "ready"
  <2> DEFINE q == Append(<<>>, NoteOf("ready"))
  <2>1. NoteOf("ready") \in Item /\ <<>> \in Seq(Item)
    BY NoteTyped DEF Kinds
  <2>2. q \in Seq(Item) /\ Len(q) = 1 /\ q[1] = NoteOf("ready")
    BY <2>1
  <2>3. q # <<>>
    BY <2>2, EmptySeq
  <2>4. GetsError(d) = [d EXCEPT !.owed = <<"ready">>]
    BY <1>4, <1>9
  <2>5. d2.owed = <<"ready">> /\ d2.batch = "closed" /\ ~d2.misordered
    BY <2>4, <1>5, <1>6, <1>9 DEF ClientOf
  <2>6. Books(q, s2, d2)
    <3> DEFINE d0 == [d2 EXCEPT !.owed = <<>>]
    <3>0. <<>> \in Seq(Kinds)
      OBVIOUS
    <3>1. d0 \in ClientOf /\ d0.owed = <<>>
      BY <3>0 DEF ClientOf
    <3> HIDE DEF d0
    <3>2. Books(<<>>, s2, d0)
      BY <3>1, BooksNone
    <3>3. d2.owed = Append(d0.owed, "ready")
      BY <2>5, <3>1
    <3>4. NoteOf("ready").kind = "ready" /\ NoteOf("ready").disp = "forward"
      BY DEF NoteOf
    <3> QED  BY <2>1, <3>1, <3>2, <3>3, <3>4, BooksAppend
  <2> HIDE DEF q
  <2>7. Loose(q) /\ Batch(q, d2) /\ Settled(q)
    <3>1. \A i \in 1..1 : i = 1
      OBVIOUS
    <3> QED  BY <2>2, <2>5, <3>1 DEF Loose, Batch, Settled, NoteOf
  <2>8. CASE v.skip /\ Len(r) = 1 /\ (p[n].kind = "ready" => w # <<>>)
    <3>1. r2 = <<>> /\ w # <<>>
      BY <1>8, <1>9, <2>8
    <3>2. \A i \in 1..l : w[i].kind = "sync" <=> i = l /\ q # <<>>
      BY <1>5, <1>7, <1>9, <2>3 DEF Loose
    <3>3. Skipping(c, q, d2, w, r2, v)
      BY <1>7, <2>2, <2>5, <2>8, <3>1, <3>2 DEF Skipping, NoteOf
    <3> QED  BY <2>2, <2>5, <2>6, <2>7, <3>3 DEF Exchange
  <2>9. CASE /\ ~v.skip /\ w = <<>> /\ Len(r) = 2 /\ d.batch = "closed"
             /\ r[2].kind = "ready" /\ r[2].to = c /\ r[2].arg = v.tx
    <3>0. Len(r) - 1 = 1 /\ 1 \in 1..(Len(r) - 1)
      BY <2>9
    <3>1. Len(r2) = 1 /\ r2[1] = r[2]
      BY <3>0, WireTail
    <3> HIDE DEF r2
    <3>2. Len(w) = 0
      BY <2>9
    <3>3. Waiting(c, q, w) /\ Answering(c, q, r2, 1) /\ Status(r2, t, v)
      BY <2>2, <2>9, <3>1, <3>2 DEF Waiting, Answering, Status, NoteOf
    <3>4. Flowing(c, q, d2, w, r2, t, v)
      BY <2>2, <2>5, <2>9, <3>1, <3>2, <3>3 DEF Flowing
    <3> QED  BY <2>2, <2>5, <2>6, <2>7, <3>4 DEF Exchange, r2
  <2> QED  BY <1>3, <2>8, <2>9
<1>10. CASE p[n].kind # "ready"
  <2>1. GetsError(d) = [d EXCEPT !.owed = <<>>, !.batch = "aborted"]
    BY <1>4, <1>10
  <2>2. d2.owed = <<>> /\ d2.batch = "aborted" /\ ~d2.misordered
    BY <2>1, <1>5 DEF ClientOf
  <2>3. Books(<<>>, s2, d2)
    BY <2>2, BooksNone
  <2>4. Loose(<<>>) /\ Batch(<<>>, d2) /\ Settled(<<>>) /\ <<>> \in Seq(Item)
    <3>1. Len(<<>>) = 0 /\ 1..0 = {}
      OBVIOUS
    <3> QED  BY <3>1 DEF Loose, Batch, Settled
  <2>5. v.skip /\ Len(r) = 1
    BY <1>3, <1>6, <1>10
  <2>6. r2 = <<>>
    BY <1>8, <2>5
  <2>7. \A i \in 1..l : w[i].kind # "sync"
    BY <1>5, <1>7, <1>10 DEF Loose
  <2>8. Skipping(c, <<>>, d2, w, r2, v)
    BY <1>7, <2>2, <2>5, <2>6, <2>7 DEF Skipping
  <2> QED  BY <2>2, <2>3, <2>4, <2>8 DEF Exchange
<1> QED  BY <1>9, <1>10

\* To blame an error on the pooler changes nothing else.
Blamed(g, cause) == [g EXCEPT !.blamed = @ \/ cause = "pooler"]

\* Blame changes nothing that the exchange is about.
LEMMA BlameKeeps ==
  ASSUME NEW g \in ClientOf, NEW cause
  PROVE  /\ Blamed(g, cause) \in ClientOf /\ Blamed(g, cause).owed = g.owed
         /\ Blamed(g, cause).batch = g.batch /\ Blamed(g, cause).misordered = g.misordered
<1> DEFINE b == (g.blamed \/ cause = "pooler")
<1>1. b \in BOOLEAN
  OBVIOUS
<1>2. Blamed(g, cause) = [g EXCEPT !.blamed = b]
  BY DEF Blamed
<1> HIDE DEF b
<1>3. [g EXCEPT !.blamed = b] \in ClientOf
  BY <1>1 DEF ClientOf
<1>4. /\ [g EXCEPT !.blamed = b].owed = g.owed /\ [g EXCEPT !.blamed = b].batch = g.batch
      /\ [g EXCEPT !.blamed = b].misordered = g.misordered
  BY DEF ClientOf
<1> QED  BY <1>2, <1>3, <1>4

\* A session without a connection is owed nothing.
Detached(d) == d.owed = <<>> /\ d.batch # "aborted" /\ ~d.misordered

\* What the client has, and what the pooler has seen, once the reply a is read.
Passed(s, d, c, a) == IF Suppressed(s, a) THEN d ELSE Deliver(d, c, a)
Seen(t, a) == IF a.kind = "ready" THEN a.arg ELSE t

\* Nothing is on the wires, and the server has ended with tx.
Spent(w, r, v, tx) == w = <<>> /\ r = <<>> /\ ~v.skip /\ v.tx = tx

\* Some plan explains what is under way between a session and its server.
Attached(c, s, d, w, r, t, v) ==
  \E p \in Seq(Item) : Settled(p) /\ Exchange(c, p, s, d, w, r, t, v)

\* The proxy reads a reply for a session and passes it on, or keeps it.
LEMMA ExchangeReads ==
  ASSUME NEW c, NEW p \in Seq(Item), NEW s \in Statements, NEW d \in ClientOf,
         NEW w \in Seq(MessageOf), NEW r \in Seq(ReplyOf), r # <<>>, NEW t, NEW v,
         Exchange(c, p, s, d, w, r, t, v), Settled(p)
  PROVE  /\ AfterReply(s, Head(r)) \in Statements /\ Passed(s, d, c, Head(r)) \in ClientOf
         /\ Attached(c, AfterReply(s, Head(r)), Passed(s, d, c, Head(r)), w, Tail(r),
                     Seen(t, Head(r)), v)
         /\ Head(r).kind = "ready" =>
              Detached(Passed(s, d, c, Head(r))) /\ Spent(w, Tail(r), v, Head(r).arg)
<1> DEFINE a == Head(r)
           s2 == AfterReply(s, a)
           d2 == Passed(s, d, c, a)
           t2 == Seen(t, a)
<1>a. /\ a = Head(r) /\ s2 = AfterReply(s, a)
      /\ Suppressed(s, a) => d2 = d
      /\ ~Suppressed(s, a) => d2 = Deliver(d, c, a)
      /\ a.kind = "ready" => t2 = a.arg
      /\ a.kind # "ready" => t2 = t
  BY DEF Passed, Seen
<1> HIDE DEF a, s2, d2, t2
<1>0. a = r[1] /\ a \in ReplyOf
  BY <1>a, WireTail
<1>1. /\ p # <<>> /\ a.to = c
      /\ \/ a.kind = p[1].kind
         \/ a.kind = "error" /\ Failing(c, p, d, w, r, v, 1)
  BY <1>0, HeadAnswers
<1>2. Len(p) \in Nat \ {0} /\ 1 \in 1..Len(p) /\ p[1] \in Item /\ Tail(p) \in Seq(Item)
  BY <1>1, PlanTail
<1>3. p[1].kind \in Kinds /\ p[1].kind # "error" /\ p[1].disp \in Disposition
  BY <1>2 DEF Item, Kinds
<1>4. /\ Books(p, s, d) /\ Loose(p) /\ Batch(p, d) /\ ~d.misordered
  BY DEF Exchange
<1>5. Deliver(d, c, a) = Blamed(Gets(d, a.kind), a.arg)
  BY <1>1 DEF Deliver, Blamed
<1>6. ASSUME a.kind = p[1].kind
      PROVE  /\ s2 \in Statements /\ d2 \in ClientOf /\ Attached(c, s2, d2, w, Tail(r), t2, v)
             /\ a.kind = "ready" => Detached(d2) /\ Spent(w, Tail(r), v, a.arg)
  <2>1. /\ p[1].kind = "parsed" => s.parses # <<>> /\ Head(s.parses).reply = p[1].disp
        /\ p[1].kind = "closed" => s.closes # <<>> /\ Head(s.closes) = p[1].disp
        /\ p[1].disp = "forward" => d.owed # <<>> /\ Head(d.owed) = p[1].kind
    BY <1>1, <1>4, BooksHead
  <2>2. p[1].disp = "suppress" => p[1].kind \in {"parsed", "closed"}
    BY <1>2, <1>4 DEF Loose
  <2>3. Suppressed(s, a) <=> p[1].disp = "suppress"
    BY <1>6, <2>1, <2>2 DEF Suppressed, NextParseReply, NextCloseReply
  <2>4. /\ s2 \in Statements
        /\ s2.parses = IF p[1].kind = "parsed" THEN Tail(s.parses) ELSE s.parses
        /\ s2.closes = IF p[1].kind = "closed" THEN Tail(s.closes) ELSE s.closes
    <3>1. CASE a.kind = "parsed"
      <4>1. s2 = AfterParseReply(s) /\ s2 \in Statements
        BY <1>a, <3>1, RecordKept DEF AfterReply
      <4> QED  BY <1>6, <2>1, <3>1, <4>1 DEF AfterParseReply, Statements
    <3>2. CASE a.kind = "closed"
      <4>1. s2 = AfterCloseReply(s) /\ s2 \in Statements
        BY <1>a, <3>2, RecordKept DEF AfterReply
      <4> QED  BY <1>6, <2>1, <3>2, <4>1 DEF AfterCloseReply, Statements
    <3>3. CASE a.kind \notin {"parsed", "closed"}
      <4>1. s2 = s
        BY <1>3, <1>6, <1>a, <3>3 DEF AfterReply
      <4> QED  BY <1>6, <3>3, <4>1
    <3> QED  BY <3>1, <3>2, <3>3
  <2>5. /\ d2 \in ClientOf /\ d2.batch = d.batch /\ d2.misordered = d.misordered
        /\ d2.owed = IF p[1].disp = "forward" THEN Tail(d.owed) ELSE d.owed
    <3>1. CASE p[1].disp = "suppress"
      BY <1>a, <2>3, <3>1
    <3>2. CASE p[1].disp = "forward"
      <4> DEFINE g == [d EXCEPT !.owed = Tail(@)]
      <4>1. Gets(d, a.kind) = g
        BY <1>3, <1>6, <2>1, <3>2 DEF Gets
      <4>2. d.owed \in Seq(Kinds)
        BY DEF ClientOf
      <4>3. Tail(d.owed) \in Seq(Kinds)
        BY <2>1, <3>2, <4>2
      <4>4. /\ g \in ClientOf /\ g.owed = Tail(d.owed) /\ g.batch = d.batch
            /\ g.misordered = d.misordered
        BY <4>3 DEF ClientOf
      <4>5. d2 = Blamed(g, a.arg)
        BY <1>5, <1>a, <2>3, <3>2, <4>1
      <4> HIDE DEF g
      <4> QED  BY <3>2, <4>4, <4>5, BlameKeeps
    <3> QED  BY <1>3, <3>1, <3>2 DEF Disposition
  <2>6. /\ Exchange(c, Tail(p), s2, d2, w, Tail(r), t2, v)
        /\ a.kind = "ready" => /\ Tail(p) = <<>> /\ w = <<>> /\ Tail(r) = <<>>
                               /\ ~v.skip /\ v.tx = a.arg
    <3>1. /\ r[1].kind # "error"
          /\ r[1].kind = "ready" => t2 = r[1].arg
          /\ r[1].kind # "ready" => t2 = t
      BY <1>0, <1>3, <1>6, <1>a
    <3>2. Exchange(c, Tail(p), s2, d2, w, Tail(r), t2, v)
      BY <2>4, <2>5, <3>1, ExchangeRelayed
    <3>3. ASSUME r[1].kind = "ready"
          PROVE  Tail(p) = <<>> /\ w = <<>> /\ Tail(r) = <<>> /\ ~v.skip /\ v.tx = r[1].arg
      BY <3>3, ReadyEnds
    <3> QED  BY <1>0, <3>2, <3>3
  <2>7. Settled(Tail(p))
    BY <1>1, <1>4, PlanShrinks
  <2>8. ASSUME a.kind = "ready"
        PROVE  d2.owed = <<>> /\ d2.batch # "aborted" /\ ~d2.misordered
    <3>1. Books(<<>>, s2, d2)
      BY <2>6, <2>8 DEF Exchange
    <3>2. d2.owed = <<>>
      BY <3>1, <2>4, <2>5, BooksNone
    <3>3. p[1].kind = "ready" /\ Len(p) = 1
      BY <1>2, <1>4, <1>6, <2>8 DEF Loose
    <3>4. d.batch = "closed"
      BY <1>1, <1>4, <3>3 DEF Batch
    <3> QED  BY <1>4, <2>5, <3>2, <3>4
  <2>9. Attached(c, s2, d2, w, Tail(r), t2, v)
    BY <1>2, <2>6, <2>7 DEF Attached
  <2> QED  BY <2>4, <2>5, <2>6, <2>8, <2>9 DEF Detached, Spent
<1>7. ASSUME a.kind = "error", Failing(c, p, d, w, r, v, 1)
      PROVE  /\ s2 \in Statements /\ d2 \in ClientOf /\ Attached(c, s2, d2, w, Tail(r), t2, v)
             /\ a.kind # "ready"
  <2>1. p[1].kind # "ready"
    BY <1>7 DEF Failing
  <2>2. GetsError(d) = IF p[Len(p)].kind = "ready" THEN [d EXCEPT !.owed = <<"ready">>]
                       ELSE [d EXCEPT !.owed = <<>>, !.batch = "aborted"]
    BY <1>1, <1>4, <2>1, ErrorRead
  <2>3. <<>> \in Seq(Kinds) /\ <<"ready">> \in Seq(Kinds)
    BY DEF Kinds
  <2>4. GetsError(d) \in ClientOf
    BY <2>2, <2>3 DEF ClientOf
  <2>5. ~Suppressed(s, a) /\ Gets(d, a.kind) = GetsError(d)
    BY <1>7 DEF Suppressed, Gets
  <2>6. d2 = Blamed(GetsError(d), a.arg)
    BY <1>5, <1>a, <2>5
  <2>7. /\ d2 \in ClientOf /\ d2.owed = GetsError(d).owed /\ d2.batch = GetsError(d).batch
        /\ d2.misordered = GetsError(d).misordered
    BY <2>4, <2>6, BlameKeeps
  <2>8. s2 = RollBackAfterError(s)
    BY <1>7, <1>a DEF AfterReply
  <2>9. s2 \in Statements /\ s2.parses = <<>> /\ s2.closes = <<>>
    <3>1. RollBackAfterError(s) \in Statements
      BY RecordKept
    <3>2. RollBackAfterError(s).parses = <<>> /\ RollBackAfterError(s).closes = <<>>
      BY DEF RollBackAfterError
    <3> QED  BY <2>8, <3>1, <3>2
  <2>10. t2 = t /\ r[1].kind = "error"
    BY <1>0, <1>7, <1>a
  <2>11. \E p2 \in Seq(Item) : Settled(p2) /\ Exchange(c, p2, s2, d2, w, Tail(r), t, v)
    BY <2>7, <2>9, <2>10, ExchangeErrs
  <2>12. Attached(c, s2, d2, w, Tail(r), t2, v)
    BY <2>10, <2>11 DEF Attached
  <2> QED  BY <1>7, <2>7, <2>9, <2>12
<1>8. /\ s2 \in Statements /\ d2 \in ClientOf /\ Attached(c, s2, d2, w, Tail(r), t2, v)
      /\ a.kind = "ready" => Detached(d2) /\ Spent(w, Tail(r), v, a.arg)
  BY <1>1, <1>6, <1>7
<1> QED  BY <1>8 DEF a, s2, d2, t2

-----------------------------------------------------------------------------
(* The invariant *)

Phases == {"closed", "idle", "lent", "resetting"}

LinksTyped ==
  /\ driver \in [Sessions -> ClientOf]
  /\ st \in [Conns -> Statements]
  /\ lastTx \in [Conns -> Tx]
  /\ dirty \in [Conns -> SUBSET Vars]
  /\ toServer \in [Conns -> Seq(MessageOf)]
  /\ toProxy \in [Conns -> Seq(ReplyOf)]
  /\ srv \in [Conns -> Server]

\* Nothing is under way.
Quiet(w, r, t, v) == w = <<>> /\ r = <<>> /\ ~v.skip /\ v.tx = "idle" /\ t = "idle"

\* The query of a reset is on its way, or its replies are.
Cleaning(w, r, v) ==
  /\ ~v.skip
  /\ \/ /\ Len(w) = 1 /\ r = <<>> /\ w[1].from = NoSession
        /\ w[1].kind \in {"clean", "rollback and clean"}
     \/ /\ w = <<>> /\ Len(r) = 2 /\ r[1].kind # "ready"
        /\ r[2].kind = "ready" /\ r[2].arg = v.tx
     \/ w = <<>> /\ Len(r) = 1 /\ r[1].kind = "ready" /\ r[1].arg = v.tx

Rests(ph, w, r, t, v) ==
  /\ ph \in {"closed", "idle"} => Quiet(w, r, t, v)
  /\ ph = "resetting" => Cleaning(w, r, v)

SessionFits(c) ==
  IF conn[c] = NoConn THEN Detached(driver[c])
  ELSE Attached(c, st[conn[c]], driver[c], toServer[conn[c]], toProxy[conn[c]],
                lastTx[conn[c]], srv[conn[c]])

LinkRests(x) == Rests(phase[x], toServer[x], toProxy[x], lastTx[x], srv[x])

ExchangeInv ==
  /\ LeaseInv /\ LinksTyped
  /\ \A c \in Sessions : SessionFits(c)
  /\ \A x \in Conns : LinkRests(x)

\* Nothing is under way when the pooler starts.
LEMMA ExchangeInit == Init => ExchangeInv
<1> SUFFICES ASSUME Init  PROVE ExchangeInv
  OBVIOUS
<1>1. LeaseInv
  BY LeaseInit
<1>2. NewDriver \in ClientOf /\ Detached(NewDriver)
  <2>1. <<>> \in Seq(Kinds)
    OBVIOUS
  <2> QED  BY <2>1 DEF NewDriver, ClientOf, Detached
<1>3. NoStatements \in Statements
  <2>1. <<>> \in Seq(Queries) /\ <<>> \in Seq([reply : Disposition, query : Queries])
        /\ <<>> \in Seq(Disposition)
    OBVIOUS
  <2> QED  BY <2>1 DEF NoStatements, Statements
<1>4. NewServer \in Server /\ Quiet(<<>>, <<>>, "idle", NewServer)
  BY DEF NewServer, Server, Tx, Quiet
<1>5. "idle" \in Tx /\ <<>> \in Seq(MessageOf) /\ <<>> \in Seq(ReplyOf)
  BY DEF Tx
<1>6. LinksTyped
  BY <1>2, <1>3, <1>4, <1>5 DEF Init, LinksTyped
<1>7. \A c \in Sessions : SessionFits(c)
  BY <1>2 DEF Init, SessionFits
<1>8. \A x \in Conns : LinkRests(x)
  BY <1>4 DEF Init, LinkRests, Rests
<1> QED  BY <1>1, <1>6, <1>7, <1>8 DEF ExchangeInv

\* A step on one connection x: a session that does not have it and stays as it is
\* still fits.
LEMMA LinkKeeps ==
  ASSUME ExchangeInv, LeaseInv', NEW x \in Conns, driver' \in [Sessions -> ClientOf],
         \A e \in Sessions : \/ conn[e] # x /\ conn'[e] = conn[e] /\ driver'[e] = driver[e]
                             \/ SessionFits(e)',
         NEW ph2 \in Phases, phase' = [phase EXCEPT ![x] = ph2],
         NEW s2 \in Statements, st' = [st EXCEPT ![x] = s2],
         NEW t2 \in Tx, lastTx' = [lastTx EXCEPT ![x] = t2],
         dirty' \in [Conns -> SUBSET Vars],
         NEW w2 \in Seq(MessageOf), toServer' = [toServer EXCEPT ![x] = w2],
         NEW r2 \in Seq(ReplyOf), toProxy' = [toProxy EXCEPT ![x] = r2],
         NEW v2 \in Server, srv' = [srv EXCEPT ![x] = v2],
         Rests(ph2, w2, r2, t2, v2)
  PROVE  ExchangeInv'
<1>0. /\ driver \in [Sessions -> ClientOf] /\ st \in [Conns -> Statements]
      /\ lastTx \in [Conns -> Tx] /\ toServer \in [Conns -> Seq(MessageOf)]
      /\ toProxy \in [Conns -> Seq(ReplyOf)] /\ srv \in [Conns -> Server]
      /\ phase \in [Conns -> Phases] /\ conn \in [Sessions -> Conns \cup {NoConn}]
  BY DEF ExchangeInv, LinksTyped, LeaseInv, Phases
<1>1. LinksTyped'
  BY <1>0 DEF LinksTyped
<1>2. /\ phase'[x] = ph2 /\ lastTx'[x] = t2 /\ toServer'[x] = w2 /\ toProxy'[x] = r2
      /\ srv'[x] = v2
  BY <1>0
<1>3. \A y \in Conns \ {x} :
         /\ phase'[y] = phase[y] /\ st'[y] = st[y] /\ lastTx'[y] = lastTx[y]
         /\ toServer'[y] = toServer[y] /\ toProxy'[y] = toProxy[y] /\ srv'[y] = srv[y]
  BY <1>0
<1>5. \A y \in Conns : LinkRests(y)'
  <2> TAKE y \in Conns
  <2>1. CASE y = x
    BY <1>2, <2>1 DEF LinkRests
  <2>2. CASE y # x
    BY <1>3, <2>2 DEF LinkRests, ExchangeInv
  <2> QED  BY <2>1, <2>2
<1>6. \A e \in Sessions : SessionFits(e)'
  <2> SUFFICES ASSUME NEW e \in Sessions, conn[e] # x, conn'[e] = conn[e], driver'[e] = driver[e]
               PROVE  SessionFits(e)'
    OBVIOUS
  <2>1. SessionFits(e)
    BY DEF ExchangeInv
  <2>2. CASE conn[e] = NoConn
    BY <2>1, <2>2 DEF SessionFits
  <2>3. CASE conn[e] # NoConn
    <3>1. conn[e] \in Conns \ {x}
      BY <1>0, <2>3
    <3> QED  BY <1>3, <2>1, <2>3, <3>1 DEF SessionFits
  <2> QED  BY <2>2, <2>3
<1> QED  BY <1>1, <1>5, <1>6 DEF ExchangeInv

\* A step of one session c and one connection x, which no other session has.
LEMMA StepKeeps ==
  ASSUME ExchangeInv, LeaseInv', NEW c \in Sessions, NEW x \in Conns,
         \A e \in Sessions \ {c} : conn[e] # x /\ conn'[e] = conn[e],
         conn'[c] \in {x, NoConn},
         NEW d2 \in ClientOf, driver' = [driver EXCEPT ![c] = d2],
         NEW ph2 \in Phases, phase' = [phase EXCEPT ![x] = ph2],
         NEW s2 \in Statements, st' = [st EXCEPT ![x] = s2],
         NEW t2 \in Tx, lastTx' = [lastTx EXCEPT ![x] = t2],
         dirty' \in [Conns -> SUBSET Vars],
         NEW w2 \in Seq(MessageOf), toServer' = [toServer EXCEPT ![x] = w2],
         NEW r2 \in Seq(ReplyOf), toProxy' = [toProxy EXCEPT ![x] = r2],
         NEW v2 \in Server, srv' = [srv EXCEPT ![x] = v2],
         conn'[c] = x => Attached(c, s2, d2, w2, r2, t2, v2),
         conn'[c] = NoConn => Detached(d2),
         Rests(ph2, w2, r2, t2, v2)
  PROVE  ExchangeInv'
<1>0. /\ driver \in [Sessions -> ClientOf] /\ st \in [Conns -> Statements]
      /\ lastTx \in [Conns -> Tx] /\ toServer \in [Conns -> Seq(MessageOf)]
      /\ toProxy \in [Conns -> Seq(ReplyOf)] /\ srv \in [Conns -> Server]
  BY DEF ExchangeInv, LinksTyped
<1>1. driver' \in [Sessions -> ClientOf]
  BY <1>0
<1>2. /\ driver'[c] = d2 /\ st'[x] = s2 /\ lastTx'[x] = t2
      /\ toServer'[x] = w2 /\ toProxy'[x] = r2 /\ srv'[x] = v2
  BY <1>0
<1>3. x # NoConn
  BY ProxyAssumption
<1>4. SessionFits(c)'
  BY <1>2, <1>3 DEF SessionFits
<1>5. \A e \in Sessions : \/ conn[e] # x /\ conn'[e] = conn[e] /\ driver'[e] = driver[e]
                          \/ SessionFits(e)'
  <2> TAKE e \in Sessions
  <2>1. CASE e = c
    BY <1>4, <2>1
  <2>2. CASE e # c
    BY <1>0, <2>2
  <2> QED  BY <2>1, <2>2
<1> QED  BY <1>1, <1>5, LinkKeeps

\* A step of one session alone.
LEMMA OwnKeeps ==
  ASSUME ExchangeInv, LeaseInv', NEW c \in Sessions, UNCHANGED <<conn, linkVars, wireVars>>,
         NEW d2 \in ClientOf, driver' = [driver EXCEPT ![c] = d2],
         conn[c] = NoConn => Detached(d2),
         conn[c] # NoConn => Attached(c, st[conn[c]], d2, toServer[conn[c]], toProxy[conn[c]],
                                      lastTx[conn[c]], srv[conn[c]])
  PROVE  ExchangeInv'
<1>1. LinksTyped' /\ driver \in [Sessions -> ClientOf]
  BY DEF ExchangeInv, LinksTyped, linkVars, wireVars
<1>2. \A x \in Conns : LinkRests(x)'
  BY DEF ExchangeInv, LinkRests, linkVars, wireVars
<1>3. \A e \in Sessions : SessionFits(e)'
  <2> TAKE e \in Sessions
  <2>1. CASE e = c
    BY <1>1, <2>1 DEF SessionFits, linkVars, wireVars
  <2>2. CASE e # c
    <3>1. driver'[e] = driver[e] /\ SessionFits(e)
      BY <1>1, <2>2 DEF ExchangeInv
    <3> QED  BY <3>1 DEF SessionFits, linkVars, wireVars
  <2> QED  BY <2>1, <2>2
<1> QED  BY <1>1, <1>2, <1>3 DEF ExchangeInv

-----------------------------------------------------------------------------
(* A client asks *)

\* A session may use the connection it has, or take one that waits.
Reaches(c, x) == x \in Conns /\ (conn[c] = x \/ (conn[c] = NoConn /\ phase[x] = "idle"))

\* A session's message goes to a connection it may use.
LEMMA CarriersReach ==
  ASSUME ExchangeInv, NEW c \in Sessions, NEW x \in Carriers(c)
  PROVE  Reaches(c, x)
  BY CarriersWait DEF Reaches, ExchangeInv

\* What the pooler has of a session and the connection its message goes to.
LEMMA CarrierFits ==
  ASSUME ExchangeInv, NEW c \in Sessions, NEW x, Reaches(c, x)
  PROVE  /\ x \in Conns /\ x # NoConn /\ (conn[c] = x \/ conn[c] = NoConn)
         /\ \A e \in Sessions \ {c} : conn[e] # x
         /\ driver[c] \in ClientOf /\ StatementsOf(c, x) \in Statements
         /\ toServer[x] \in Seq(MessageOf) /\ toProxy[x] \in Seq(ReplyOf)
         /\ lastTx[x] \in Tx /\ srv[x] \in Server
         /\ Attached(c, StatementsOf(c, x), driver[c], toServer[x], toProxy[x], lastTx[x], srv[x])
<1>1. x \in Conns /\ x # NoConn /\ (conn[c] = x \/ (conn[c] = NoConn /\ phase[x] = "idle"))
  BY ProxyAssumption DEF Reaches
<1>2. /\ driver[c] \in ClientOf /\ st[x] \in Statements
      /\ toServer[x] \in Seq(MessageOf) /\ toProxy[x] \in Seq(ReplyOf)
      /\ lastTx[x] \in Tx /\ srv[x] \in Server
  BY <1>1 DEF ExchangeInv, LinksTyped
<1>3. StatementsOf(c, x) \in Statements
  <2>1. ResetPending(st[x]) \in Statements
    BY <1>2, RecordKept
  <2> QED  BY <1>2, <2>1 DEF StatementsOf
<1>4. \A e \in Sessions \ {c} : conn[e] # x
  BY <1>1, NotHeld DEF ExchangeInv, LeaseInv, OneSession
<1>5. Attached(c, StatementsOf(c, x), driver[c], toServer[x], toProxy[x], lastTx[x], srv[x])
  <2>1. SessionFits(c) /\ LinkRests(x)
    BY <1>1 DEF ExchangeInv
  <2>2. CASE conn[c] = x
    BY <1>1, <2>1, <2>2 DEF SessionFits, StatementsOf
  <2>3. CASE conn[c] = NoConn
    <3>1. phase[x] = "idle" /\ Detached(driver[c])
      BY <1>1, <2>1, <2>3 DEF SessionFits
    <3>2. /\ toServer[x] = <<>> /\ toProxy[x] = <<>>
          /\ ~srv[x].skip /\ lastTx[x] = srv[x].tx
      BY <2>1, <3>1 DEF LinkRests, Rests, Quiet
    <3>3. /\ StatementsOf(c, x) = ResetPending(st[x])
          /\ ResetPending(st[x]).parses = <<>> /\ ResetPending(st[x]).closes = <<>>
      BY <1>1, <1>2, <2>3 DEF StatementsOf, ResetPending, Statements
    <3>4. Exchange(c, <<>>, StatementsOf(c, x), driver[c], <<>>, <<>>, lastTx[x], srv[x])
      BY <1>2, <1>3, <3>1, <3>2, <3>3, ExchangeNone DEF Detached
    <3>5. <<>> \in Seq(Item) /\ Settled(<<>>)
      BY DEF Settled
    <3> QED  BY <3>2, <3>4, <3>5 DEF Attached
  <2> QED  BY <1>1, <2>2, <2>3
<1> QED  BY <1>1, <1>2, <1>3, <1>4, <1>5

\* A session that sends, and can explain what is then under way, fits again.
LEMMA SendKeeps ==
  ASSUME ExchangeInv, LeaseInv', NEW c \in Sessions, NEW x, Reaches(c, x),
         NEW s2 \in Statements, NEW ms, toServer[x] \o ms \in Seq(MessageOf),
         Send(c, x, s2, ms),
         NEW d2 \in ClientOf, driver' = [driver EXCEPT ![c] = d2],
         dirty' \in [Conns -> SUBSET Vars],
         Attached(c, s2, d2, toServer[x] \o ms, toProxy[x], lastTx[x], srv[x])
  PROVE  ExchangeInv'
<1> DEFINE w2 == toServer[x] \o ms
<1>1. /\ x \in Conns /\ x # NoConn /\ \A e \in Sessions \ {c} : conn[e] # x
      /\ toProxy[x] \in Seq(ReplyOf) /\ lastTx[x] \in Tx /\ srv[x] \in Server
  BY CarrierFits
<1>2. /\ conn' = [conn EXCEPT ![c] = x] /\ phase' = [phase EXCEPT ![x] = "lent"]
      /\ st' = [st EXCEPT ![x] = s2] /\ toServer' = [toServer EXCEPT ![x] = toServer[x] \o ms]
      /\ lastTx' = lastTx /\ toProxy' = toProxy /\ srv' = srv
  BY <1>1 DEF Send
<1>3. conn \in [Sessions -> Conns \cup {NoConn}]
  BY DEF ExchangeInv, LeaseInv
<1>4. conn'[c] = x /\ \A e \in Sessions \ {c} : conn[e] # x /\ conn'[e] = conn[e]
  BY <1>1, <1>2, <1>3
<1>5. /\ lastTx \in [Conns -> Tx] /\ toProxy \in [Conns -> Seq(ReplyOf)]
      /\ srv \in [Conns -> Server]
  BY DEF ExchangeInv, LinksTyped
<1>6. /\ lastTx' = [lastTx EXCEPT ![x] = lastTx[x]] /\ toProxy' = [toProxy EXCEPT ![x] = toProxy[x]]
      /\ srv' = [srv EXCEPT ![x] = srv[x]]
  BY <1>1, <1>2, <1>5
<1>7. Rests("lent", w2, toProxy[x], lastTx[x], srv[x]) /\ "lent" \in Phases
  BY DEF Rests, Phases
<1>8. w2 \in Seq(MessageOf) /\ toServer' = [toServer EXCEPT ![x] = w2]
      /\ Attached(c, s2, d2, w2, toProxy[x], lastTx[x], srv[x])
  BY <1>2
<1> HIDE DEF w2
<1>9. /\ conn'[c] \in {x, NoConn}
      /\ conn'[c] = x => Attached(c, s2, d2, w2, toProxy[x], lastTx[x], srv[x])
      /\ conn'[c] = NoConn => Detached(d2)
  BY <1>1, <1>4, <1>8
<1>10. phase' = [phase EXCEPT ![x] = "lent"] /\ st' = [st EXCEPT ![x] = s2]
  BY <1>2
<1> QED  BY <1>1, <1>4, <1>6, <1>7, <1>8, <1>9, <1>10, StepKeeps

\* Some plan explains what is under way; its last reply may be one to suppress.
Planned(c, s, d, w, r, t, v) == \E p \in Seq(Item) : Exchange(c, p, s, d, w, r, t, v)

Opened(d) == [d EXCEPT !.batch = "open"]

\* The first message of a batch opens it.
LEMMA AttachedOpens ==
  ASSUME NEW c, NEW s \in Statements, NEW d \in ClientOf,
         NEW w, NEW r, NEW t, NEW v, Attached(c, s, d, w, r, t, v),
         "ready" \notin Range(d.owed), d.batch # "aborted"
  PROVE  /\ Opened(d) \in ClientOf /\ Opened(d).owed = d.owed /\ Opened(d).batch = "open"
         /\ Opened(d).misordered = d.misordered
         /\ Attached(c, s, Opened(d), w, r, t, v)
<1>1. /\ Opened(d) \in ClientOf /\ Opened(d).owed = d.owed /\ Opened(d).batch = "open"
      /\ Opened(d).misordered = d.misordered
  BY DEF Opened, ClientOf
<1>2. PICK p \in Seq(Item) : Settled(p) /\ Exchange(c, p, s, d, w, r, t, v)
  BY DEF Attached
<1>3. p = <<>> \/ p[Len(p)].kind # "ready"
  BY <1>2, ExchangeOpen
<1>4. Exchange(c, p, s, Opened(d), w, r, t, v)
  BY <1>1, <1>2, <1>3, ExchangeOpens
<1> QED  BY <1>1, <1>2, <1>4 DEF Attached

\* A message of the batch follows.
LEMMA PlannedExtends ==
  ASSUME NEW c, NEW s \in Statements, NEW s2 \in Statements,
         NEW d \in ClientOf, NEW d2 \in ClientOf,
         NEW w \in Seq(MessageOf), NEW r \in Seq(ReplyOf), NEW t, NEW v,
         NEW m \in MessageOf, NEW it \in Item,
         Planned(c, s, d, w, r, t, v), d.batch = "open",
         Asks(m, it, c), it.kind # "ready", it.kind = "parsed" => it.query \in Queries,
         it.disp = "suppress" => it.kind \in {"parsed", "closed"},
         s2.parses = IF it.kind = "parsed"
                     THEN Append(s.parses, [reply |-> it.disp, query |-> it.query])
                     ELSE s.parses,
         s2.closes = IF it.kind = "closed" THEN Append(s.closes, it.disp) ELSE s.closes,
         d2.owed = IF it.disp = "forward" THEN Append(d.owed, it.kind) ELSE d.owed,
         d2.batch = "open", d2.misordered = d.misordered
  PROVE  /\ Append(w, m) \in Seq(MessageOf) /\ Planned(c, s2, d2, Append(w, m), r, t, v)
         /\ it.disp = "forward" => Attached(c, s2, d2, Append(w, m), r, t, v)
<1>1. PICK p \in Seq(Item) : Exchange(c, p, s, d, w, r, t, v)
  BY DEF Planned
<1> DEFINE p2 == Append(p, it)
<1>2. p2 \in Seq(Item) /\ Len(p2) = Len(p) + 1 /\ p2[Len(p) + 1] = it
  BY PlanAppend
<1>3. Exchange(c, p2, s2, d2, Append(w, m), r, t, v)
  BY <1>1, ExchangeExtends
<1>4. it.disp = "forward" => Settled(p2)
  BY <1>2 DEF Settled
<1>5. Append(w, m) \in Seq(MessageOf)
  OBVIOUS
<1> HIDE DEF p2
<1> QED  BY <1>2, <1>3, <1>4, <1>5 DEF Planned, Attached

\* What the pooler recalls besides the replies to come does not matter.
LEMMA PlannedSame ==
  ASSUME NEW c, NEW s, NEW s2, NEW d, NEW w, NEW r, NEW t, NEW v,
         s2.parses = s.parses, s2.closes = s.closes
  PROVE  /\ Planned(c, s, d, w, r, t, v) => Planned(c, s2, d, w, r, t, v)
         /\ Attached(c, s, d, w, r, t, v) => Attached(c, s2, d, w, r, t, v)
  BY DEF Planned, Attached, Exchange, Books

ItemOf(kind, disp, query) == [kind |-> kind, disp |-> disp, query |-> query]

\* A statement the connection lacks is prepared, one that is in its way closed.
LEMMA PlannedPrepares ==
  ASSUME NEW c \in Sessions, NEW s \in Statements, NEW d \in ClientOf, NEW d2 \in ClientOf,
         NEW w \in Seq(MessageOf), NEW r \in Seq(ReplyOf), NEW t, NEW v,
         Planned(c, s, d, w, r, t, v), d.batch = "open",
         NEW q \in Queries, NEW reply \in Disposition, ~Prepare(s, q, reply).hit,
         reply = "forward" => d2.owed = Append(d.owed, "parsed"),
         reply = "suppress" => d2.owed = d.owed,
         d2.batch = "open", d2.misordered = d.misordered,
         NEW w2, w2 = w \o Preparation(c, q, Prepare(s, q, reply))
  PROVE  /\ Prepare(s, q, reply).st \in Statements /\ w2 \in Seq(MessageOf)
         /\ Planned(c, Prepare(s, q, reply).st, d2, w2, r, t, v)
         /\ reply = "forward" => Attached(c, Prepare(s, q, reply).st, d2, w2, r, t, v)
<1> DEFINE prep == Prepare(s, q, reply)
           parse == Message("parse", q, c)
           close == Message("close", prep.evicted, c)
           one == ItemOf("parsed", reply, q)
           two == ItemOf("closed", "suppress", prep.evicted)
<1>1. /\ prep.st \in Statements
      /\ prep.st.parses = Append(s.parses, [reply |-> reply, query |-> q])
      /\ prep.evicted = NoQuery => prep.st.closes = s.closes
      /\ prep.evicted # NoQuery => /\ prep.evicted \in Queries
                                   /\ prep.st.closes = Append(s.closes, "suppress")
  BY PrepareKept
<1>2. /\ parse \in MessageOf /\ one \in Item /\ Asks(parse, one, c)
      /\ one.kind = "parsed" /\ one.disp = reply /\ one.query = q
  BY DEF Message, MessageOf, Senders, ItemOf, Item, Kinds, Asks, AnswerKind, Line, ExtendedKinds
<1>3. ~prep.hit
  OBVIOUS
<1> HIDE DEF prep
<1>4. CASE prep.evicted = NoQuery
  <2>1. w2 = Append(w, parse)
    <3>1. w2 = w \o (<<>> \o <<parse>>)
      BY <1>3, <1>4 DEF Preparation, prep
    <3> HIDE DEF parse
    <3>2. <<>> \o <<parse>> = <<parse>> /\ w \o <<parse>> = Append(w, parse)
      BY <1>2
    <3> QED  BY <3>1, <3>2
  <2> HIDE DEF parse, one
  <2>2. /\ prep.st.parses = Append(s.parses, [reply |-> one.disp, query |-> one.query])
        /\ prep.st.closes = s.closes
    BY <1>1, <1>2, <1>4
  <2>3. d2.owed = IF one.disp = "forward" THEN Append(d.owed, one.kind) ELSE d.owed
    BY <1>2 DEF Disposition
  <2>4. /\ Append(w, parse) \in Seq(MessageOf)
        /\ Planned(c, prep.st, d2, Append(w, parse), r, t, v)
        /\ one.disp = "forward" => Attached(c, prep.st, d2, Append(w, parse), r, t, v)
    BY <1>1, <1>2, <2>2, <2>3, PlannedExtends
  <2> QED  BY <1>1, <1>2, <2>1, <2>4 DEF prep
<1>5. CASE prep.evicted # NoQuery
  <2> DEFINE s1 == [s EXCEPT !.closes = Append(s.closes, "suppress")]
  <2>1. /\ close \in MessageOf /\ two \in Item /\ Asks(close, two, c)
        /\ two.kind = "closed" /\ two.disp = "suppress"
    BY <1>1, <1>5 DEF Message, MessageOf, Senders, ItemOf, Item, Kinds, Asks, AnswerKind, Line,
       ExtendedKinds, Disposition
  <2>2. w2 = Append(Append(w, close), parse)
    <3>1. w2 = w \o (<<close>> \o <<parse>>)
      BY <1>3, <1>5 DEF Preparation, prep
    <3> HIDE DEF parse, close
    <3>2. w \o (<<close>> \o <<parse>>) = Append(Append(w, close), parse)
      BY <1>2, <2>1
    <3> QED  BY <3>1, <3>2
  <2>3. s1 \in Statements /\ s1.parses = s.parses /\ s1.closes = Append(s.closes, "suppress")
    <3>1. Append(s.closes, "suppress") \in Seq(Disposition)
      BY DEF Statements, Disposition
    <3> QED  BY <3>1 DEF Statements
  <2> HIDE DEF parse, one, close, two, s1
  <2>4. /\ s1.parses = s.parses /\ s1.closes = Append(s.closes, two.disp)
        /\ Opened(d) = d
    BY <2>1, <2>3 DEF Opened, ClientOf
  <2>5. /\ Append(w, close) \in Seq(MessageOf)
        /\ Planned(c, s1, d, Append(w, close), r, t, v)
    BY <2>1, <2>3, <2>4, PlannedExtends
  <2>6. /\ prep.st.parses = Append(s1.parses, [reply |-> one.disp, query |-> one.query])
        /\ prep.st.closes = s1.closes
    BY <1>1, <1>2, <1>5, <2>3
  <2>7. d2.owed = IF one.disp = "forward" THEN Append(d.owed, one.kind) ELSE d.owed
    BY <1>2 DEF Disposition
  <2>8. PICK w1 \in Seq(MessageOf) : w1 = Append(w, close) /\ Planned(c, s1, d, w1, r, t, v)
    BY <2>5
  <2>9. /\ Append(w1, parse) \in Seq(MessageOf)
        /\ Planned(c, prep.st, d2, Append(w1, parse), r, t, v)
        /\ one.disp = "forward" => Attached(c, prep.st, d2, Append(w1, parse), r, t, v)
    <3>1. Planned(c, s1, d, w1, r, t, v)
      BY <2>8
    <3>2. s1 \in Statements /\ prep.st \in Statements
      BY <1>1, <2>3
    <3>3. /\ one.kind # "ready"
          /\ one.kind = "parsed" => one.query \in Queries
          /\ one.disp = "suppress" => one.kind \in {"parsed", "closed"}
      BY <1>2
    <3>4. /\ prep.st.parses = IF one.kind = "parsed"
                              THEN Append(s1.parses, [reply |-> one.disp, query |-> one.query])
                              ELSE s1.parses
          /\ prep.st.closes = IF one.kind = "closed" THEN Append(s1.closes, one.disp) ELSE s1.closes
      BY <1>2, <2>6
    <3>5. parse \in MessageOf /\ one \in Item /\ Asks(parse, one, c)
      BY <1>2
    <3> QED  BY <2>7, <3>1, <3>2, <3>3, <3>4, <3>5, PlannedExtends
  <2> QED  BY <1>1, <1>2, <2>2, <2>8, <2>9 DEF prep
<1> QED  BY <1>4, <1>5

\* Drivers that read the replies to one batch before they send the next, and do not
\* leave while they are owed any.
Tame == Habits \subseteq {"unknown", "undo"}

\* What a tame client is owed when it asks.
LEMMA TameAsks ==
  ASSUME Tame, NEW c, NEW kind
  PROVE  /\ MayAsk(c, kind) => "ready" \notin Range(driver[c].owed)
         /\ MayExtend(c, kind) => /\ "ready" \notin Range(driver[c].owed)
                                  /\ driver[c].batch # "aborted"
         /\ MayInterject(c, kind) => driver[c].owed = <<>> /\ driver[c].batch # "aborted"
         /\ MayQuery(c, kind) => /\ "ready" \notin Range(driver[c].owed)
                                 /\ driver[c].batch = "closed"
         /\ MayLeave(c) => driver[c].owed = <<>> /\ driver[c].batch = "closed"
  BY DEF Tame, MayAsk, MayExtend, MayInterject, MayQuery, MayLeave, Overlaps, Trails, Interjects

\* What a driver keeps when it asks for one more reply of a batch.
LEMMA AskedMore ==
  ASSUME NEW d \in ClientOf, NEW k \in Kinds, d.batch # "aborted"
  PROVE  /\ AsksExtended(d, k) \in ClientOf /\ AsksExtended(d, k).batch = "open"
         /\ AsksExtended(d, k).owed = Append(d.owed, k)
         /\ AsksExtended(d, k).misordered = d.misordered
<1>1. Append(d.owed, k) \in Seq(Kinds)
  BY DEF ClientOf
<1> QED  BY <1>1 DEF AsksExtended, ClientOf

\* What the proxy answers at once leaves a driver that was owed nothing as it was.
LEMMA AnsweredAtOnce ==
  ASSUME NEW d \in ClientOf, NEW k \in Kinds, d.batch # "aborted", d.owed = <<>>
  PROVE  Gets(AsksExtended(d, k), k) = Opened(d)
<1>1. Append(<<>>, k) # <<>> /\ Head(Append(<<>>, k)) = k /\ Tail(Append(<<>>, k)) = <<>>
  OBVIOUS
<1>2. k # "error"
  BY DEF Kinds
<1> DEFINE a == AsksExtended(d, k)
<1>3. a \in ClientOf /\ a.batch = "open" /\ a.owed = Append(<<>>, k) /\ a.misordered = d.misordered
      /\ a.blamed = d.blamed
  BY AskedMore DEF AsksExtended, ClientOf
<1>4. Gets(a, k) = [a EXCEPT !.owed = <<>>]
  <2> HIDE DEF a
  <2> QED  BY <1>1, <1>2, <1>3 DEF Gets
<1> HIDE DEF a
<1>5. [a EXCEPT !.owed = <<>>] = Opened(d)
  BY <1>3 DEF Opened, ClientOf
<1> QED  BY <1>4, <1>5 DEF a

\* Nothing added changes nothing.
LEMMA EmptyAdded ==
  ASSUME NEW M, NEW w \in Seq(M)
  PROVE  w \o <<>> = w /\ w \o (<<>> \o <<>>) = w
  OBVIOUS

\* A Parse: registered, and forwarded, or answered at once from the cache.
LEMMA ParseFits ==
  ASSUME Tame, ExchangeInv, LeaseInv', NEW c \in Sessions, NEW q \in Queries, NEW s,
         Parse(c, s, q)
  PROVE  ExchangeInv'
<1>1. PICK x \in Carriers(c) :
        LET prep == Prepare(StatementsOf(c, x), q, "forward")
            asked == AsksExtended(driver[c], "parsed")
        IN  /\ prep.hit => MayInterject(c, "parse")
            /\ Send(c, x, prep.st, Preparation(c, q, prep))
            /\ driver' = [driver EXCEPT ![c] = IF prep.hit THEN Gets(asked, "parsed") ELSE asked]
  BY DEF Parse
<1> DEFINE d == driver[c]
           held == StatementsOf(c, x)
           prep == Prepare(held, q, "forward")
           asked == AsksExtended(d, "parsed")
           w == toServer[x]
           r == toProxy[x]
           t == lastTx[x]
           v == srv[x]
<1>2. "ready" \notin Range(d.owed) /\ d.batch # "aborted"
  BY TameAsks DEF Parse
<1>3. /\ Reaches(c, x) /\ d \in ClientOf /\ held \in Statements
      /\ w \in Seq(MessageOf) /\ r \in Seq(ReplyOf)
      /\ Attached(c, held, d, w, r, t, v)
  BY CarriersReach, CarrierFits
<1>4. /\ Send(c, x, prep.st, Preparation(c, q, prep))
      /\ driver' = [driver EXCEPT ![c] = IF prep.hit THEN Gets(asked, "parsed") ELSE asked]
      /\ prep.hit => MayInterject(c, "parse")
  BY <1>1
<1>5. dirty' \in [Conns -> SUBSET Vars]
  BY DEF Parse, ExchangeInv, LinksTyped
<1>6. "parsed" \in Kinds /\ "forward" \in Disposition
  BY DEF Kinds, Disposition
<1> HIDE DEF d, held, w, r, t, v
<1>7. /\ Opened(d) \in ClientOf /\ Opened(d).owed = d.owed /\ Opened(d).batch = "open"
      /\ Opened(d).misordered = d.misordered
      /\ Attached(c, held, Opened(d), w, r, t, v)
  BY <1>2, <1>3, AttachedOpens
<1>8. CASE prep.hit
  <2>1. d.owed = <<>>
    BY <1>4, <1>8, TameAsks DEF d
  <2>2. Gets(asked, "parsed") = Opened(d)
    BY <1>2, <1>3, <1>6, <2>1, AnsweredAtOnce
  <2>3. driver' = [driver EXCEPT ![c] = Opened(d)]
    BY <1>4, <1>8, <2>2
  <2>4. /\ prep.st \in Statements /\ prep.evicted = NoQuery
        /\ prep.st.parses = held.parses /\ prep.st.closes = held.closes
    BY <1>3, <1>6, <1>8, PrepareKept
  <2>5. Attached(c, prep.st, Opened(d), w, r, t, v)
    BY <1>7, <2>4, PlannedSame
  <2>6. PICK w2 : w2 = w \o Preparation(c, q, prep)
    OBVIOUS
  <2>7. w2 = w
    <3>1. Preparation(c, q, prep) = <<>> \o <<>>
      BY <1>8, <2>4 DEF Preparation
    <3> QED  BY <1>3, <2>6, <3>1, EmptyAdded
  <2>8. w2 \in Seq(MessageOf) /\ Attached(c, prep.st, Opened(d), w2, r, t, v)
    BY <1>3, <2>5, <2>7
  <2> HIDE DEF prep
  <2> QED  BY <1>3, <1>4, <1>5, <1>7, <2>3, <2>4, <2>6, <2>8, SendKeeps DEF w, r, t, v
<1>9. CASE ~prep.hit
  <2>1. /\ asked \in ClientOf /\ asked.batch = "open" /\ asked.owed = Append(d.owed, "parsed")
        /\ asked.misordered = d.misordered
    BY <1>2, <1>3, <1>6, AskedMore
  <2> HIDE DEF asked
  <2>2. driver' = [driver EXCEPT ![c] = asked]
    BY <1>4, <1>9
  <2>3. PICK w2 : w2 = w \o Preparation(c, q, prep)
    OBVIOUS
  <2>4. Planned(c, held, Opened(d), w, r, t, v)
    BY <1>7 DEF Planned, Attached
  <2>5. /\ asked.owed = Append(Opened(d).owed, "parsed")
        /\ asked.misordered = Opened(d).misordered
    BY <1>7, <2>1
  <2>6. prep.st \in Statements /\ w2 \in Seq(MessageOf) /\ Attached(c, prep.st, asked, w2, r, t, v)
    BY <1>3, <1>6, <1>7, <1>9, <2>1, <2>3, <2>4, <2>5, PlannedPrepares
  <2> HIDE DEF prep
  <2> QED  BY <1>3, <1>4, <1>5, <2>1, <2>2, <2>3, <2>6, SendKeeps DEF w, r, t, v
<1> QED  BY <1>8, <1>9

\* Messages put on the wire after others.
LEMMA MessagesJoin ==
  ASSUME NEW w \in Seq(MessageOf), NEW u \in Seq(MessageOf), NEW m \in MessageOf
  PROVE  w \o <<m>> = Append(w, m) /\ w \o Append(u, m) = Append(w \o u, m)
  OBVIOUS

\* The Close of an evicted statement and the Parse of a missing one.
LEMMA PreparationTyped ==
  ASSUME NEW c \in Sessions, NEW s \in Statements, NEW q \in Queries, NEW reply \in Disposition
  PROVE  Preparation(c, q, Prepare(s, q, reply)) \in Seq(MessageOf)
<1> DEFINE prep == Prepare(s, q, reply)
           parse == Message("parse", q, c)
           close == Message("close", prep.evicted, c)
<1>1. prep.evicted = NoQuery \/ prep.evicted \in Queries
  BY PrepareKept
<1> HIDE DEF prep
<1>2. parse \in MessageOf /\ (prep.evicted # NoQuery => close \in MessageOf)
  BY <1>1 DEF Message, MessageOf, Senders
<1> HIDE DEF parse, close
<1>3. /\ (IF prep.evicted = NoQuery THEN <<>> ELSE <<close>>) \in Seq(MessageOf)
      /\ (IF prep.hit THEN <<>> ELSE <<parse>>) \in Seq(MessageOf)
  BY <1>2
<1>4. \A a \in Seq(MessageOf), b \in Seq(MessageOf) : a \o b \in Seq(MessageOf)
  OBVIOUS
<1>5. (IF prep.evicted = NoQuery THEN <<>> ELSE <<close>>) \o (IF prep.hit THEN <<>> ELSE <<parse>>)
         \in Seq(MessageOf)
  BY <1>3, <1>4
<1> QED  BY <1>5 DEF Preparation, prep, parse, close

\* A Bind goes out, behind whatever had to be prepared for it.
LEMMA BindSent ==
  ASSUME NEW c \in Sessions, NEW s \in Statements, NEW d \in ClientOf, d.batch # "aborted",
         NEW w \in Seq(MessageOf), NEW r \in Seq(ReplyOf), NEW t, NEW v,
         Planned(c, s, Opened(d), w, r, t, v), NEW q \in Queries \cup {NoQuery}
  PROVE  /\ Append(w, Message("bind", q, c)) \in Seq(MessageOf)
         /\ Attached(c, s, AsksExtended(d, "bound"), Append(w, Message("bind", q, c)), r, t, v)
<1> DEFINE d2 == AsksExtended(d, "bound")
           m == Message("bind", q, c)
           it == ItemOf("bound", "forward", q)
<1>1. /\ d2 \in ClientOf /\ d2.batch = "open" /\ d2.owed = Append(d.owed, "bound")
      /\ d2.misordered = d.misordered
  BY AskedMore DEF Kinds
<1>2. /\ Opened(d) \in ClientOf /\ Opened(d).owed = d.owed /\ Opened(d).batch = "open"
      /\ Opened(d).misordered = d.misordered
  BY DEF Opened, ClientOf
<1>3. /\ m \in MessageOf /\ it \in Item /\ Asks(m, it, c)
      /\ it.kind = "bound" /\ it.disp = "forward"
  BY DEF Message, MessageOf, Senders, ItemOf, Item, Kinds, Disposition, Asks, AnswerKind, Line,
     ExtendedKinds
<1> HIDE DEF d2, m, it
<1>4. /\ d2.owed = Append(Opened(d).owed, it.kind) /\ d2.misordered = Opened(d).misordered
  BY <1>1, <1>2, <1>3
<1>5. Append(w, m) \in Seq(MessageOf) /\ Attached(c, s, d2, Append(w, m), r, t, v)
  BY <1>1, <1>2, <1>3, <1>4, PlannedExtends
<1> QED  BY <1>5 DEF d2, m

\* A Bind, with the Parse of its statement in front if the connection lacks it.
LEMMA BindFits ==
  ASSUME Tame, StoreTypeOK, ExchangeInv, LeaseInv', NEW c \in Sessions, NEW s \in Names, Bind(c, s)
  PROVE  ExchangeInv'
<1>1. PICK x \in Carriers(c) :
        LET q == names[c][s]
            held == StatementsOf(c, x)
            prep == Prepare(held, q, "suppress")
        IN  IF q = NoQuery
            THEN Send(c, x, held, <<Message("bind", q, c)>>)
            ELSE Send(c, x, prep.st, Append(Preparation(c, q, prep), Message("bind", q, c)))
  BY DEF Bind
<1> DEFINE q == names[c][s]
           d == driver[c]
           held == StatementsOf(c, x)
           prep == Prepare(held, q, "suppress")
           P == Preparation(c, q, prep)
           m == Message("bind", q, c)
           d2 == AsksExtended(d, "bound")
           w == toServer[x]
           r == toProxy[x]
           t == lastTx[x]
           v == srv[x]
<1>2. "ready" \notin Range(d.owed) /\ d.batch # "aborted"
  BY TameAsks DEF Bind
<1>3. /\ Reaches(c, x) /\ d \in ClientOf /\ held \in Statements
      /\ w \in Seq(MessageOf) /\ r \in Seq(ReplyOf)
      /\ Attached(c, held, d, w, r, t, v)
  BY CarriersReach, CarrierFits
<1>4. IF q = NoQuery THEN Send(c, x, held, <<m>>) ELSE Send(c, x, prep.st, Append(P, m))
  BY <1>1
<1>5. driver' = [driver EXCEPT ![c] = d2] /\ dirty' \in [Conns -> SUBSET Vars]
  BY DEF Bind, ExchangeInv, LinksTyped
<1>6. q \in Queries \cup {NoQuery} /\ "suppress" \in Disposition /\ m \in MessageOf
  BY DEF StoreTypeOK, Disposition, Message, MessageOf, Senders
<1> HIDE DEF q, d, held, w, r, t, v
<1>7. d2 \in ClientOf
  BY <1>2, <1>3, AskedMore DEF Kinds
<1>8. /\ Opened(d) \in ClientOf /\ Opened(d).owed = d.owed /\ Opened(d).batch = "open"
      /\ Opened(d).misordered = d.misordered
      /\ Planned(c, held, Opened(d), w, r, t, v)
  BY <1>2, <1>3, AttachedOpens DEF Planned, Attached
<1>9. CASE q = NoQuery
  <2>1. Append(w, m) \in Seq(MessageOf) /\ Attached(c, held, d2, Append(w, m), r, t, v)
    BY <1>2, <1>3, <1>6, <1>8, BindSent
  <2> HIDE DEF m, d2
  <2>2. PICK w2 : w2 = w \o <<m>>
    OBVIOUS
  <2>3. w2 \in Seq(MessageOf) /\ Attached(c, held, d2, w2, r, t, v)
    <3>1. w \o <<m>> = Append(w, m)
      BY <1>3, <1>6, MessagesJoin
    <3> QED  BY <2>1, <2>2, <3>1
  <2>4. Send(c, x, held, <<m>>)
    BY <1>4, <1>9
  <2> QED  BY <1>3, <1>5, <1>7, <2>2, <2>3, <2>4, SendKeeps DEF w, r, t, v
<1>10. CASE q # NoQuery
  <2>0. q \in Queries
    BY <1>6, <1>10
  <2>1. P \in Seq(MessageOf)
    BY <1>3, <1>6, <2>0, PreparationTyped
  <2>2. PICK w1 : w1 = w \o P
    OBVIOUS
  <2>3. /\ prep.st \in Statements /\ w1 \in Seq(MessageOf)
        /\ Planned(c, prep.st, Opened(d), w1, r, t, v)
    <3>1. CASE prep.hit
      <4>1. /\ prep.st \in Statements /\ prep.evicted = NoQuery
            /\ prep.st.parses = held.parses /\ prep.st.closes = held.closes
        BY <1>3, <1>6, <2>0, <3>1, PrepareKept
      <4>2. P = <<>> \o <<>>
        BY <3>1, <4>1 DEF Preparation
      <4>3. w1 = w
        BY <1>3, <2>2, <4>2, EmptyAdded
      <4>4. Planned(c, prep.st, Opened(d), w, r, t, v)
        BY <1>8, <4>1, PlannedSame
      <4> QED  BY <1>3, <4>1, <4>3, <4>4
    <3>2. CASE ~prep.hit
      <4>1. /\ "suppress" = "forward" => Opened(d).owed = Append(Opened(d).owed, "parsed")
            /\ "suppress" = "suppress" => Opened(d).owed = Opened(d).owed
        OBVIOUS
      <4> QED  BY <1>3, <1>6, <1>8, <2>0, <2>2, <3>2, <4>1, PlannedPrepares
    <3> QED  BY <3>1, <3>2
  <2>4. Append(w1, m) \in Seq(MessageOf) /\ Attached(c, prep.st, d2, Append(w1, m), r, t, v)
    BY <1>2, <1>3, <1>6, <2>3, BindSent
  <2> HIDE DEF m, d2, P, prep
  <2>5. PICK w2 : w2 = w \o Append(P, m)
    OBVIOUS
  <2>6. w2 \in Seq(MessageOf) /\ Attached(c, prep.st, d2, w2, r, t, v)
    <3>1. w \o Append(P, m) = Append(w \o P, m)
      BY <1>3, <1>6, <2>1, MessagesJoin
    <3> QED  BY <2>2, <2>4, <2>5, <3>1
  <2>7. Send(c, x, prep.st, Append(P, m))
    BY <1>4, <1>10
  <2> QED  BY <1>3, <1>5, <1>7, <2>3, <2>5, <2>6, <2>7, SendKeeps DEF w, r, t, v
<1> QED  BY <1>9, <1>10

\* The Close of a portal is forwarded, and its reply is the client's.
LEMMA PortalFits ==
  ASSUME Tame, ExchangeInv, LeaseInv', NEW c \in Sessions, ClosePortal(c)
  PROVE  ExchangeInv'
<1>1. PICK x \in Carriers(c) :
        Send(c, x, NotePortalClose(StatementsOf(c, x)), <<Message("portal", NoQuery, c)>>)
  BY DEF ClosePortal
<1> DEFINE d == driver[c]
           held == StatementsOf(c, x)
           s2 == NotePortalClose(held)
           m == Message("portal", NoQuery, c)
           it == ItemOf("closed", "forward", NoQuery)
           d2 == AsksExtended(d, "closed")
           w == toServer[x]
           r == toProxy[x]
           t == lastTx[x]
           v == srv[x]
<1>2. "ready" \notin Range(d.owed) /\ d.batch # "aborted"
  BY TameAsks DEF ClosePortal
<1>3. /\ Reaches(c, x) /\ d \in ClientOf /\ held \in Statements
      /\ w \in Seq(MessageOf) /\ r \in Seq(ReplyOf)
      /\ Attached(c, held, d, w, r, t, v)
  BY CarriersReach, CarrierFits
<1>4. driver' = [driver EXCEPT ![c] = d2] /\ dirty' \in [Conns -> SUBSET Vars]
  BY DEF ClosePortal, ExchangeInv, LinksTyped
<1> HIDE DEF d, held, w, r, t, v
<1>5. /\ d2 \in ClientOf /\ d2.batch = "open" /\ d2.owed = Append(d.owed, "closed")
      /\ d2.misordered = d.misordered
  BY <1>2, <1>3, AskedMore DEF Kinds
<1>6. /\ Opened(d) \in ClientOf /\ Opened(d).owed = d.owed /\ Opened(d).batch = "open"
      /\ Opened(d).misordered = d.misordered
      /\ Planned(c, held, Opened(d), w, r, t, v)
  BY <1>2, <1>3, AttachedOpens DEF Planned, Attached
<1>7. /\ m \in MessageOf /\ it \in Item /\ Asks(m, it, c)
      /\ it.kind = "closed" /\ it.disp = "forward"
  BY DEF Message, MessageOf, Senders, ItemOf, Item, Kinds, Disposition, Asks, AnswerKind, Line,
     ExtendedKinds
<1>8. s2 \in Statements /\ s2.parses = held.parses /\ s2.closes = Append(held.closes, "forward")
  <2>1. s2 \in Statements
    BY <1>3, RecordKept
  <2> QED  BY <1>3, <2>1 DEF NotePortalClose, Statements
<1>9. Send(c, x, s2, <<m>>)
  BY <1>1 DEF held
<1> HIDE DEF d2, m, it, s2
<1>10. /\ d2.owed = Append(Opened(d).owed, it.kind) /\ d2.misordered = Opened(d).misordered
       /\ s2.closes = Append(held.closes, it.disp)
  BY <1>5, <1>6, <1>7, <1>8
<1>11. Append(w, m) \in Seq(MessageOf) /\ Attached(c, s2, d2, Append(w, m), r, t, v)
  BY <1>3, <1>5, <1>6, <1>7, <1>8, <1>10, PlannedExtends
<1>12. PICK w2 : w2 = w \o <<m>>
  OBVIOUS
<1>13. w2 \in Seq(MessageOf) /\ Attached(c, s2, d2, w2, r, t, v)
  <2>1. w \o <<m>> = Append(w, m)
    BY <1>3, <1>7, MessagesJoin
  <2> QED  BY <1>11, <1>12, <2>1
<1> QED  BY <1>3, <1>4, <1>5, <1>8, <1>9, <1>12, <1>13, SendKeeps DEF w, r, t, v

\* A Sync closes the batch and its plan.
LEMMA SyncFits ==
  ASSUME Tame, ExchangeInv, LeaseInv', NEW c \in Sessions, Sync(c)
  PROVE  ExchangeInv'
<1>1. PICK x \in Carriers(c) :
        Send(c, x, StatementsOf(c, x), <<Message("sync", NoQuery, c)>>)
  BY DEF Sync
<1> DEFINE d == driver[c]
           held == StatementsOf(c, x)
           m == Message("sync", NoQuery, c)
           it == NoteOf("ready")
           d2 == AsksSync(d)
           w == toServer[x]
           r == toProxy[x]
           t == lastTx[x]
           v == srv[x]
<1>2. d.batch # "closed"
  BY DEF Sync, MaySync
<1>3. /\ Reaches(c, x) /\ d \in ClientOf /\ held \in Statements
      /\ w \in Seq(MessageOf) /\ r \in Seq(ReplyOf)
      /\ Attached(c, held, d, w, r, t, v)
  BY CarriersReach, CarrierFits
<1>4. driver' = [driver EXCEPT ![c] = d2] /\ dirty' \in [Conns -> SUBSET Vars]
  BY DEF Sync, ExchangeInv, LinksTyped
<1>5. Send(c, x, held, <<m>>)
  BY <1>1
<1> HIDE DEF d, held, w, r, t, v
<1>6. /\ d2 \in ClientOf /\ d2.batch = "closed" /\ d2.owed = Append(d.owed, "ready")
      /\ d2.misordered = d.misordered
  <2>1. Append(d.owed, "ready") \in Seq(Kinds)
    BY <1>3 DEF ClientOf, Kinds
  <2> QED  BY <1>3, <2>1 DEF AsksSync, ClientOf
<1>7. /\ m \in MessageOf /\ it \in Item /\ Asks(m, it, c) /\ m.kind = "sync"
      /\ it.disp = "forward"
  BY DEF Message, MessageOf, Senders, NoteOf, Item, Kinds, Disposition, Asks, AnswerKind, Line
<1>8. PICK p \in Seq(Item) : Settled(p) /\ Exchange(c, p, held, d, w, r, t, v)
  BY <1>3 DEF Attached
<1> HIDE DEF d2, m, it
<1>9. Exchange(c, Append(p, it), held, d2, Append(w, m), r, t, v)
  BY <1>2, <1>3, <1>6, <1>7, <1>8, ExchangeSyncs
<1>10. Append(p, it) \in Seq(Item) /\ Settled(Append(p, it))
  BY <1>7, PlanAppend DEF Settled
<1>11. PICK w2 : w2 = w \o <<m>>
  OBVIOUS
<1>12. w2 \in Seq(MessageOf) /\ Attached(c, held, d2, w2, r, t, v)
  <2>1. w \o <<m>> = Append(w, m)
    BY <1>3, <1>7, MessagesJoin
  <2>2. Append(w, m) \in Seq(MessageOf)
    BY <1>3, <1>7
  <2>3. Attached(c, held, d2, Append(w, m), r, t, v)
    BY <1>9, <1>10 DEF Attached
  <2> QED  BY <1>11, <2>1, <2>2, <2>3
<1> QED  BY <1>3, <1>4, <1>5, <1>6, <1>11, <1>12, SendKeeps DEF w, r, t, v

\* What the proxy answers itself, it answers a client that is owed nothing.
LEMMA InterceptFits ==
  ASSUME Tame, ExchangeInv, LeaseInv', NEW c \in Sessions,
         (\E s \in Names : CloseStatement(c, s)) \/ Deallocate(c)
  PROVE  ExchangeInv'
<1> DEFINE d == driver[c]
<1>1. d \in ClientOf /\ SessionFits(c)
  BY DEF ExchangeInv, LinksTyped
<1>2. UNCHANGED <<conn, linkVars, wireVars>>
  BY DEF CloseStatement, Deallocate
<1>3. CASE \E s \in Names : CloseStatement(c, s)
  <2>1. /\ d.owed = <<>> /\ d.batch # "aborted"
        /\ driver' = [driver EXCEPT ![c] = Gets(AsksExtended(d, "closed"), "closed")]
    BY <1>3, TameAsks DEF CloseStatement
  <2> HIDE DEF d
  <2>2. "closed" \in Kinds /\ "ready" \notin Range(d.owed)
    BY <2>1 DEF Kinds, Range
  <2>3. Gets(AsksExtended(d, "closed"), "closed") = Opened(d)
    BY <1>1, <2>1, <2>2, AnsweredAtOnce
  <2>4. /\ Opened(d) \in ClientOf /\ Opened(d).owed = d.owed /\ Opened(d).batch = "open"
        /\ Opened(d).misordered = d.misordered
    BY <1>1 DEF Opened, ClientOf
  <2>5. conn[c] = NoConn => Detached(Opened(d))
    BY <1>1, <2>1, <2>4 DEF SessionFits, Detached, d
  <2>6. ASSUME conn[c] # NoConn
        PROVE  Attached(c, st[conn[c]], Opened(d), toServer[conn[c]], toProxy[conn[c]],
                        lastTx[conn[c]], srv[conn[c]])
    <3>1. conn[c] \in Conns
      BY <2>6 DEF ExchangeInv, LeaseInv
    <3>2. st[conn[c]] \in Statements
      BY <3>1 DEF ExchangeInv, LinksTyped
    <3>3. Attached(c, st[conn[c]], d, toServer[conn[c]], toProxy[conn[c]],
                   lastTx[conn[c]], srv[conn[c]])
      BY <1>1, <2>6 DEF SessionFits, d
    <3> QED  BY <1>1, <2>1, <2>2, <3>2, <3>3, AttachedOpens
  <2>7. driver' = [driver EXCEPT ![c] = Opened(d)]
    BY <2>1, <2>3
  <2> QED  BY <1>2, <2>4, <2>5, <2>6, <2>7, OwnKeeps
<1>4. CASE Deallocate(c)
  <2>1. /\ d.owed = <<>>
        /\ driver' = [driver EXCEPT ![c] = Gets(Gets(AsksSimple(d), "done"), "ready")]
    BY <1>4, TameAsks DEF Deallocate
  <2>2. Gets(Gets(AsksSimple(d), "done"), "ready") = d
    <3> HIDE DEF d
    <3>1. AsksSimple(d) = [d EXCEPT !.owed = <<"done", "ready">>]
      BY <2>1 DEF AsksSimple, ClientOf
    <3>2. /\ <<"done", "ready">> # <<>> /\ Head(<<"done", "ready">>) = "done"
          /\ Tail(<<"done", "ready">>) = <<"ready">>
          /\ <<"ready">> # <<>> /\ Head(<<"ready">>) = "ready" /\ Tail(<<"ready">>) = <<>>
      OBVIOUS
    <3>3. PICK e : e = [d EXCEPT !.owed = <<"done", "ready">>]
      OBVIOUS
    <3>4. PICK f : f = [d EXCEPT !.owed = <<"ready">>]
      OBVIOUS
    <3>5. /\ e.owed = <<"done", "ready">> /\ [e EXCEPT !.owed = <<"ready">>] = f
          /\ f.owed = <<"ready">> /\ [f EXCEPT !.owed = <<>>] = d
      BY <1>1, <2>1, <3>3, <3>4 DEF ClientOf
    <3>6. Gets(e, "done") = f /\ Gets(f, "ready") = d
      BY <3>2, <3>5 DEF Gets
    <3> QED  BY <3>1, <3>3, <3>6
  <2>3. driver' = [driver EXCEPT ![c] = d]
    BY <2>1, <2>2
  <2>4. /\ conn[c] = NoConn => Detached(d)
        /\ conn[c] # NoConn => Attached(c, st[conn[c]], d, toServer[conn[c]], toProxy[conn[c]],
                                        lastTx[conn[c]], srv[conn[c]])
    BY <1>1 DEF SessionFits
  <2> HIDE DEF d
  <2> QED  BY <1>1, <1>2, <2>3, <2>4, OwnKeeps
<1> QED  BY <1>3, <1>4

\* A client that has closed its batch, and has its "ready", has a connection on which
\* nothing is under way.
LEMMA AttachedIdles ==
  ASSUME NEW c, NEW s \in Statements, NEW d \in ClientOf,
         NEW w \in Seq(MessageOf), NEW r \in Seq(ReplyOf), NEW t, NEW v,
         Attached(c, s, d, w, r, t, v), "ready" \notin Range(d.owed), d.batch = "closed"
  PROVE  /\ w = <<>> /\ r = <<>> /\ s.parses = <<>> /\ s.closes = <<>>
         /\ ~v.skip /\ t = v.tx /\ d.owed = <<>> /\ ~d.misordered
<1>1. PICK p \in Seq(Item) : Settled(p) /\ Exchange(c, p, s, d, w, r, t, v)
  BY DEF Attached
<1>2. p = <<>>
  BY <1>1, ExchangeOpen
<1>3. d.owed = <<>> /\ ~d.misordered
  <2>1. Books(<<>>, s, d) /\ ~d.misordered
    BY <1>1, <1>2 DEF Exchange
  <2> QED  BY <2>1, BooksNone
<1>4. /\ w = <<>> /\ r = <<>> /\ s.parses = <<>> /\ s.closes = <<>>
      /\ ~v.skip /\ t = v.tx
  BY <1>1, <1>3, ExchangeQuiet
<1> QED  BY <1>3, <1>4

\* What a simple query may be.
LEMMA QueryTyped ==
  ASSUME NEW query \in Query
  PROVE  query.kind \in ClientKinds /\ query.arg \in SUBSET Vars
  BY DEF Query, ClientKinds

\* A simple query finds nothing under way on its connection.
LEMMA SimpleFits ==
  ASSUME Tame, ExchangeInv, LeaseInv', NEW c \in Sessions, NEW query \in Query,
         SimpleQuery(c, query)
  PROVE  ExchangeInv'
<1>1. PICK x \in Carriers(c) :
        /\ Send(c, x, StatementsAfter(StatementsOf(c, x), query),
                <<Message(query.kind, query.arg, c)>>)
        /\ dirty' = [dirty EXCEPT ![x] = DirtyAfter(x, query)]
  BY DEF SimpleQuery
<1> DEFINE d == driver[c]
           held == StatementsOf(c, x)
           s2 == StatementsAfter(held, query)
           m == Message(query.kind, query.arg, c)
           d2 == AsksSimple(d)
           w == toServer[x]
           r == toProxy[x]
           t == lastTx[x]
           v == srv[x]
<1>2. "ready" \notin Range(d.owed) /\ d.batch = "closed"
  BY TameAsks DEF SimpleQuery
<1>3. /\ Reaches(c, x) /\ d \in ClientOf /\ held \in Statements
      /\ w \in Seq(MessageOf) /\ r \in Seq(ReplyOf)
      /\ Attached(c, held, d, w, r, t, v)
  BY CarriersReach, CarrierFits
<1>4. query.kind \in ClientKinds /\ query.arg \in SUBSET Vars
  BY QueryTyped
<1>5. driver' = [driver EXCEPT ![c] = d2] /\ dirty' \in [Conns -> SUBSET Vars]
  <2>1. x \in Conns /\ dirty \in [Conns -> SUBSET Vars]
    BY <1>3 DEF ExchangeInv, LinksTyped, Reaches
  <2>2. DirtyAfter(x, query) \in SUBSET Vars
    BY <1>4, <2>1 DEF DirtyAfter
  <2> QED  BY <1>1, <2>1, <2>2 DEF SimpleQuery
<1>6. Send(c, x, s2, <<m>>)
  BY <1>1
<1> HIDE DEF d, held, w, r, t, v
<1>7. /\ w = <<>> /\ r = <<>> /\ held.parses = <<>> /\ held.closes = <<>>
      /\ ~v.skip /\ d.owed = <<>> /\ ~d.misordered
  BY <1>2, <1>3, AttachedIdles
<1>8. s2 \in Statements /\ s2.parses = <<>> /\ s2.closes = <<>>
  <2>1. DiscardAll(held) \in Statements
    BY <1>3, RecordKept
  <2>2. DiscardAll(held).parses = held.parses /\ DiscardAll(held).closes = held.closes
    BY <1>3 DEF DiscardAll, Statements
  <2> QED  BY <1>3, <1>7, <2>1, <2>2 DEF StatementsAfter
<1>9. d2 \in ClientOf /\ d2.owed = <<"done", "ready">> /\ d2.batch = "closed" /\ ~d2.misordered
  <2>1. <<>> \o <<"done", "ready">> = <<"done", "ready">>
        /\ <<"done", "ready">> \in Seq(Kinds)
    BY DEF Kinds
  <2> QED  BY <1>2, <1>3, <1>7, <2>1 DEF AsksSimple, ClientOf
<1>10. m \in MessageOf /\ m.from = c /\ m.kind \in ClientKinds
  BY <1>4 DEF Message, MessageOf, Senders
<1> HIDE DEF d2, m, s2
<1>11. /\ QueryPlan \in Seq(Item) /\ Settled(QueryPlan)
       /\ Exchange(c, QueryPlan, s2, d2, <<m>>, <<>>, t, v)
  BY <1>3, <1>7, <1>8, <1>9, <1>10, ExchangeQueries
<1>12. PICK w2 : w2 = w \o <<m>>
  OBVIOUS
<1>13. w2 \in Seq(MessageOf) /\ Attached(c, s2, d2, w2, r, t, v)
  <2>1. <<>> \o <<m>> = <<m>> /\ <<m>> \in Seq(MessageOf)
    BY <1>10
  <2>2. Attached(c, s2, d2, <<m>>, <<>>, t, v)
    BY <1>11 DEF Attached
  <2> QED  BY <1>7, <1>12, <2>1, <2>2
<1> QED  BY <1>3, <1>5, <1>6, <1>8, <1>9, <1>12, <1>13, SendKeeps DEF w, r, t, v

\* Every message of a tame client leaves the connections explained.
LEMMA AskFits ==
  ASSUME Tame, StoreTypeOK, ExchangeInv, LeaseInv', NEW c \in Sessions, Ask(c)
  PROVE  ExchangeInv'
<1>1. ASSUME NEW s \in Names, NEW q \in Queries, Parse(c, s, q)
      PROVE  ExchangeInv'
  BY <1>1, ParseFits
<1>2. ASSUME NEW s \in Names, Bind(c, s)
      PROVE  ExchangeInv'
  BY <1>2, BindFits
<1>3. ASSUME NEW query \in Query, SimpleQuery(c, query)
      PROVE  ExchangeInv'
  BY <1>3, SimpleFits
<1> QED  BY <1>1, <1>2, <1>3, PortalFits, SyncFits, InterceptFits DEF Ask

-----------------------------------------------------------------------------
(* The server answers *)

\* What a session's server reads is the session's.
LEMMA HeadFrom ==
  ASSUME NEW c, NEW p \in Seq(Item), NEW s, NEW d, NEW w \in Seq(MessageOf), w # <<>>,
         NEW r, NEW t, NEW v, Exchange(c, p, s, d, w, r, t, v)
  PROVE  Head(w).from = c
<1>1. Len(w) \in Nat \ {0} /\ 1 \in 1..Len(w) /\ Head(w) = w[1]
  BY WireTail
<1>2. ASSUME Waiting(c, p, w)  PROVE w[1].from = c
  <2>1. Asks(w[1], p[Len(p) - Len(w) + 1], c)
    BY <1>2, WaitingTail
  <2> QED  BY <2>1 DEF Asks
<1> QED  BY <1>1, <1>2 DEF Exchange, Flowing, Failing, Skipping, Querying

\* Whatever the server reads, its answer is made of replies.
LEMMA OutcomeTyped ==
  ASSUME NEW v \in Server, NEW m \in MessageOf, NEW o \in Outcomes(v, m),
         NEW r \in Seq(ReplyOf)
  PROVE  o.srv \in Server /\ Replied(r, o.replies, m.from) \in Seq(ReplyOf)
<1>0. m.from \in Senders
  BY DEF MessageOf
<1>1. /\ "none" \in {"none", "client", "pooler"} \cup Tx
      /\ Tx \subseteq {"none", "client", "pooler"} \cup Tx
      /\ \A z \in Server : z.tx \in Tx
  BY DEF Server
<1>2. \A k \in Kinds \cup {"error"}, a \in {"none", "client", "pooler"} \cup Tx :
        To([kind |-> k, arg |-> a], m.from) \in ReplyOf
  BY <1>0 DEF To, ReplyOf
<1>3. CASE m.kind = "sync"
  <2>1. o.srv \in Server /\ o.replies = <<[kind |-> "ready", arg |-> v.tx]>>
    BY <1>3, OutcomeSync
  <2>2. To([kind |-> "ready", arg |-> v.tx], m.from) \in ReplyOf
    BY <1>1, <1>2 DEF Kinds
  <2> QED  BY <2>1, <2>2, RepliedOne
<1>4. CASE m.kind # "sync" /\ v.skip
  BY <1>4, OutcomeSkipped, RepliedNone
<1>5. CASE ~v.skip /\ m.kind \in ExtendedKinds
  <2>1. AnswerKind(m.kind) \in Kinds
    BY DEF AnswerKind, Kinds
  <2>2. o.srv \in Server
    BY <1>5, OutcomeLine
  <2>3. PICK k \in Kinds \cup {"error"}, a \in {"none", "client", "pooler"} \cup Tx :
          o.replies = <<[kind |-> k, arg |-> a]>>
    BY <1>5, <2>1, OutcomeLine
  <2>4. To([kind |-> k, arg |-> a], m.from) \in ReplyOf
    BY <1>2
  <2> QED  BY <2>2, <2>3, <2>4, RepliedOne
<1>6. CASE ~v.skip /\ m.kind \in ClientKinds \cup {"clean", "rollback and clean"}
  <2>1. /\ o.srv \in Server
        /\ \/ o.replies = <<[kind |-> "done", arg |-> "none"], [kind |-> "ready", arg |-> o.srv.tx]>>
           \/ o.replies = <<[kind |-> "error", arg |-> "client"], [kind |-> "ready", arg |-> o.srv.tx]>>
    BY <1>6, OutcomeSimple
  <2>2. /\ To([kind |-> "done", arg |-> "none"], m.from) \in ReplyOf
        /\ To([kind |-> "error", arg |-> "client"], m.from) \in ReplyOf
        /\ To([kind |-> "ready", arg |-> o.srv.tx], m.from) \in ReplyOf
    BY <1>1, <1>2, <2>1 DEF Kinds
  <2>3. PICK a, b : /\ To(a, m.from) \in ReplyOf /\ To(b, m.from) \in ReplyOf
                    /\ o.replies = <<a, b>>
    BY <2>1, <2>2
  <2>4. Replied(r, <<a, b>>, m.from) \in Seq(ReplyOf)
    BY <2>3, RepliedTwo
  <2> QED  BY <2>1, <2>3, <2>4
<1>7. m.kind \in ExtendedKinds \cup {"sync"} \cup ClientKinds \cup {"clean", "rollback and clean"}
  BY DEF MessageOf, ExtendedKinds
<1> QED  BY <1>3, <1>4, <1>5, <1>6, <1>7

\* The query of a reset is answered.
LEMMA CleaningServed ==
  ASSUME NEW w \in Seq(MessageOf), w # <<>>, NEW r \in Seq(ReplyOf), NEW v \in Server,
         Cleaning(w, r, v), NEW o \in Outcomes(v, Head(w))
  PROVE  Cleaning(Tail(w), Replied(r, o.replies, Head(w).from), o.srv)
<1> DEFINE m == Head(w)
           r2 == Replied(r, o.replies, m.from)
<1>1. /\ Len(w) = 1 /\ r = <<>> /\ ~v.skip /\ w[1].kind \in {"clean", "rollback and clean"}
  BY DEF Cleaning
<1>2. m = w[1] /\ m \in MessageOf /\ Tail(w) = <<>>
  BY <1>1, WireTail, SingletonTail
<1>3. m.from \in Senders
  BY <1>2 DEF MessageOf
<1>4. /\ o.srv \in Server /\ ~o.srv.skip
      /\ \/ o.replies = <<[kind |-> "done", arg |-> "none"], [kind |-> "ready", arg |-> o.srv.tx]>>
         \/ o.replies = <<[kind |-> "error", arg |-> "client"], [kind |-> "ready", arg |-> o.srv.tx]>>
  BY <1>1, <1>2, OutcomeSimple
<1>5. PICK b : b = [kind |-> "ready", arg |-> o.srv.tx]
  OBVIOUS
<1>6. PICK a : /\ a \in {[kind |-> "done", arg |-> "none"], [kind |-> "error", arg |-> "client"]}
               /\ o.replies = <<a, b>>
  BY <1>4, <1>5
<1>7. To(a, m.from) \in ReplyOf /\ To(b, m.from) \in ReplyOf
      /\ To(a, m.from).kind # "ready" /\ To(b, m.from).kind = "ready"
      /\ To(b, m.from).arg = o.srv.tx
  BY <1>3, <1>4, <1>5, <1>6 DEF To, ReplyOf, Kinds, Server
<1>8. r2 = Replied(r, <<a, b>>, m.from)
  BY <1>6
<1>9. Len(r2) = Len(r) + 2 /\ r2[Len(r) + 1] = To(a, m.from) /\ r2[Len(r) + 2] = To(b, m.from)
  BY <1>7, <1>8, RepliedTwo
<1>10. Len(r) = 0
  BY <1>1
<1>11. Len(r2) = 2 /\ r2[1] = To(a, m.from) /\ r2[2] = To(b, m.from)
  BY <1>9, <1>10
<1> HIDE DEF r2
<1>12. Cleaning(<<>>, r2, o.srv)
  BY <1>4, <1>7, <1>11 DEF Cleaning
<1> QED  BY <1>2, <1>12 DEF r2

\* A server's step leaves its session explained, or its reset under way.
LEMMA ServeFits ==
  ASSUME ExchangeInv, LeaseInv', NEW x \in Conns, Serve(x)
  PROVE  ExchangeInv'
<1> DEFINE w == toServer[x]
           r == toProxy[x]
           t == lastTx[x]
           v == srv[x]
           m == Head(w)
<1>1. PICK o \in Outcomes(v, m) :
        /\ srv' = [srv EXCEPT ![x] = o.srv]
        /\ toProxy' = [toProxy EXCEPT ![x] =
             @ \o [i \in DOMAIN o.replies |-> To(o.replies[i], m.from)]]
  BY DEF Serve
<1>2. /\ w # <<>> /\ phase[x] \in {"lent", "resetting"} /\ toServer' = [toServer EXCEPT ![x] = Tail(w)]
      /\ UNCHANGED <<conn, driver, phase, st, lastTx, dirty>>
  BY DEF Serve, sessionVars, linkVars
<1>3. /\ w \in Seq(MessageOf) /\ r \in Seq(ReplyOf) /\ t \in Tx /\ v \in Server
      /\ st[x] \in Statements /\ phase[x] \in Phases /\ driver \in [Sessions -> ClientOf]
      /\ phase \in [Conns -> Phases] /\ st \in [Conns -> Statements] /\ lastTx \in [Conns -> Tx]
      /\ dirty \in [Conns -> SUBSET Vars] /\ conn \in [Sessions -> Conns \cup {NoConn}]
      /\ toProxy \in [Conns -> Seq(ReplyOf)] /\ toServer \in [Conns -> Seq(MessageOf)]
      /\ srv \in [Conns -> Server]
  BY DEF ExchangeInv, LinksTyped, LeaseInv, Phases
<1>4. toProxy' = [toProxy EXCEPT ![x] = Replied(r, o.replies, m.from)]
  BY <1>1 DEF Replied
<1>5. /\ phase' = [phase EXCEPT ![x] = phase[x]] /\ st' = [st EXCEPT ![x] = st[x]]
      /\ lastTx' = [lastTx EXCEPT ![x] = t] /\ dirty' \in [Conns -> SUBSET Vars]
      /\ driver' \in [Sessions -> ClientOf]
  BY <1>2, <1>3
<1>6. Tail(w) \in Seq(MessageOf)
  BY <1>2, <1>3
<1> DEFINE r2 == Replied(r, o.replies, m.from)
<1>7. CASE \E c \in Sessions : conn[c] = x
  <2>1. PICK c \in Sessions : conn[c] = x
    BY <1>7
  <2>2. /\ phase[x] = "lent" /\ x # NoConn
        /\ \A e \in Sessions \ {c} : conn[e] # x
    BY <2>1, ProxyAssumption DEF ExchangeInv, LeaseInv, OneSession
  <2>3. PICK p \in Seq(Item) : Settled(p) /\ Exchange(c, p, st[x], driver[c], w, r, t, v)
    <3>1. SessionFits(c)
      BY DEF ExchangeInv
    <3> QED  BY <2>1, <2>2, <3>1 DEF SessionFits, Attached
  <2>4. m.from = c
    <3> HIDE DEF w
    <3> QED  BY <1>2, <1>3, <2>3, HeadFrom
  <2>5. r2 = Replied(r, o.replies, c)
    BY <2>4
  <2> HIDE DEF w, r, t, v, r2
  <2>6. /\ r2 \in Seq(ReplyOf) /\ o.srv \in Server
        /\ Exchange(c, p, st[x], driver[c], Tail(w), r2, t, o.srv)
    BY <1>2, <1>3, <2>3, <2>5, ExchangeServed
  <2>7. Attached(c, st[x], driver[c], Tail(w), r2, t, o.srv)
    BY <2>3, <2>6 DEF Attached
  <2>8. Rests(phase[x], Tail(w), r2, t, o.srv)
    BY <2>2 DEF Rests
  <2>9. driver[c] \in ClientOf /\ driver' = [driver EXCEPT ![c] = driver[c]]
    BY <1>2, <1>3
  <2>10. /\ conn'[c] \in {x, NoConn} /\ conn'[c] # NoConn
         /\ \A e \in Sessions \ {c} : conn[e] # x /\ conn'[e] = conn[e]
    BY <1>2, <2>1, <2>2
  <2>11. /\ toServer' = [toServer EXCEPT ![x] = Tail(w)] /\ toProxy' = [toProxy EXCEPT ![x] = r2]
         /\ srv' = [srv EXCEPT ![x] = o.srv]
    BY <1>1, <1>2, <1>4 DEF r2
  <2>12. /\ conn'[c] = x => Attached(c, st[x], driver[c], Tail(w), r2, t, o.srv)
         /\ conn'[c] = NoConn => Detached(driver[c])
    BY <2>7, <2>10
  <2> QED  BY <1>3, <1>5, <1>6, <2>6, <2>8, <2>9, <2>10, <2>11, <2>12, StepKeeps
<1>8. CASE ~\E c \in Sessions : conn[c] = x
  <2>0. m \in MessageOf
    BY <1>2, <1>3
  <2>1. r2 \in Seq(ReplyOf) /\ o.srv \in Server
    <3> HIDE DEF w, r, v, m
    <3> QED  BY <1>3, <2>0, OutcomeTyped
  <2>2. Rests(phase[x], Tail(w), r2, t, o.srv)
    <3>1. CASE phase[x] = "lent"
      BY <3>1 DEF Rests
    <3>2. CASE phase[x] = "resetting"
      <4>1. Cleaning(w, r, v)
        BY <3>2 DEF ExchangeInv, LinkRests, Rests
      <4> HIDE DEF w, r, v
      <4>2. Cleaning(Tail(w), r2, o.srv)
        BY <1>2, <1>3, <4>1, CleaningServed
      <4> QED  BY <3>2, <4>2 DEF Rests
    <3> QED  BY <1>2, <3>1, <3>2
  <2>3. \A e \in Sessions : conn[e] # x /\ conn'[e] = conn[e] /\ driver'[e] = driver[e]
    BY <1>2, <1>8
  <2>4. /\ toServer' = [toServer EXCEPT ![x] = Tail(w)] /\ toProxy' = [toProxy EXCEPT ![x] = r2]
        /\ srv' = [srv EXCEPT ![x] = o.srv]
    BY <1>1, <1>2, <1>4
  <2> HIDE DEF w, r, t, v, r2
  <2> QED  BY <1>3, <1>5, <1>6, <2>1, <2>2, <2>3, <2>4, LinkKeeps
<1> QED  BY <1>7, <1>8

-----------------------------------------------------------------------------
(* The proxy reads replies *)

\* What the pooler has on one connection.
LEMMA LinkTypes ==
  ASSUME ExchangeInv, NEW x \in Conns
  PROVE  /\ st[x] \in Statements /\ lastTx[x] \in Tx /\ dirty[x] \in SUBSET Vars
         /\ toServer[x] \in Seq(MessageOf) /\ toProxy[x] \in Seq(ReplyOf) /\ srv[x] \in Server
         /\ phase[x] \in Phases
  BY DEF ExchangeInv, LinksTyped, LeaseInv, Phases

\* The query of a reset is a message of no session.
LEMMA CleanTyped ==
  ASSUME NEW k \in {"clean", "rollback and clean"}, NEW vs \in SUBSET Vars
  PROVE  /\ Message(k, vs, NoSession) \in MessageOf
         /\ Message(k, vs, NoSession).kind = k /\ Message(k, vs, NoSession).from = NoSession
  BY DEF Message, MessageOf, Senders

\* The first message on an empty wire.
LEMMA FirstSent ==
  ASSUME NEW e \in Seq(MessageOf), e = <<>>, NEW m \in MessageOf
  PROVE  Append(e, m) \in Seq(MessageOf) /\ Len(Append(e, m)) = 1 /\ Append(e, m)[1] = m
<1>1. Len(e) = 0
  OBVIOUS
<1>2. /\ Append(e, m) \in Seq(MessageOf)
      /\ Len(Append(e, m)) = Len(e) + 1 /\ Append(e, m)[Len(e) + 1] = m
  <2> HIDE DEF MessageOf
  <2> QED  BY SMT
<1> QED  BY <1>1, <1>2

\* A connection on which nothing is under way goes into its reset.
LEMMA CheckinCleans ==
  ASSUME NEW x \in Conns, LinksTyped, NEW seen, Checkin(x, seen), toServer[x] = <<>>,
         NEW v, ~v.skip
  PROVE  \E w2 \in Seq(MessageOf) :
           /\ toServer' = [toServer EXCEPT ![x] = w2] /\ Cleaning(w2, <<>>, v)
           /\ phase' = [phase EXCEPT ![x] = "resetting"]
           /\ dirty' \in [Conns -> SUBSET Vars]
<1> DEFINE k == IF seen = "idle" THEN "clean" ELSE "rollback and clean"
           m == Message(k, dirty[x], NoSession)
<1>1. /\ toServer' = [toServer EXCEPT ![x] = Append(toServer[x], m)]
      /\ phase' = [phase EXCEPT ![x] = "resetting"]
      /\ dirty' = [dirty EXCEPT ![x] = {}]
  BY DEF Checkin
<1>2. dirty \in [Conns -> SUBSET Vars] /\ dirty' \in [Conns -> SUBSET Vars]
  BY <1>1 DEF LinksTyped
<1>3. k \in {"clean", "rollback and clean"}
  OBVIOUS
<1> HIDE DEF k
<1>4. m \in MessageOf /\ m.kind \in {"clean", "rollback and clean"} /\ m.from = NoSession
  BY <1>2, <1>3, CleanTyped
<1> HIDE DEF m
<1>5. /\ Append(toServer[x], m) \in Seq(MessageOf) /\ Len(Append(toServer[x], m)) = 1
      /\ Append(toServer[x], m)[1] = m
  BY <1>4, FirstSent DEF LinksTyped
<1>6. Cleaning(Append(toServer[x], m), <<>>, v)
  BY <1>4, <1>5 DEF Cleaning
<1> QED  BY <1>1, <1>2, <1>5, <1>6

\* The same, whatever the plan.
LEMMA AttachedReads ==
  ASSUME NEW c, NEW s \in Statements, NEW d \in ClientOf, NEW w \in Seq(MessageOf),
         NEW r \in Seq(ReplyOf), r # <<>>, NEW t, NEW v, Attached(c, s, d, w, r, t, v)
  PROVE  /\ AfterReply(s, Head(r)) \in Statements /\ Passed(s, d, c, Head(r)) \in ClientOf
         /\ Attached(c, AfterReply(s, Head(r)), Passed(s, d, c, Head(r)), w, Tail(r),
                     Seen(t, Head(r)), v)
         /\ Head(r).kind = "ready" =>
              Detached(Passed(s, d, c, Head(r))) /\ Spent(w, Tail(r), v, Head(r).arg)
<1>1. PICK p \in Seq(Item) : Settled(p) /\ Exchange(c, p, s, d, w, r, t, v)
  BY DEF Attached
<1>2. PICK a : a = Head(r)
  OBVIOUS
<1>3. PICK s2 : s2 = AfterReply(s, a)
  OBVIOUS
<1>4. PICK d2 : d2 = Passed(s, d, c, a)
  OBVIOUS
<1>5. PICK t2 : t2 = Seen(t, a)
  OBVIOUS
<1>6. PICK r2 : r2 = Tail(r)
  OBVIOUS
<1>7. /\ s2 \in Statements /\ d2 \in ClientOf
  BY <1>1, <1>2, <1>3, <1>4, ExchangeReads
<1>8. Attached(c, s2, d2, w, r2, t2, v)
  BY <1>1, <1>2, <1>3, <1>4, <1>5, <1>6, ExchangeReads
<1>9. a.kind = "ready" => Detached(d2) /\ Spent(w, r2, v, a.arg)
  BY <1>1, <1>2, <1>4, <1>6, ExchangeReads
<1> QED  BY <1>2, <1>3, <1>4, <1>5, <1>6, <1>7, <1>8, <1>9

\* A reply that the proxy reads, and the release that may follow it.
LEMMA RelayFits ==
  ASSUME ExchangeInv, LeaseInv', NEW c \in Sessions, Relay(c)
  PROVE  ExchangeInv'
<1> DEFINE x == conn[c]
           s == st[x]
           d == driver[c]
           w == toServer[x]
           r == toProxy[x]
           t == lastTx[x]
           v == srv[x]
           a == Head(r)
           s2 == AfterReply(s, a)
           d2 == Passed(s, d, c, a)
           t2 == Seen(t, a)
<1>1. /\ x # NoConn /\ r # <<>>
      /\ toProxy' = [toProxy EXCEPT ![x] = Tail(r)]
      /\ st' = [st EXCEPT ![x] = s2] /\ driver' = [driver EXCEPT ![c] = d2]
      /\ lastTx' = [lastTx EXCEPT ![x] = t2]
      /\ IF Releases(c, a)
         THEN Checkin(x, a.arg) /\ conn' = [conn EXCEPT ![c] = NoConn]
         ELSE UNCHANGED <<phase, toServer, dirty, conn>>
      /\ srv' = srv
  BY DEF Relay, Passed, Seen
<1>2. /\ x \in Conns /\ phase[x] = "lent" /\ \A e \in Sessions \ {c} : conn[e] # x
      /\ conn \in [Sessions -> Conns \cup {NoConn}]
  BY <1>1 DEF ExchangeInv, LeaseInv, OneSession
<1>3. /\ s \in Statements /\ d \in ClientOf /\ w \in Seq(MessageOf) /\ r \in Seq(ReplyOf)
      /\ t \in Tx /\ v \in Server /\ LinksTyped
  BY <1>2, LinkTypes DEF ExchangeInv, LinksTyped
<1>4. Attached(c, s, d, w, r, t, v)
  <2>1. SessionFits(c)
    BY DEF ExchangeInv
  <2> QED  BY <1>1, <2>1 DEF SessionFits
<1>5. srv' = [srv EXCEPT ![x] = v] /\ Tail(r) \in Seq(ReplyOf)
  BY <1>1, <1>2, <1>3 DEF LinksTyped
<1>9. /\ Releases(c, a) => Checkin(x, a.arg) /\ conn' = [conn EXCEPT ![c] = NoConn]
      /\ ~Releases(c, a) => UNCHANGED <<phase, toServer, dirty, conn>>
  BY <1>1
<1>10. /\ s2 \in Statements /\ d2 \in ClientOf
       /\ Attached(c, s2, d2, w, Tail(r), t2, v)
       /\ a.kind = "ready" => Detached(d2) /\ Spent(w, Tail(r), v, a.arg)
  <2> HIDE DEF x, s, d, w, r, t, v
  <2>1. r # <<>>
    BY <1>1
  <2> QED  BY <1>3, <1>4, <2>1, AttachedReads
<1>11. t2 \in Tx
  BY <1>3, <1>10 DEF Server, Seen, Spent
<1> HIDE DEF s2, d2, t2, a
<1>8. /\ toProxy' = [toProxy EXCEPT ![x] = Tail(r)] /\ st' = [st EXCEPT ![x] = s2]
      /\ driver' = [driver EXCEPT ![c] = d2] /\ lastTx' = [lastTx EXCEPT ![x] = t2]
  BY <1>1
<1>12. CASE Releases(c, a)
  <2>1. a.kind = "ready"
    BY <1>12 DEF Releases
  <2>2. conn'[c] = NoConn /\ \A e \in Sessions \ {c} : conn[e] # x /\ conn'[e] = conn[e]
    BY <1>2, <1>9, <1>12
  <2>3. Detached(d2)
    BY <1>10, <2>1
  <2>4. PICK w2 \in Seq(MessageOf) :
           /\ toServer' = [toServer EXCEPT ![x] = w2] /\ Cleaning(w2, <<>>, v)
           /\ phase' = [phase EXCEPT ![x] = "resetting"]
           /\ dirty' \in [Conns -> SUBSET Vars]
    BY <1>2, <1>3, <1>9, <1>10, <1>12, <2>1, CheckinCleans DEF Spent
  <2>5. Rests("resetting", w2, Tail(r), t2, v) /\ "resetting" \in Phases
    BY <1>10, <2>1, <2>4 DEF Rests, Phases, Spent
  <2>6. /\ conn'[c] \in {x, NoConn}
        /\ conn'[c] = x => Attached(c, s2, d2, w2, Tail(r), t2, v)
        /\ conn'[c] = NoConn => Detached(d2)
    BY <1>1, <2>2, <2>3
  <2> HIDE DEF x, s, d, w, r, t, v
  <2> QED  BY <1>2, <1>3, <1>5, <1>8, <1>10, <1>11, <2>2, <2>4, <2>5, <2>6, StepKeeps
<1>13. CASE ~Releases(c, a)
  <2>1. UNCHANGED <<phase, toServer, dirty, conn>>
    BY <1>9, <1>13
  <2>2. /\ conn'[c] \in {x, NoConn} /\ conn'[c] # NoConn
        /\ \A e \in Sessions \ {c} : conn[e] # x /\ conn'[e] = conn[e]
    BY <1>1, <1>2, <2>1
  <2>4. /\ conn'[c] = x => Attached(c, s2, d2, w, Tail(r), t2, v)
        /\ conn'[c] = NoConn => Detached(d2)
    BY <1>10, <2>2
  <2>5. /\ toServer' = [toServer EXCEPT ![x] = w] /\ phase' = [phase EXCEPT ![x] = "lent"]
        /\ dirty' \in [Conns -> SUBSET Vars]
    BY <1>2, <1>3, <2>1 DEF LinksTyped, ExchangeInv, LeaseInv
  <2>6. Rests("lent", w, Tail(r), t2, v) /\ "lent" \in Phases
    BY DEF Rests, Phases
  <2> HIDE DEF x, s, d, w, r, t, v
  <2> QED  BY <1>2, <1>3, <1>5, <1>8, <1>10, <1>11, <2>2, <2>4, <2>5, <2>6, StepKeeps
<1> QED  BY <1>12, <1>13

-----------------------------------------------------------------------------
(* Resets, ends and beginnings *)

\* What a session and a connection begin with.
LEMMA NewTyped ==
  /\ NewDriver \in ClientOf /\ Detached(NewDriver)
  /\ NoStatements \in Statements /\ NewServer \in Server /\ "idle" \in Tx
  /\ <<>> \in Seq(MessageOf) /\ <<>> \in Seq(ReplyOf)
  /\ Rests("closed", <<>>, <<>>, "idle", NewServer)
<1>1. NewDriver \in ClientOf /\ Detached(NewDriver)
  <2>1. <<>> \in Seq(Kinds)
    OBVIOUS
  <2> QED  BY <2>1 DEF NewDriver, ClientOf, Detached
<1>2. NoStatements \in Statements
  <2>1. <<>> \in Seq(Queries) /\ <<>> \in Seq([reply : Disposition, query : Queries])
        /\ <<>> \in Seq(Disposition)
    OBVIOUS
  <2> QED  BY <2>1 DEF NoStatements, Statements
<1>3. NewServer \in Server /\ "idle" \in Tx /\ Rests("closed", <<>>, <<>>, "idle", NewServer)
  BY DEF NewServer, Server, Tx, Quiet, Rests
<1>4. <<>> \in Seq(MessageOf) /\ <<>> \in Seq(ReplyOf)
  OBVIOUS
<1> QED  BY <1>1, <1>2, <1>3, <1>4

\* A connection that is discarded: no session that stays has it.
LEMMA DiscardKeeps ==
  ASSUME ExchangeInv, LeaseInv', NEW x \in Conns, Discard(x),
         driver' \in [Sessions -> ClientOf],
         \A e \in Sessions : \/ conn[e] # x /\ conn'[e] = conn[e] /\ driver'[e] = driver[e]
                             \/ SessionFits(e)'
  PROVE  ExchangeInv'
<1>1. /\ phase' = [phase EXCEPT ![x] = "closed"] /\ st' = [st EXCEPT ![x] = NoStatements]
      /\ lastTx' = [lastTx EXCEPT ![x] = "idle"] /\ toServer' = [toServer EXCEPT ![x] = <<>>]
      /\ toProxy' = [toProxy EXCEPT ![x] = <<>>] /\ srv' = [srv EXCEPT ![x] = NewServer]
  BY DEF Discard
<1>2. dirty' \in [Conns -> SUBSET Vars]
  BY DEF Discard, ExchangeInv, LinksTyped
<1>3. "closed" \in Phases
  BY DEF Phases
<1> QED  BY <1>1, <1>2, <1>3, NewTyped, LinkKeeps

\* The reset reads a reply: it goes on, ends with nothing under way, or the
\* connection is discarded.
LEMMA ResetReadsFits ==
  ASSUME ExchangeInv, LeaseInv', NEW x \in Conns, ResetReads(x)
  PROVE  ExchangeInv'
<1> DEFINE s == st[x]
           w == toServer[x]
           r == toProxy[x]
           t == lastTx[x]
           v == srv[x]
           a == Head(r)
           ends == a.kind = "ready"
           ph2 == IF ends THEN "idle" ELSE "resetting"
           t2 == IF ends THEN "idle" ELSE t
<1>1. phase[x] = "resetting" /\ r # <<>> /\ UNCHANGED <<conn, driver>>
  BY DEF ResetReads, sessionVars
<1>2. /\ driver' \in [Sessions -> ClientOf]
      /\ \A e \in Sessions : conn[e] # x /\ conn'[e] = conn[e] /\ driver'[e] = driver[e]
  BY <1>1, NotHeld DEF ExchangeInv, LinksTyped
<1>3. CASE Discard(x)
  BY <1>2, <1>3, DiscardKeeps
<1>4. CASE ~Discard(x)
  <2>1. /\ ~(a.kind = "error" \/ (a.kind = "ready" /\ a.arg # "idle"))
        /\ toProxy' = [toProxy EXCEPT ![x] = Tail(r)]
        /\ phase' = [phase EXCEPT ![x] = IF ends THEN "idle" ELSE phase[x]]
        /\ lastTx' = [lastTx EXCEPT ![x] = IF ends THEN "idle" ELSE t]
        /\ UNCHANGED <<st, dirty, toServer, srv>>
    BY <1>4 DEF ResetReads
  <2>2. phase' = [phase EXCEPT ![x] = ph2] /\ lastTx' = [lastTx EXCEPT ![x] = t2]
    BY <1>1, <2>1
  <2>3. /\ s \in Statements /\ w \in Seq(MessageOf) /\ r \in Seq(ReplyOf) /\ t \in Tx /\ v \in Server
        /\ Cleaning(w, r, v)
    BY <1>1, LinkTypes DEF ExchangeInv, LinkRests, Rests
  <2>4. /\ st' = [st EXCEPT ![x] = s] /\ toServer' = [toServer EXCEPT ![x] = w]
        /\ srv' = [srv EXCEPT ![x] = v] /\ dirty' \in [Conns -> SUBSET Vars]
    BY <2>1 DEF ExchangeInv, LinksTyped
  <2>5. ph2 \in Phases /\ t2 \in Tx
    BY <2>3 DEF Phases, Tx
  <2>6. Tail(r) \in Seq(ReplyOf) /\ Rests(ph2, w, Tail(r), t2, v)
    <3> HIDE DEF w, r, t, v
    <3>1. /\ a = r[1] /\ Tail(r) \in Seq(ReplyOf) /\ Len(Tail(r)) = Len(r) - 1
          /\ \A i \in 1..(Len(r) - 1) : Tail(r)[i] = r[i + 1]
          /\ w = <<>> /\ ~v.skip
      BY <1>1, <2>3, WireTail DEF Cleaning
    <3>2. CASE Len(r) = 2 /\ r[1].kind # "ready" /\ r[2].kind = "ready" /\ r[2].arg = v.tx
      <4>1. Len(Tail(r)) = 1 /\ Tail(r)[1] = r[2]
        <5>1. 1 \in 1..(Len(r) - 1)
          BY <3>2
        <5>2. Tail(r)[1] = r[1 + 1]
          BY <3>1, <5>1
        <5>3. 1 + 1 = 2 /\ 2 - 1 = 1
          OBVIOUS
        <5> QED  BY <3>1, <3>2, <5>2, <5>3
      <4>2. ~ends
        BY <3>1, <3>2
      <4> QED  BY <3>1, <3>2, <4>1, <4>2 DEF Rests, Cleaning
    <3>3. CASE Len(r) = 1 /\ r[1].kind = "ready" /\ r[1].arg = v.tx
      <4>1. Tail(r) = <<>>
        BY <1>1, <2>3, <3>3, SingletonTail
      <4>2. ends /\ v.tx = "idle"
        BY <2>1, <3>1, <3>3
      <4> QED  BY <3>1, <4>1, <4>2 DEF Rests, Quiet
    <3>4. \/ Len(r) = 2 /\ r[1].kind # "ready" /\ r[2].kind = "ready" /\ r[2].arg = v.tx
          \/ Len(r) = 1 /\ r[1].kind = "ready" /\ r[1].arg = v.tx
      BY <1>1, <2>3 DEF Cleaning
    <3> QED  BY <3>1, <3>2, <3>3, <3>4
  <2> HIDE DEF s, w, r, t, v, ph2, t2
  <2> QED  BY <1>2, <2>1, <2>2, <2>3, <2>4, <2>5, <2>6, LinkKeeps
<1> QED  BY <1>3, <1>4

\* A connection that the server closes takes its session with it.
LEMMA BreakFits ==
  ASSUME ExchangeInv, LeaseInv', NEW x \in Conns, Break(x)
  PROVE  ExchangeInv'
<1>1. Discard(x) /\ driver \in [Sessions -> ClientOf] /\ conn \in [Sessions -> Conns \cup {NoConn}]
  BY DEF Break, ExchangeInv, LinksTyped, LeaseInv
<1>2. ASSUME NEW c \in Sessions, conn[c] = x, EndSession(c)
      PROVE  ExchangeInv'
  <2>1. conn' = [conn EXCEPT ![c] = NoConn] /\ driver' = [driver EXCEPT ![c] = NewDriver]
    BY <1>2 DEF EndSession
  <2>2. driver' \in [Sessions -> ClientOf]
    BY <1>1, <2>1, NewTyped
  <2>3. SessionFits(c)'
    BY <1>1, <2>1, NewTyped DEF SessionFits
  <2>4. \A e \in Sessions \ {c} : conn[e] # x /\ conn'[e] = conn[e] /\ driver'[e] = driver[e]
    BY <1>1, <1>2, <2>1, ProxyAssumption DEF ExchangeInv, LeaseInv, OneSession
  <2>5. \A e \in Sessions : \/ conn[e] # x /\ conn'[e] = conn[e] /\ driver'[e] = driver[e]
                            \/ SessionFits(e)'
    <3> TAKE e \in Sessions
    <3> QED  BY <2>3, <2>4
  <2> QED  BY <1>1, <2>2, <2>5, DiscardKeeps
<1>3. ASSUME phase[x] = "resetting", UNCHANGED sessionVars
      PROVE  ExchangeInv'
  <2>1. /\ driver' \in [Sessions -> ClientOf]
        /\ \A e \in Sessions : conn[e] # x /\ conn'[e] = conn[e] /\ driver'[e] = driver[e]
    BY <1>1, <1>3, NotHeld DEF ExchangeInv, sessionVars
  <2> QED  BY <1>1, <2>1, DiscardKeeps
<1> QED  BY <1>2, <1>3 DEF Break

\* A connection that is opened waits.
LEMMA OpenFits ==
  ASSUME ExchangeInv, LeaseInv', NEW x \in Conns, Open(x)
  PROVE  ExchangeInv'
<1>1. /\ phase[x] = "closed" /\ phase' = [phase EXCEPT ![x] = "idle"]
      /\ UNCHANGED <<conn, driver, st, lastTx, dirty, toServer, toProxy, srv>>
  BY DEF Open, sessionVars, wireVars
<1>2. phase \in [Conns -> Phases]
  BY DEF ExchangeInv, LeaseInv, Phases
<1>3. LinksTyped'
  BY <1>1 DEF ExchangeInv, LinksTyped
<1>4. \A c \in Sessions : SessionFits(c)'
  BY <1>1 DEF ExchangeInv, SessionFits
<1>5. \A y \in Conns : LinkRests(y)'
  <2> TAKE y \in Conns
  <2>1. LinkRests(y)
    BY DEF ExchangeInv
  <2>2. CASE y = x
    <3>1. phase'[x] = "idle"
      BY <1>1, <1>2
    <3> QED  BY <1>1, <2>1, <2>2, <3>1 DEF LinkRests, Rests
  <2>3. CASE y # x
    <3>1. phase'[y] = phase[y]
      BY <1>1, <1>2, <2>3
    <3> QED  BY <1>1, <2>1, <3>1 DEF LinkRests
  <2> QED  BY <2>2, <2>3
<1> QED  BY <1>3, <1>4, <1>5 DEF ExchangeInv

\* A session of session mode takes a connection that waits.
LEMMA StartFits ==
  ASSUME ExchangeInv, LeaseInv', NEW c \in Sessions, NEW x \in Conns, StartSession(c, x)
  PROVE  ExchangeInv'
<1> DEFINE d == driver[c]
           s2 == StatementsOf(c, x)
<1>1. /\ conn[c] = NoConn /\ phase[x] = "idle" /\ Send(c, x, ResetPending(st[x]), <<>>)
      /\ driver' = driver /\ dirty' = dirty
  BY DEF StartSession
<1>2. Reaches(c, x)
  BY <1>1 DEF Reaches
<1>3. /\ d \in ClientOf /\ s2 \in Statements /\ x # NoConn
      /\ toServer[x] \in Seq(MessageOf)
      /\ Attached(c, s2, d, toServer[x], toProxy[x], lastTx[x], srv[x])
  BY <1>2, CarrierFits
<1>4. Send(c, x, s2, <<>>)
  BY <1>1, <1>3 DEF StatementsOf
<1>5. driver' = [driver EXCEPT ![c] = d] /\ dirty' \in [Conns -> SUBSET Vars]
  BY <1>1 DEF ExchangeInv, LinksTyped
<1>6. PICK e : e = <<>>
  OBVIOUS
<1>7. toServer[x] \o e = toServer[x]
  BY <1>3, <1>6, EmptyAdded
<1>8. Send(c, x, s2, e)
  BY <1>4, <1>6
<1> HIDE DEF d, s2
<1>9. /\ toServer[x] \o e \in Seq(MessageOf)
      /\ Attached(c, s2, d, toServer[x] \o e, toProxy[x], lastTx[x], srv[x])
  BY <1>3, <1>7
<1> QED  BY <1>2, <1>3, <1>5, <1>8, <1>9, SendKeeps

\* A tame client that leaves gives its connection back with nothing under way.
LEMMA LeaveFits ==
  ASSUME Tame, ExchangeInv, LeaseInv', NEW c \in Sessions, Leave(c)
  PROVE  ExchangeInv'
<1> DEFINE x == conn[c]
<1>1. /\ driver[c].owed = <<>> /\ driver[c].batch = "closed"
      /\ conn' = [conn EXCEPT ![c] = NoConn] /\ driver' = [driver EXCEPT ![c] = NewDriver]
  BY TameAsks DEF Leave, EndSession
<1>2. conn \in [Sessions -> Conns \cup {NoConn}] /\ driver \in [Sessions -> ClientOf]
  BY DEF ExchangeInv, LeaseInv, LinksTyped
<1>3. CASE x = NoConn
  <2>1. conn' = conn /\ UNCHANGED <<linkVars, wireVars>>
    BY <1>1, <1>2, <1>3 DEF Leave
  <2> QED  BY <1>1, <1>3, <2>1, NewTyped, OwnKeeps
<1>4. CASE x # NoConn
  <2> DEFINE s == st[x]
             d == driver[c]
             w == toServer[x]
             r == toProxy[x]
             t == lastTx[x]
             v == srv[x]
  <2>1. /\ x \in Conns /\ Checkin(x, t) /\ UNCHANGED <<st, lastTx, toProxy, srv>>
        /\ \A e \in Sessions \ {c} : conn[e] # x /\ conn'[e] = conn[e]
    BY <1>1, <1>2, <1>4 DEF Leave, ExchangeInv, LeaseInv, OneSession
  <2>2. /\ s \in Statements /\ d \in ClientOf /\ w \in Seq(MessageOf) /\ r \in Seq(ReplyOf)
        /\ t \in Tx /\ v \in Server /\ LinksTyped
    BY <1>2, <2>1, LinkTypes DEF ExchangeInv
  <2>3. Attached(c, s, d, w, r, t, v)
    <3>1. SessionFits(c)
      BY DEF ExchangeInv
    <3> QED  BY <1>4, <3>1 DEF SessionFits
  <2>4. "ready" \notin Range(d.owed) /\ d.batch = "closed"
    BY <1>1 DEF Range
  <2>5. w = <<>> /\ r = <<>> /\ ~v.skip
    <3> HIDE DEF x, s, d, w, r, t, v
    <3> QED  BY <2>2, <2>3, <2>4, AttachedIdles
  <2>6. PICK w2 \in Seq(MessageOf) :
           /\ toServer' = [toServer EXCEPT ![x] = w2] /\ Cleaning(w2, <<>>, v)
           /\ phase' = [phase EXCEPT ![x] = "resetting"]
           /\ dirty' \in [Conns -> SUBSET Vars]
    BY <2>1, <2>2, <2>5, CheckinCleans
  <2>7. Rests("resetting", w2, r, t, v) /\ "resetting" \in Phases
    BY <2>5, <2>6 DEF Rests, Phases
  <2>8. conn'[c] = NoConn /\ conn'[c] # x
    BY <1>1, <1>2, <1>4
  <2>9. /\ st' = [st EXCEPT ![x] = s] /\ lastTx' = [lastTx EXCEPT ![x] = t]
        /\ toProxy' = [toProxy EXCEPT ![x] = r] /\ srv' = [srv EXCEPT ![x] = v]
    BY <2>1, <2>2 DEF LinksTyped
  <2>10. /\ conn'[c] \in {x, NoConn}
         /\ conn'[c] = x => Attached(c, s, NewDriver, w2, r, t, v)
         /\ conn'[c] = NoConn => Detached(NewDriver)
    BY <2>8, NewTyped
  <2>11. \A e \in Sessions \ {c} : conn[e] # x /\ conn'[e] = conn[e]
    BY <2>1
  <2>12. driver' = [driver EXCEPT ![c] = NewDriver] /\ NewDriver \in ClientOf /\ x \in Conns
    BY <1>1, <2>1, NewTyped
  <2> HIDE DEF x, s, d, w, r, t, v
  <2> QED  BY <2>2, <2>6, <2>7, <2>9, <2>10, <2>11, <2>12, StepKeeps
<1> QED  BY <1>3, <1>4

-----------------------------------------------------------------------------
(* The theorems *)

\* Every step of the proxy leaves each session explained by a plan, and each
\* connection that is not lent at rest.
LEMMA ExchangeStep ==
  ASSUME Tame, StoreTypeOK, ExchangeInv, [Next]_vars
  PROVE  ExchangeInv'
<1>1. LeaseInv'
  BY LeaseStep DEF ExchangeInv
<1>2. ASSUME NEW c \in Sessions, Ask(c)  PROVE ExchangeInv'
  BY <1>1, <1>2, AskFits
<1>3. ASSUME NEW c \in Sessions, Relay(c)  PROVE ExchangeInv'
  BY <1>1, <1>3, RelayFits
<1>4. ASSUME NEW c \in Sessions, Leave(c)  PROVE ExchangeInv'
  BY <1>1, <1>4, LeaveFits
<1>5. ASSUME NEW c \in Sessions, NEW x \in Conns, StartSession(c, x)  PROVE ExchangeInv'
  BY <1>1, <1>5, StartFits
<1>6. ASSUME NEW x \in Conns, Serve(x) \/ ResetReads(x) \/ Break(x) \/ Open(x)
      PROVE  ExchangeInv'
  BY <1>1, <1>6, ServeFits, ResetReadsFits, BreakFits, OpenFits
<1>7. CASE UNCHANGED vars
  BY <1>1, <1>7
     DEF vars, sessionVars, linkVars, wireVars, ExchangeInv, LinksTyped, SessionFits, LinkRests
<1> QED  BY <1>2, <1>3, <1>4, <1>5, <1>6, <1>7 DEF Next

\* The invariant of the two theorems.
LEMMA ExchangeHolds == Tame => (Spec => []ExchangeInv)
<1> SUFFICES ASSUME Tame  PROVE Spec => []ExchangeInv
  OBVIOUS
<1>1. Init => ExchangeInv
  BY ExchangeInit
<1>2. ExchangeInv /\ StoreTypeOK /\ StoreTypeOK' /\ [Next]_vars => ExchangeInv'
  BY ExchangeStep
<1>3. Spec => []StoreTypeOK
  BY StoreImplemented, StoreHolds, PTL DEF StoreInv
<1> QED  BY <1>1, <1>2, <1>3, PTL DEF Spec

\* Every client gets exactly the replies its own messages call for, in the order
\* it sent them.
THEOREM InOrderHolds == Tame => (Spec => []InOrder)
<1> SUFFICES ASSUME Tame  PROVE Spec => []InOrder
  OBVIOUS
<1>1. ExchangeInv => InOrder
  <2> SUFFICES ASSUME ExchangeInv, NEW c \in Sessions  PROVE ~driver[c].misordered
    BY DEF InOrder
  <2>1. SessionFits(c)
    BY DEF ExchangeInv
  <2> QED  BY <2>1 DEF SessionFits, Detached, Attached, Exchange
<1> QED  BY <1>1, ExchangeHolds, PTL

\* A connection that waits to be lent owes nothing to anybody.
THEOREM IdleQuietHolds == Tame => (Spec => []IdleIsQuiet)
<1> SUFFICES ASSUME Tame  PROVE Spec => []IdleIsQuiet
  OBVIOUS
<1>1. ExchangeInv => IdleIsQuiet
  BY DEF ExchangeInv, LinkRests, Rests, Quiet, IdleIsQuiet
<1> QED  BY <1>1, ExchangeHolds, PTL

-----------------------------------------------------------------------------
(* Settings: what a client changes is put back before the next one          *)

\* What differs from the startup values, now or when the transaction began, is in vs.
Tracked(v, vs) == v.vars \subseteq vs /\ v.saved \subseteq vs

LineMessage == {m \in MessageOf : m.kind \in Line}

\* A simple query that is on its way leaves no setting behind that vs lacks: RESET and
\* DISCARD ALL, which the pooler takes for done, cannot be undone by a rollback.
Bracing(m, v, vs) ==
  /\ ~v.skip /\ m.kind \in ClientKinds
  /\ m.kind = "set" => m.arg \subseteq vs
  /\ m.kind = "reset" => Tracked(v, vs \cup m.arg) /\ (v.tx # "idle" => v.saved = {})
  /\ m.kind = "discard" => v.tx = "idle"
  /\ m.kind \notin {"reset", "discard"} => Tracked(v, vs)

\* The settings of a lent connection are among those the pooler will reset.
Covered(w, v, vs) ==
  \/ w \in Seq(LineMessage) /\ Tracked(v, vs)
  \/ Len(w) = 1 /\ Bracing(w[1], v, vs)

\* A reset has been asked for all settings, or has been done.
Cleared(w, v) ==
  IF w = <<>> THEN Tracked(v, {})
  ELSE Tracked(v, w[1].arg) /\ (w[1].kind = "clean" => v.tx = "idle")

Tidy(ph, w, v, vs) ==
  /\ ph \in {"closed", "idle"} => Tracked(v, {}) /\ vs = {}
  /\ ph = "resetting" => Cleared(w, v) /\ vs = {}
  /\ ph = "lent" => Covered(w, v, vs)

LinkTidy(x) == Tidy(phase[x], toServer[x], srv[x], dirty[x])

CleanInv == mode = "transaction" /\ \A x \in Conns : LinkTidy(x)

-----------------------------------------------------------------------------
\* An error puts back what the transaction began with.
LEMMA AbortTracked ==
  ASSUME NEW v \in Server, NEW vs, v.saved \subseteq vs
  PROVE  Tracked(Aborted(v), vs) /\ Aborted(v) \in Server
<1>1. Aborted(v) \in Server
  BY DEF Aborted, Server, Tx
<1>2. Aborted(v).vars = v.saved /\ Aborted(v).saved = v.saved
  BY DEF Aborted, Server
<1> QED  BY <1>1, <1>2 DEF Tracked

\* The end of a transaction keeps what it has set.
LEMMA EndTracked ==
  ASSUME NEW v \in Server, NEW vs, v.vars \subseteq vs, v.tx # "idle" => v.saved \subseteq vs
  PROVE  Tracked(Ended(v), vs)
<1>1. CASE v.tx = "idle"
  <2>1. Ended(v).vars = v.vars /\ Ended(v).saved = v.vars
    BY <1>1 DEF Ended, Server
  <2> QED  BY <2>1 DEF Tracked
<1>2. CASE v.tx # "idle"
  BY <1>2 DEF Ended, Tracked
<1> QED  BY <1>1, <1>2

\* No message of the extended protocol changes a setting, unless a statement does
\* when it is executed.
LEMMA LineTracked ==
  ASSUME SetQueries = {}, NEW v \in Server, NEW m \in LineMessage, NEW o \in Outcomes(v, m),
         NEW vs, Tracked(v, vs)
  PROVE  Tracked(o.srv, vs)
<1>0. m \in MessageOf /\ m.kind \in ExtendedKinds \cup {"sync"}
  BY DEF LineMessage, Line
<1>1. CASE m.kind = "sync"
  <2> DEFINE z == [v EXCEPT !.skip = FALSE]
  <2>1. o.srv = Ended(z)
    BY <1>1 DEF Outcomes, Outcome
  <2>2. z \in Server /\ z.vars = v.vars /\ z.saved = v.saved
    BY DEF Server
  <2> HIDE DEF z
  <2>3. Tracked(Ended(z), vs)
    BY <2>2, EndTracked DEF Tracked
  <2> QED  BY <2>1, <2>3
<1>2. CASE m.kind # "sync" /\ v.skip
  BY <1>2, OutcomeSkipped
<1>3. CASE m.kind # "sync" /\ ~v.skip
  <2>1. o \in Extended(v, m)
    BY <1>0, <1>3 DEF Outcomes
  <2>2. ASSUME NEW cause, o \in Fails(v, cause)  PROVE Tracked(o.srv, vs)
    <3> DEFINE z == Aborted(v)
    <3>1. o.srv = [z EXCEPT !.skip = TRUE]
      BY <2>2 DEF Fails, Outcome
    <3>2. z \in Server /\ Tracked(z, vs)
      BY AbortTracked DEF Tracked
    <3> HIDE DEF z
    <3>3. o.srv.vars = z.vars /\ o.srv.saved = z.saved
      BY <3>1, <3>2 DEF Server
    <3> QED  BY <3>2, <3>3 DEF Tracked
  <2>3. CASE m.kind = "parse"
    <3>1. o \in ParseOutcomes(v, m.arg)
      BY <2>1, <2>3 DEF Extended
    <3>2. CASE o \in Fails(v, "client") \/ o \in Fails(v, "pooler")
      BY <2>2, <3>2
    <3>3. CASE o \notin Fails(v, "client") /\ o \notin Fails(v, "pooler")
      <4>1. o.srv = [v EXCEPT !.stmts = @ \cup {m.arg}]
        BY <3>1, <3>3 DEF ParseOutcomes, Outcome
      <4> QED  BY <4>1 DEF Tracked, Server
    <3> QED  BY <3>2, <3>3
  <2>4. CASE m.kind = "bind"
    <3>1. o \in BindOutcomes(v, m.arg)
      BY <2>1, <2>4 DEF Extended
    <3>2. CASE o \in Fails(v, "client") \/ o \in Fails(v, "pooler")
      BY <2>2, <3>2
    <3>3. CASE o \notin Fails(v, "client") /\ o \notin Fails(v, "pooler")
      <4>1. o.srv = [v EXCEPT !.vars = @ \cup (IF m.arg \in SetQueries THEN Vars ELSE {})]
        BY <3>1, <3>3 DEF BindOutcomes, Outcome
      <4> QED  BY <4>1 DEF Tracked, Server
    <3> QED  BY <3>2, <3>3
  <2>5. CASE m.kind = "close"
    <3>1. o.srv = [v EXCEPT !.stmts = @ \ {m.arg}]
      BY <2>1, <2>5 DEF Extended, Outcome
    <3> QED  BY <3>1 DEF Tracked, Server
  <2>6. CASE m.kind = "portal"
    BY <2>1, <2>6 DEF Extended, Outcome
  <2> QED  BY <1>0, <1>3, <2>3, <2>4, <2>5, <2>6 DEF ExtendedKinds
<1> QED  BY <1>1, <1>2, <1>3

\* What a simple query may come to: an effect, or an error when there is none.
LEMMA SimpleOutcome ==
  ASSUME NEW v \in Server, ~v.skip, NEW m \in MessageOf, NEW o \in Outcomes(v, m),
         m.kind \in ClientKinds \cup {"clean", "rollback and clean"}
  PROVE  \/ \E z \in Effects(v, m) : o.srv = Ended(z)
         \/ o.srv = Aborted(v) /\ (Effects(v, m) = {} \/ m.kind = "work")
<1>1. o \in Simple(v, m)
  BY DEF Outcomes, ExtendedKinds, ClientKinds
<1>2. CASE \E z \in Effects(v, m) : o = Outcome(Ended(z), <<Answer("done"), Ready(z)>>)
  <2>1. PICK z \in Effects(v, m) : o = Outcome(Ended(z), <<Answer("done"), Ready(z)>>)
    BY <1>2
  <2>2. o.srv = Ended(z)
    BY <2>1 DEF Outcome
  <2> QED  BY <2>2
<1>3. CASE ~\E z \in Effects(v, m) : o = Outcome(Ended(z), <<Answer("done"), Ready(z)>>)
  <2>1. o = Outcome(Aborted(v), <<Error("client"), Ready(Aborted(v))>>)
    BY <1>1, <1>3 DEF Simple
  <2>2. Effects(v, m) = {} \/ m.kind = "work"
    BY <1>1, <1>3 DEF Simple
  <2> QED  BY <2>1, <2>2 DEF Outcome
<1> QED  BY <1>2, <1>3

\* A simple query leaves no setting that is not tracked.
LEMMA QueryTracked ==
  ASSUME NEW v \in Server, NEW m \in MessageOf, NEW o \in Outcomes(v, m),
         NEW vs, Bracing(m, v, vs)
  PROVE  Tracked(o.srv, vs)
<1>0. m.kind \in ClientKinds /\ ~v.skip
  BY DEF Bracing
<1> DEFINE back == RolledBack(v)
<1>1. ASSUME NEW z \in Effects(v, m), o.srv = Ended(z)
      PROVE  Tracked(o.srv, vs)
  <2>1. z \in Server
    BY <1>0, EffectTypes
  <2>2. z.vars \subseteq vs /\ (z.tx # "idle" => z.saved \subseteq vs)
    <3>1. CASE m.kind = "commit"
      <4>1. z = back \/ z = [v EXCEPT !.tx = "idle"]
        BY <3>1 DEF Effects
      <4> QED  BY <3>1, <4>1 DEF Bracing, Tracked, Server, RolledBack
    <3>2. CASE m.kind = "rollback"
      <4>1. z = back
        BY <3>2 DEF Effects
      <4> QED  BY <3>2, <4>1 DEF Bracing, Tracked, Server, RolledBack
    <3>3. CASE m.kind = "discard"
      <4>1. z = [v EXCEPT !.stmts = {}, !.vars = {}] /\ v.tx = "idle"
        BY <3>3 DEF Effects, Bracing
      <4> QED  BY <4>1 DEF Server
    <3>4. CASE m.kind = "begin"
      <4>1. z = [v EXCEPT !.tx = "open"]
        BY <3>4 DEF Effects, Changed
      <4> QED  BY <3>4, <4>1 DEF Bracing, Tracked, Server
    <3>5. CASE m.kind = "set"
      <4>1. z = [v EXCEPT !.vars = @ \cup m.arg]
        BY <3>5 DEF Effects, Changed
      <4> QED  BY <3>5, <4>1 DEF Bracing, Tracked, Server
    <3>6. CASE m.kind = "reset"
      <4>1. z = [v EXCEPT !.vars = @ \ m.arg]
        BY <3>6 DEF Effects, Changed
      <4> QED  BY <3>6, <4>1 DEF Bracing, Tracked, Server
    <3>7. CASE m.kind \in {"work", "listen", "unlisten"}
      <4>1. z = v
        BY <3>7 DEF Effects, Changed
      <4> QED  BY <3>7, <4>1 DEF Bracing, Tracked
    <3> QED  BY <1>0, <3>1, <3>2, <3>3, <3>4, <3>5, <3>6, <3>7 DEF ClientKinds
  <2> QED  BY <1>1, <2>1, <2>2, EndTracked
<1>2. ASSUME o.srv = Aborted(v), Effects(v, m) = {} \/ m.kind = "work"
      PROVE  Tracked(o.srv, vs)
  <2>1. v.saved \subseteq vs
    <3>1. CASE m.kind = "discard"
      <4>1. Effects(v, m) # {}
        BY <3>1 DEF Effects, Bracing
      <4> QED  BY <1>2, <3>1, <4>1
    <3>2. CASE m.kind = "reset"
      <4>1. v.tx # "idle"
        BY <1>2, <3>2 DEF Effects
      <4> QED  BY <3>2, <4>1 DEF Bracing
    <3>3. CASE m.kind \notin {"reset", "discard"}
      BY <3>3 DEF Bracing, Tracked
    <3> QED  BY <3>1, <3>2, <3>3
  <2> QED  BY <1>2, <2>1, AbortTracked
<1> QED  BY <1>0, <1>1, <1>2, SimpleOutcome

\* The query of a reset leaves no setting at all.
LEMMA ResetTracked ==
  ASSUME NEW v \in Server, ~v.skip, NEW m \in MessageOf, NEW o \in Outcomes(v, m),
         m.kind \in {"clean", "rollback and clean"}, Tracked(v, m.arg),
         m.kind = "clean" => v.tx = "idle"
  PROVE  Tracked(o.srv, {})
<1> DEFINE back == RolledBack(v)
<1>1. back.tx = "idle" /\ back \in Server /\ back.vars \subseteq m.arg
  BY DEF Server, Tx, Tracked, RolledBack
<1>2. \E z \in Server : Effects(v, m) = {z} /\ z.vars = {} /\ z.tx = "idle"
  <2>1. CASE m.kind = "clean"
    <3> DEFINE z == [v EXCEPT !.vars = @ \ m.arg]
    <3>1. Effects(v, m) = {z}
      BY <2>1 DEF Effects, Cleaned
    <3>2. z \in Server /\ z.vars = {} /\ z.tx = "idle"
      BY <2>1 DEF Server, Tracked
    <3> QED  BY <3>1, <3>2
  <2>2. CASE m.kind = "rollback and clean"
    <3> HIDE DEF back
    <3> DEFINE z == [back EXCEPT !.vars = @ \ m.arg]
    <3>0. m.kind # "commit" /\ m.kind # "rollback"
      BY <2>2
    <3>1. Effects(v, m) = Cleaned(RolledBack(v), m.arg)
      BY <2>2, <3>0 DEF Effects
    <3>2. Cleaned(back, m.arg) = {z}
      BY <1>1 DEF Cleaned
    <3>3. Effects(v, m) = {z}
      BY <3>1, <3>2 DEF back
    <3>4. z \in Server /\ z.vars = {} /\ z.tx = "idle"
      BY <1>1 DEF Server
    <3> QED  BY <3>3, <3>4
  <2> QED  BY <2>1, <2>2
<1>3. PICK z \in Server : Effects(v, m) = {z} /\ z.vars = {} /\ z.tx = "idle"
  BY <1>2
<1>4. m.kind # "work" /\ m.kind \in ClientKinds \cup {"clean", "rollback and clean"}
  OBVIOUS
<1>5. o.srv = Ended(z)
  BY <1>3, <1>4, SimpleOutcome
<1> QED  BY <1>3, <1>5, EndTracked

-----------------------------------------------------------------------------
\* A sequence is one of any set that its elements are in.
LEMMA SeqOf ==
  ASSUME NEW M, NEW w \in Seq(M), NEW L, \A i \in 1..Len(w) : w[i] \in L
  PROVE  w \in Seq(L)
<1>1. w \in [1..Len(w) -> L] /\ Len(w) \in Nat
  OBVIOUS
<1> QED  BY <1>1, SeqDef

\* As long as the client is owed no "ready", what is on the wire to the server is of
\* the extended protocol.
LEMMA WireLine ==
  ASSUME NEW c, NEW s \in Statements, NEW d \in ClientOf, NEW w \in Seq(MessageOf),
         NEW r, NEW t, NEW v, Attached(c, s, d, w, r, t, v), "ready" \notin Range(d.owed)
  PROVE  w \in Seq(LineMessage)
<1>1. PICK p \in Seq(Item) : Exchange(c, p, s, d, w, r, t, v)
  BY DEF Attached
<1>2. p # <<>> => p[Len(p)].kind # "ready"
  BY <1>1, ExchangeOpen
<1>3. ~Querying(c, p, d, w, r, v)
  <2> SUFFICES ASSUME Querying(c, p, d, w, r, v)  PROVE FALSE
    OBVIOUS
  <2>1. Len(p) = 2 /\ p[2].kind = "ready"
    BY DEF Querying
  <2>2. Len(<<>>) = 0
    OBVIOUS
  <2>3. p # <<>>
    <3> SUFFICES ASSUME p = <<>>  PROVE FALSE
      OBVIOUS
    <3> QED  BY <2>1, <2>2
  <2> QED  BY <1>2, <2>1, <2>3
<1>4. \A i \in 1..Len(w) : w[i].kind \in Line
  <2>1. ASSUME Waiting(c, p, w)  PROVE \A i \in 1..Len(w) : w[i].kind \in Line
    BY <2>1 DEF Waiting, Asks
  <2>2. ASSUME Skipping(c, p, d, w, r, v)  PROVE \A i \in 1..Len(w) : w[i].kind \in Line
    BY <2>2 DEF Skipping
  <2> QED  BY <1>1, <1>3, <2>1, <2>2 DEF Exchange, Flowing, Failing
<1>5. \A i \in 1..Len(w) : w[i] \in MessageOf
  OBVIOUS
<1>6. \A i \in 1..Len(w) : w[i] \in LineMessage
  BY <1>4, <1>5 DEF LineMessage
<1> QED  BY <1>6, SeqOf

\* The server reads a message of a session.
LEMMA CoveredServed ==
  ASSUME SetQueries = {}, NEW w \in Seq(MessageOf), w # <<>>, NEW v \in Server, NEW vs,
         Covered(w, v, vs), NEW o \in Outcomes(v, Head(w))
  PROVE  Covered(Tail(w), o.srv, vs)
<1>0. Head(w) = w[1] /\ Head(w) \in MessageOf
  BY WireTail
<1>1. CASE w \in Seq(LineMessage) /\ Tracked(v, vs)
  <2>1. Head(w) \in LineMessage /\ Tail(w) \in Seq(LineMessage)
    BY <1>1
  <2>2. Tracked(o.srv, vs)
    BY <1>1, <2>1, LineTracked
  <2> QED  BY <2>1, <2>2 DEF Covered
<1>2. CASE Len(w) = 1 /\ Bracing(w[1], v, vs)
  <2>1. Tail(w) = <<>>
    BY <1>2, SingletonTail
  <2>2. <<>> \in Seq(LineMessage)
    OBVIOUS
  <2>3. Tracked(o.srv, vs)
    BY <1>0, <1>2, QueryTracked
  <2> QED  BY <2>1, <2>2, <2>3 DEF Covered
<1> QED  BY <1>1, <1>2 DEF Covered

\* The server reads the query of a reset.
LEMMA ClearedServed ==
  ASSUME NEW w \in Seq(MessageOf), w # <<>>, NEW r, NEW v \in Server,
         Cleaning(w, r, v), Cleared(w, v), NEW o \in Outcomes(v, Head(w))
  PROVE  Cleared(Tail(w), o.srv)
<1>1. /\ Len(w) = 1 /\ ~v.skip /\ w[1].kind \in {"clean", "rollback and clean"}
      /\ Tracked(v, w[1].arg) /\ (w[1].kind = "clean" => v.tx = "idle")
  BY DEF Cleaning, Cleared
<1>2. Head(w) = w[1] /\ w[1] \in MessageOf /\ Tail(w) = <<>>
  BY <1>1, WireTail, SingletonTail
<1>3. Tracked(o.srv, {})
  BY <1>1, <1>2, ResetTracked
<1> QED  BY <1>2, <1>3 DEF Cleared

\* A step on one connection.
LEMMA TidyKeeps ==
  ASSUME ExchangeInv, CleanInv, mode' = mode, NEW x \in Conns,
         NEW ph2, phase' = [phase EXCEPT ![x] = ph2],
         NEW w2, toServer' = [toServer EXCEPT ![x] = w2],
         NEW v2, srv' = [srv EXCEPT ![x] = v2],
         NEW vs2, dirty' = [dirty EXCEPT ![x] = vs2],
         Tidy(ph2, w2, v2, vs2)
  PROVE  CleanInv'
<1>1. /\ phase \in [Conns -> Phases] /\ toServer \in [Conns -> Seq(MessageOf)]
      /\ srv \in [Conns -> Server] /\ dirty \in [Conns -> SUBSET Vars]
  BY DEF ExchangeInv, LinksTyped, LeaseInv, Phases
<1>2. \A y \in Conns : LinkTidy(y)'
  <2> TAKE y \in Conns
  <2>1. CASE y = x
    <3>1. phase'[y] = ph2 /\ toServer'[y] = w2 /\ srv'[y] = v2 /\ dirty'[y] = vs2
      BY <1>1, <2>1
    <3> QED  BY <3>1 DEF LinkTidy
  <2>2. CASE y # x
    <3>1. phase'[y] = phase[y] /\ toServer'[y] = toServer[y] /\ srv'[y] = srv[y] /\ dirty'[y] = dirty[y]
      BY <1>1, <2>2
    <3>2. LinkTidy(y)
      BY DEF CleanInv
    <3> QED  BY <3>1, <3>2 DEF LinkTidy
  <2> QED  BY <2>1, <2>2
<1> QED  BY <1>2 DEF CleanInv

\* Nothing that is said of a setting has changed.
LEMMA TidySame ==
  ASSUME CleanInv, mode' = mode, UNCHANGED <<phase, toServer, srv, dirty>>
  PROVE  CleanInv'
<1>1. \A y \in Conns : LinkTidy(y)'
  <2> TAKE y \in Conns
  <2>1. LinkTidy(y)
    BY DEF CleanInv
  <2> QED  BY <2>1 DEF LinkTidy
<1> QED  BY <1>1 DEF CleanInv

\* What a connection that a session may use has on it.
LEMMA CarrierTidy ==
  ASSUME ExchangeInv, CleanInv, NEW c \in Sessions, NEW x, Reaches(c, x)
  PROVE  Covered(toServer[x], srv[x], dirty[x])
<1>1. x \in Conns /\ LinkTidy(x) /\ LinkRests(x)
  BY DEF CleanInv, ExchangeInv, Reaches
<1>2. CASE conn[c] = x
  <2>1. phase[x] = "lent"
    BY <1>1, <1>2, ProxyAssumption DEF ExchangeInv, LeaseInv, OneSession
  <2> QED  BY <1>1, <2>1 DEF LinkTidy, Tidy
<1>3. CASE conn[c] # x
  <2>1. phase[x] = "idle" /\ toServer[x] = <<>>
    BY <1>1, <1>3 DEF Reaches, LinkRests, Rests, Quiet
  <2>2. Tracked(srv[x], dirty[x])
    BY <1>1, <2>1 DEF LinkTidy, Tidy
  <2>3. <<>> \in Seq(LineMessage)
    OBVIOUS
  <2> QED  BY <2>1, <2>2, <2>3 DEF Covered
<1> QED  BY <1>2, <1>3

\* Messages of the extended protocol follow.
LEMMA SendTidy ==
  ASSUME ExchangeInv, CleanInv, mode' = mode, NEW c \in Sessions, NEW x, Reaches(c, x),
         NEW s2, NEW ms \in Seq(LineMessage), Send(c, x, s2, ms), dirty' = dirty,
         "ready" \notin Range(driver[c].owed)
  PROVE  CleanInv'
<1>1. /\ x \in Conns /\ srv[x] \in Server /\ toServer[x] \in Seq(MessageOf)
      /\ driver[c] \in ClientOf /\ StatementsOf(c, x) \in Statements
      /\ Attached(c, StatementsOf(c, x), driver[c], toServer[x], toProxy[x], lastTx[x], srv[x])
  BY CarrierFits
<1>2. toServer[x] \in Seq(LineMessage)
  BY <1>1, WireLine
<1>3. Tracked(srv[x], dirty[x])
  <2>1. ~(Len(toServer[x]) = 1 /\ Bracing(toServer[x][1], srv[x], dirty[x]))
    <3> SUFFICES ASSUME Len(toServer[x]) = 1, Bracing(toServer[x][1], srv[x], dirty[x])
                 PROVE  FALSE
      OBVIOUS
    <3>1. toServer[x][1] \in LineMessage
      BY <1>2
    <3> QED  BY <3>1 DEF LineMessage, Line, ExtendedKinds, Bracing, ClientKinds
  <2> QED  BY <2>1, CarrierTidy DEF Covered
<1> DEFINE w2 == toServer[x] \o ms
<1>4. w2 \in Seq(LineMessage)
  BY <1>2
<1>5. Tidy("lent", w2, srv[x], dirty[x])
  BY <1>3, <1>4 DEF Tidy, Covered
<1>6. /\ phase' = [phase EXCEPT ![x] = "lent"] /\ toServer' = [toServer EXCEPT ![x] = w2]
      /\ srv' = srv
  BY <1>1 DEF Send
<1>7. srv' = [srv EXCEPT ![x] = srv[x]] /\ dirty' = [dirty EXCEPT ![x] = dirty[x]]
  BY <1>1, <1>6 DEF ExchangeInv, LinksTyped
<1> HIDE DEF w2
<1> QED  BY <1>1, <1>5, <1>6, <1>7, TidyKeeps

\* The drivers that undo no RESET or DISCARD ALL, in transaction mode, with statements
\* that change no setting in the extended protocol.
Modest ==
  /\ Habits \subseteq {"unknown"} /\ SetQueries = {} /\ PoolModes \subseteq {"transaction"}

\* Nothing is asked that a rollback would undo behind the pooler's back.
LEMMA ModestAsks ==
  ASSUME Modest, NEW c, NEW kind
  PROVE  Tame /\ (MayQuery(c, kind) => ~Undoes(c, kind))
  BY DEF Modest, Tame, MayQuery

\* The messages of the extended protocol.
LEMMA LineSent ==
  ASSUME NEW c \in Sessions
  PROVE  /\ \A q \in Queries : /\ Message("parse", q, c) \in LineMessage
                               /\ Message("close", q, c) \in LineMessage
         /\ \A q \in Queries \cup {NoQuery} : Message("bind", q, c) \in LineMessage
         /\ \A k \in {"portal", "sync"} : Message(k, NoQuery, c) \in LineMessage
  BY DEF Message, LineMessage, MessageOf, Senders, Line, ExtendedKinds

\* The Close of an evicted statement and the Parse of a missing one are among them.
LEMMA PreparationLine ==
  ASSUME NEW c \in Sessions, NEW s \in Statements, NEW q \in Queries, NEW reply \in Disposition
  PROVE  Preparation(c, q, Prepare(s, q, reply)) \in Seq(LineMessage)
<1> DEFINE prep == Prepare(s, q, reply)
           parse == Message("parse", q, c)
           close == Message("close", prep.evicted, c)
<1>1. prep.evicted = NoQuery \/ prep.evicted \in Queries
  BY PrepareKept
<1> HIDE DEF prep
<1>2. parse \in LineMessage /\ (prep.evicted # NoQuery => close \in LineMessage)
  BY <1>1, LineSent
<1> HIDE DEF parse, close
<1>3. /\ (IF prep.evicted = NoQuery THEN <<>> ELSE <<close>>) \in Seq(LineMessage)
      /\ (IF prep.hit THEN <<>> ELSE <<parse>>) \in Seq(LineMessage)
  BY <1>2
<1>4. \A a \in Seq(LineMessage), b \in Seq(LineMessage) : a \o b \in Seq(LineMessage)
  OBVIOUS
<1>5. (IF prep.evicted = NoQuery THEN <<>> ELSE <<close>>) \o (IF prep.hit THEN <<>> ELSE <<parse>>)
         \in Seq(LineMessage)
  BY <1>3, <1>4
<1> QED  BY <1>5 DEF Preparation, prep, parse, close

\* One message, or the last of some.
LEMMA LineJoin ==
  ASSUME NEW u \in Seq(LineMessage), NEW m \in LineMessage
  PROVE  <<m>> \in Seq(LineMessage) /\ Append(u, m) \in Seq(LineMessage)
  OBVIOUS

\* What the extended protocol sends leaves no setting untracked.
LEMMA ExtendedTidy ==
  ASSUME Modest, StoreTypeOK, ExchangeInv, CleanInv, mode' = mode, NEW c \in Sessions,
         \/ \E s \in Names : (\E q \in Queries : Parse(c, s, q)) \/ Bind(c, s)
         \/ ClosePortal(c)
         \/ Sync(c)
  PROVE  CleanInv'
<1>1. \A kind : /\ MayAsk(c, kind) => "ready" \notin Range(driver[c].owed)
                /\ MayExtend(c, kind) => "ready" \notin Range(driver[c].owed)
  BY ModestAsks, TameAsks
<1>2. \A x \in Carriers(c) : Reaches(c, x) /\ StatementsOf(c, x) \in Statements
  BY CarriersReach, CarrierFits
<1>3. ASSUME NEW s \in Names, NEW q \in Queries, Parse(c, s, q)
      PROVE  CleanInv'
  <2>1. PICK x \in Carriers(c) :
          LET prep == Prepare(StatementsOf(c, x), q, "forward")
          IN  Send(c, x, prep.st, Preparation(c, q, prep))
    BY <1>3 DEF Parse
  <2>2. Preparation(c, q, Prepare(StatementsOf(c, x), q, "forward")) \in Seq(LineMessage)
    BY <1>2, PreparationLine DEF Disposition
  <2>3. dirty' = dirty /\ "ready" \notin Range(driver[c].owed)
    BY <1>1, <1>3 DEF Parse
  <2> QED  BY <1>2, <2>1, <2>2, <2>3, SendTidy
<1>4. ASSUME NEW s \in Names, Bind(c, s)
      PROVE  CleanInv'
  <2> DEFINE q == names[c][s]
  <2>1. PICK x \in Carriers(c) :
          LET held == StatementsOf(c, x)
              prep == Prepare(held, q, "suppress")
          IN  IF q = NoQuery
              THEN Send(c, x, held, <<Message("bind", q, c)>>)
              ELSE Send(c, x, prep.st, Append(Preparation(c, q, prep), Message("bind", q, c)))
    BY <1>4 DEF Bind
  <2>2. q \in Queries \cup {NoQuery}
    BY DEF StoreTypeOK
  <2>3. dirty' = dirty /\ "ready" \notin Range(driver[c].owed)
    BY <1>1, <1>4 DEF Bind
  <2> HIDE DEF q
  <2>4. Message("bind", q, c) \in LineMessage
    BY <2>2, LineSent
  <2>5. CASE q = NoQuery
    <3>1. <<>> \in Seq(LineMessage)
      OBVIOUS
    <3>2. <<Message("bind", q, c)>> \in Seq(LineMessage)
      BY <2>4, <3>1, LineJoin
    <3> QED  BY <1>2, <2>1, <2>3, <2>5, <3>2, SendTidy
  <2>6. CASE q # NoQuery
    <3>1. Preparation(c, q, Prepare(StatementsOf(c, x), q, "suppress")) \in Seq(LineMessage)
      BY <1>2, <2>2, <2>6, PreparationLine DEF Disposition
    <3>2. Append(Preparation(c, q, Prepare(StatementsOf(c, x), q, "suppress")), Message("bind", q, c))
            \in Seq(LineMessage)
      BY <2>4, <3>1, LineJoin
    <3> QED  BY <1>2, <2>1, <2>3, <2>6, <3>2, SendTidy
  <2> QED  BY <2>5, <2>6
<1>5. \A k \in {"portal", "sync"} : <<Message(k, NoQuery, c)>> \in Seq(LineMessage)
  <2> SUFFICES ASSUME NEW k \in {"portal", "sync"}
               PROVE  <<Message(k, NoQuery, c)>> \in Seq(LineMessage)
    OBVIOUS
  <2>1. Message(k, NoQuery, c) \in LineMessage /\ <<>> \in Seq(LineMessage)
    BY LineSent
  <2> QED  BY <2>1, LineJoin
<1>6. CASE ClosePortal(c)
  <2>1. PICK x \in Carriers(c) :
          Send(c, x, NotePortalClose(StatementsOf(c, x)), <<Message("portal", NoQuery, c)>>)
    BY <1>6 DEF ClosePortal
  <2>2. dirty' = dirty /\ "ready" \notin Range(driver[c].owed)
    BY <1>1, <1>6 DEF ClosePortal
  <2> QED  BY <1>2, <1>5, <2>1, <2>2, SendTidy
<1>7. CASE Sync(c)
  <2>1. PICK x \in Carriers(c) : Send(c, x, StatementsOf(c, x), <<Message("sync", NoQuery, c)>>)
    BY <1>7 DEF Sync
  <2>2. dirty' = dirty /\ "ready" \notin Range(driver[c].owed)
    BY <1>1, <1>7 DEF Sync, MaySync
  <2> QED  BY <1>2, <1>5, <2>1, <2>2, SendTidy
<1> QED  BY <1>3, <1>4, <1>6, <1>7

\* A simple query: SET is noted before the server has it, RESET and DISCARD ALL are
\* taken for done.
LEMMA SimpleTidy ==
  ASSUME Modest, ExchangeInv, CleanInv, mode' = mode, NEW c \in Sessions, NEW query \in Query,
         SimpleQuery(c, query)
  PROVE  CleanInv'
<1>1. PICK x \in Carriers(c) :
        /\ Send(c, x, StatementsAfter(StatementsOf(c, x), query),
                <<Message(query.kind, query.arg, c)>>)
        /\ dirty' = [dirty EXCEPT ![x] = DirtyAfter(x, query)]
  BY DEF SimpleQuery
<1> DEFINE m == Message(query.kind, query.arg, c)
           w == toServer[x]
           t == lastTx[x]
           v == srv[x]
           vs == dirty[x]
           vs2 == DirtyAfter(x, query)
<1>2. "ready" \notin Range(driver[c].owed) /\ driver[c].batch = "closed"
      /\ ~Undoes(c, query.kind)
  BY ModestAsks, TameAsks DEF SimpleQuery
<1>3. /\ Reaches(c, x) /\ x \in Conns /\ driver[c] \in ClientOf
      /\ StatementsOf(c, x) \in Statements
      /\ w \in Seq(MessageOf) /\ toProxy[x] \in Seq(ReplyOf) /\ v \in Server
      /\ Attached(c, StatementsOf(c, x), driver[c], w, toProxy[x], t, v)
  BY CarriersReach, CarrierFits
<1>4. query.kind \in ClientKinds
  BY QueryTyped
<1>5. w = <<>> /\ ~v.skip /\ t = v.tx
  <2> HIDE DEF w, t, v
  <2> QED  BY <1>2, <1>3, AttachedIdles
<1>6. Tracked(v, vs)
  <2>1. Covered(w, v, vs)
    BY <1>3, CarrierTidy
  <2>2. Len(<<>>) = 0
    OBVIOUS
  <2> QED  BY <1>5, <2>1, <2>2 DEF Covered
<1>7. v.tx # "idle" => /\ query.kind # "discard"
                       /\ query.kind = "reset" => v.saved = {}
  <2> SUFFICES ASSUME v.tx # "idle"
               PROVE  query.kind # "discard" /\ (query.kind = "reset" => v.saved = {})
    OBVIOUS
  <2>1. conn[c] = x /\ x # NoConn
    <3>1. phase[x] # "idle"
      BY <1>3 DEF ExchangeInv, LinkRests, Rests, Quiet
    <3> QED  BY <1>3, <3>1, ProxyAssumption DEF Reaches
  <2>2. InTransaction(c)
    BY <1>5, <2>1 DEF InTransaction
  <2> QED  BY <1>2, <2>1, <2>2 DEF Undoes
<1>8. /\ query.kind = "set" => vs2 = vs \cup query.arg
      /\ query.kind = "reset" => vs2 = vs \ query.arg
      /\ query.kind \notin {"set", "reset", "discard"} => vs2 = vs
  BY DEF CleanInv, DirtyAfter, Tracks
<1>9. m.kind = query.kind /\ m.arg = query.arg
  BY DEF Message
<1>10. phase' = [phase EXCEPT ![x] = "lent"] /\ srv' = srv
       /\ toServer' = [toServer EXCEPT ![x] = w \o <<m>>]
  BY <1>1, <1>3 DEF Send
<1>11. srv' = [srv EXCEPT ![x] = v]
  BY <1>3, <1>10 DEF ExchangeInv, LinksTyped
<1> HIDE DEF m, w, t, v, vs, vs2
<1>12. Bracing(m, v, vs2)
  <2>1. m.kind = "set" => m.arg \subseteq vs2
    BY <1>8, <1>9
  <2>2. m.kind = "reset" => Tracked(v, vs2 \cup m.arg) /\ (v.tx # "idle" => v.saved = {})
    BY <1>6, <1>7, <1>8, <1>9 DEF Tracked
  <2>3. m.kind = "discard" => v.tx = "idle"
    BY <1>7, <1>9
  <2>4. m.kind \notin {"reset", "discard"} => Tracked(v, vs2)
    BY <1>6, <1>8, <1>9 DEF Tracked
  <2> QED  BY <1>4, <1>5, <1>9, <2>1, <2>2, <2>3, <2>4 DEF Bracing
<1>13. PICK w2 : w2 = w \o <<m>>
  OBVIOUS
<1>14. Len(w2) = 1 /\ w2[1] = m
  BY <1>5, <1>13
<1>15. Tidy("lent", w2, v, vs2)
  BY <1>12, <1>14 DEF Tidy, Covered
<1>16. dirty' = [dirty EXCEPT ![x] = vs2]
  BY <1>1 DEF vs2
<1> QED  BY <1>3, <1>10, <1>11, <1>13, <1>15, <1>16, TidyKeeps

\* A server's answer.
LEMMA ServeTidy ==
  ASSUME Modest, ExchangeInv, CleanInv, mode' = mode, NEW x \in Conns, Serve(x)
  PROVE  CleanInv'
<1> DEFINE w == toServer[x]
           v == srv[x]
<1>1. PICK o \in Outcomes(v, Head(w)) : srv' = [srv EXCEPT ![x] = o.srv]
  BY DEF Serve
<1>2. /\ w # <<>> /\ phase[x] \in {"lent", "resetting"} /\ toServer' = [toServer EXCEPT ![x] = Tail(w)]
      /\ phase' = phase /\ dirty' = dirty
  BY DEF Serve, linkVars
<1>3. w \in Seq(MessageOf) /\ v \in Server
  BY LinkTypes
<1>4. phase' = [phase EXCEPT ![x] = phase[x]] /\ dirty' = [dirty EXCEPT ![x] = dirty[x]]
  BY <1>2 DEF ExchangeInv, LinksTyped, LeaseInv
<1>5. LinkTidy(x) /\ LinkRests(x)
  BY DEF CleanInv, ExchangeInv
<1>6. Tidy(phase[x], Tail(w), o.srv, dirty[x])
  <2>1. CASE phase[x] = "lent"
    <3>1. Covered(w, v, dirty[x])
      BY <1>5, <2>1 DEF LinkTidy, Tidy
    <3>2. SetQueries = {}
      BY DEF Modest
    <3> HIDE DEF w, v
    <3>3. Covered(Tail(w), o.srv, dirty[x])
      BY <1>2, <1>3, <3>1, <3>2, CoveredServed
    <3> QED  BY <2>1, <3>3 DEF Tidy
  <2>2. CASE phase[x] = "resetting"
    <3>1. Cleared(w, v) /\ dirty[x] = {} /\ Cleaning(w, toProxy[x], v)
      BY <1>5, <2>2 DEF LinkTidy, Tidy, LinkRests, Rests
    <3> HIDE DEF w, v
    <3>2. Cleared(Tail(w), o.srv)
      BY <1>2, <1>3, <3>1, ClearedServed
    <3> QED  BY <2>2, <3>1, <3>2 DEF Tidy
  <2> QED  BY <1>2, <2>1, <2>2
<1> HIDE DEF w, v
<1> QED  BY <1>1, <1>2, <1>4, <1>6, TidyKeeps

\* A connection on which nothing is under way goes into its reset, which is told of
\* every setting that has to go.
LEMMA CheckinTidy ==
  ASSUME ExchangeInv, CleanInv, mode' = mode, NEW x \in Conns, phase[x] = "lent",
         toServer[x] = <<>>, NEW seen, seen = srv[x].tx, Checkin(x, seen), srv' = srv
  PROVE  CleanInv'
<1> DEFINE k == IF seen = "idle" THEN "clean" ELSE "rollback and clean"
           m == Message(k, dirty[x], NoSession)
<1>1. /\ toServer' = [toServer EXCEPT ![x] = Append(toServer[x], m)]
      /\ phase' = [phase EXCEPT ![x] = "resetting"]
      /\ dirty' = [dirty EXCEPT ![x] = {}]
  BY DEF Checkin
<1>2. dirty[x] \in SUBSET Vars /\ toServer[x] \in Seq(MessageOf)
  BY LinkTypes
<1>3. k \in {"clean", "rollback and clean"} /\ (k = "clean" => srv[x].tx = "idle")
  OBVIOUS
<1> HIDE DEF k
<1>4. m \in MessageOf /\ m.kind = k /\ m.arg = dirty[x]
  BY <1>2, <1>3, CleanTyped DEF Message
<1> HIDE DEF m
<1>5. /\ Len(Append(toServer[x], m)) = 1 /\ Append(toServer[x], m)[1] = m
  BY <1>2, <1>4, FirstSent
<1>6. Tracked(srv[x], dirty[x])
  <2>1. Covered(toServer[x], srv[x], dirty[x])
    BY DEF CleanInv, LinkTidy, Tidy
  <2>2. Len(<<>>) = 0
    OBVIOUS
  <2> QED  BY <2>1, <2>2 DEF Covered
<1>7. Append(toServer[x], m) # <<>>
  <2>1. Len(<<>>) = 0
    OBVIOUS
  <2> QED  BY <1>5, <2>1
<1>8. Tidy("resetting", Append(toServer[x], m), srv[x], {})
  BY <1>3, <1>4, <1>5, <1>6, <1>7 DEF Tidy, Cleared
<1>9. srv' = [srv EXCEPT ![x] = srv[x]]
  BY DEF ExchangeInv, LinksTyped
<1> QED  BY <1>1, <1>8, <1>9, TidyKeeps

\* The proxy reads a reply.
LEMMA RelayTidy ==
  ASSUME ExchangeInv, CleanInv, mode' = mode, NEW c \in Sessions, Relay(c)
  PROVE  CleanInv'
<1> DEFINE x == conn[c]
           a == Head(toProxy[x])
<1>1. /\ x # NoConn /\ toProxy[x] # <<>> /\ srv' = srv
      /\ Releases(c, a) => Checkin(x, a.arg)
      /\ ~Releases(c, a) => UNCHANGED <<phase, toServer, dirty>>
  BY DEF Relay
<1>2. x \in Conns /\ phase[x] = "lent"
  BY <1>1 DEF ExchangeInv, LeaseInv, OneSession
<1>3. CASE Releases(c, a)
  <2>1. /\ st[x] \in Statements /\ driver[c] \in ClientOf /\ toServer[x] \in Seq(MessageOf)
        /\ toProxy[x] \in Seq(ReplyOf)
    BY <1>2 DEF ExchangeInv, LinksTyped
  <2>2. Attached(c, st[x], driver[c], toServer[x], toProxy[x], lastTx[x], srv[x])
    <3>1. SessionFits(c)
      BY DEF ExchangeInv
    <3> QED  BY <1>1, <3>1 DEF SessionFits
  <2>3. a.kind = "ready"
    BY <1>3 DEF Releases
  <2> HIDE DEF x
  <2>4. Spent(toServer[x], Tail(toProxy[x]), srv[x], a.arg)
    BY <1>1, <2>1, <2>2, <2>3, AttachedReads
  <2>5. toServer[x] = <<>> /\ a.arg = srv[x].tx
    BY <2>4 DEF Spent
  <2> QED  BY <1>1, <1>2, <1>3, <2>5, CheckinTidy
<1>4. CASE ~Releases(c, a)
  BY <1>1, <1>4, TidySame
<1> QED  BY <1>3, <1>4

\* A client that leaves.
LEMMA LeaveTidy ==
  ASSUME Modest, ExchangeInv, CleanInv, mode' = mode, NEW c \in Sessions, Leave(c)
  PROVE  CleanInv'
<1> DEFINE x == conn[c]
<1>1. driver[c].owed = <<>> /\ driver[c].batch = "closed"
  BY ModestAsks, TameAsks DEF Leave
<1>2. CASE x = NoConn
  <2>1. UNCHANGED <<phase, toServer, srv, dirty>>
    BY <1>2 DEF Leave, linkVars, wireVars
  <2> QED  BY <2>1, TidySame
<1>3. CASE x # NoConn
  <2>1. x \in Conns /\ phase[x] = "lent" /\ Checkin(x, lastTx[x]) /\ srv' = srv
    BY <1>3 DEF Leave, ExchangeInv, LeaseInv, OneSession
  <2>2. /\ st[x] \in Statements /\ driver[c] \in ClientOf /\ toServer[x] \in Seq(MessageOf)
        /\ toProxy[x] \in Seq(ReplyOf)
    BY <2>1 DEF ExchangeInv, LinksTyped
  <2>3. Attached(c, st[x], driver[c], toServer[x], toProxy[x], lastTx[x], srv[x])
    <3>1. SessionFits(c)
      BY DEF ExchangeInv
    <3> QED  BY <1>3, <3>1 DEF SessionFits
  <2>4. "ready" \notin Range(driver[c].owed)
    BY <1>1 DEF Range
  <2> HIDE DEF x
  <2>5. toServer[x] = <<>> /\ lastTx[x] = srv[x].tx
    BY <1>1, <2>2, <2>3, <2>4, AttachedIdles
  <2> QED  BY <2>1, <2>5, CheckinTidy
<1> QED  BY <1>2, <1>3

\* A connection that is discarded has no settings.
LEMMA DiscardTidy ==
  ASSUME ExchangeInv, CleanInv, mode' = mode, NEW x \in Conns, Discard(x)
  PROVE  CleanInv'
<1>1. /\ phase' = [phase EXCEPT ![x] = "closed"] /\ toServer' = [toServer EXCEPT ![x] = <<>>]
      /\ srv' = [srv EXCEPT ![x] = NewServer] /\ dirty' = [dirty EXCEPT ![x] = {}]
  BY DEF Discard
<1>2. PICK e : e = <<>>
  OBVIOUS
<1>3. Tidy("closed", e, NewServer, {})
  BY DEF Tidy, Tracked, NewServer
<1> QED  BY <1>1, <1>2, <1>3, TidyKeeps

\* A reset ends when its query has been answered.
LEMMA ResetReadsTidy ==
  ASSUME ExchangeInv, CleanInv, mode' = mode, NEW x \in Conns, ResetReads(x)
  PROVE  CleanInv'
<1> DEFINE ph2 == IF Head(toProxy[x]).kind = "ready" THEN "idle" ELSE "resetting"
<1>1. CASE Discard(x)
  BY <1>1, DiscardTidy
<1>2. CASE ~Discard(x)
  <2>1. /\ phase[x] = "resetting" /\ toProxy[x] # <<>>
        /\ phase' = [phase EXCEPT ![x] = IF Head(toProxy[x]).kind = "ready" THEN "idle" ELSE phase[x]]
        /\ UNCHANGED <<dirty, toServer, srv>>
    BY <1>2 DEF ResetReads
  <2>2. /\ Cleared(toServer[x], srv[x]) /\ dirty[x] = {} /\ Cleaning(toServer[x], toProxy[x], srv[x])
    BY <2>1 DEF CleanInv, LinkTidy, Tidy, ExchangeInv, LinkRests, Rests
  <2>3. toServer[x] = <<>>
    BY <2>1, <2>2 DEF Cleaning
  <2>4. Tidy(ph2, toServer[x], srv[x], dirty[x])
    BY <2>2, <2>3 DEF Tidy, Cleared
  <2>5. phase' = [phase EXCEPT ![x] = ph2]
    BY <2>1
  <2>6. /\ dirty' = [dirty EXCEPT ![x] = dirty[x]] /\ toServer' = [toServer EXCEPT ![x] = toServer[x]]
        /\ srv' = [srv EXCEPT ![x] = srv[x]]
    BY <2>1 DEF ExchangeInv, LinksTyped
  <2> HIDE DEF ph2
  <2> QED  BY <2>4, <2>5, <2>6, TidyKeeps
<1> QED  BY <1>1, <1>2

\* A connection that is opened has no settings either.
LEMMA OpenTidy ==
  ASSUME ExchangeInv, CleanInv, mode' = mode, NEW x \in Conns, Open(x)
  PROVE  CleanInv'
<1>1. /\ phase[x] = "closed" /\ phase' = [phase EXCEPT ![x] = "idle"]
      /\ UNCHANGED <<dirty, toServer, srv>>
  BY DEF Open, wireVars
<1>2. /\ dirty' = [dirty EXCEPT ![x] = dirty[x]] /\ toServer' = [toServer EXCEPT ![x] = toServer[x]]
      /\ srv' = [srv EXCEPT ![x] = srv[x]]
  BY <1>1 DEF ExchangeInv, LinksTyped
<1>3. LinkTidy(x)
  BY DEF CleanInv
<1>4. Tidy("idle", toServer[x], srv[x], dirty[x])
  BY <1>1, <1>3 DEF LinkTidy, Tidy
<1> QED  BY <1>1, <1>2, <1>4, TidyKeeps

\* No step leaves a setting that the pooler will not reset.
LEMMA CleanStep ==
  ASSUME Modest, StoreTypeOK, ExchangeInv, CleanInv, [Next]_vars
  PROVE  CleanInv'
<1>0. CASE UNCHANGED vars
  BY <1>0, TidySame DEF vars, linkVars, wireVars
<1>1. CASE Next
  <2>0. mode' = mode
    BY <1>1 DEF Next
  <2>1. ASSUME NEW c \in Sessions, Ask(c)  PROVE CleanInv'
    <3>1. ASSUME NEW s \in Names, CloseStatement(c, s)  PROVE CleanInv'
      BY <2>0, <3>1, TidySame DEF CloseStatement, linkVars, wireVars
    <3>2. CASE Deallocate(c)
      BY <2>0, <3>2, TidySame DEF Deallocate, linkVars, wireVars
    <3>3. ASSUME NEW query \in Query, SimpleQuery(c, query)  PROVE CleanInv'
      BY <2>0, <3>3, SimpleTidy
    <3>4. CASE \/ \E s \in Names : (\E q \in Queries : Parse(c, s, q)) \/ Bind(c, s)
               \/ ClosePortal(c)
               \/ Sync(c)
      BY <2>0, <3>4, ExtendedTidy
    <3> QED  BY <2>1, <3>1, <3>2, <3>3, <3>4 DEF Ask
  <2>2. ASSUME NEW c \in Sessions, Relay(c)  PROVE CleanInv'
    BY <2>0, <2>2, RelayTidy
  <2>3. ASSUME NEW c \in Sessions, Leave(c)  PROVE CleanInv'
    BY <2>0, <2>3, LeaveTidy
  <2>4. ASSUME NEW c \in Sessions, NEW x \in Conns, StartSession(c, x)  PROVE CleanInv'
    BY <2>4 DEF StartSession, CleanInv
  <2>5. ASSUME NEW x \in Conns, Serve(x)  PROVE CleanInv'
    BY <2>0, <2>5, ServeTidy
  <2>6. ASSUME NEW x \in Conns, ResetReads(x)  PROVE CleanInv'
    BY <2>0, <2>6, ResetReadsTidy
  <2>7. ASSUME NEW x \in Conns, Break(x)  PROVE CleanInv'
    BY <2>0, <2>7, DiscardTidy DEF Break
  <2>8. ASSUME NEW x \in Conns, Open(x)  PROVE CleanInv'
    BY <2>0, <2>8, OpenTidy
  <2> QED  BY <1>1, <2>1, <2>2, <2>3, <2>4, <2>5, <2>6, <2>7, <2>8 DEF Next
<1> QED  BY <1>0, <1>1

\* No setting of an earlier client is on a connection that waits to be lent.
THEOREM IdleCleanHolds == Modest => (Spec => []IdleIsClean)
<1> SUFFICES ASSUME Modest  PROVE Spec => []IdleIsClean
  OBVIOUS
<1>1. Init => CleanInv
  <2> SUFFICES ASSUME Init  PROVE CleanInv
    OBVIOUS
  <2>1. mode = "transaction"
    BY DEF Init, Modest
  <2>2. \A x \in Conns : LinkTidy(x)
    BY DEF Init, LinkTidy, Tidy, Tracked, NewServer
  <2> QED  BY <2>1, <2>2 DEF CleanInv
<1>2. CleanInv /\ ExchangeInv /\ StoreTypeOK /\ [Next]_vars => CleanInv'
  BY CleanStep
<1>3. Spec => []ExchangeInv
  BY ModestAsks, ExchangeHolds
<1>4. Spec => []StoreTypeOK
  BY StoreImplemented, StoreHolds, PTL DEF StoreInv
<1>5. CleanInv => IdleIsClean
  BY DEF CleanInv, LinkTidy, Tidy, Tracked, IdleIsClean
<1> QED  BY <1>1, <1>2, <1>3, <1>4, <1>5, PTL DEF Spec
=============================================================================
