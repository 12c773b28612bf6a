---------------------------- MODULE CacheProofs ----------------------------
(***************************************************************************)
(* Proofs about the statements of a connection: the cache of one that      *)
(* waits to be lent is what its server holds (CacheMatches), and no client *)
(* sees an error that the sharing of statements is the cause of            *)
(* (NoPoolerError).                                                        *)
(*                                                                         *)
(* While a connection is lent, its cache runs ahead of its server by what   *)
(* is on the wire.  The ledger says how far: the messages on the wire, read *)
(* one after the other, lead the server from what it holds to what the     *)
(* cache lists, none of them preparing what is there or naming what is not *)
(* (Leads).  The Parses that the pooler recalls tell which of the cached    *)
(* statements are still to come, and hence what an error takes back.        *)
(***************************************************************************)
EXTENDS ExchangeProofs

-----------------------------------------------------------------------------
(* What the messages on a wire make of the statements a server holds *)

\* What the server makes of the message m when all goes well: it holds the
\* statements of held before and of held2 after it, and of the Parses us that the
\* pooler recalls it has answered n before and n2 after it.
Finds(m, us, held, n, held2, n2) ==
  /\ m.kind = "parse" => /\ m.arg \notin held /\ held2 = held \cup {m.arg}
                         /\ n2 = n + 1 /\ n2 \in 1..Len(us) /\ us[n2].query = m.arg
  /\ m.kind = "close" => MaxPrepared > 0 /\ held2 = held \ {m.arg} /\ n2 = n
  /\ m.kind = "bind" => /\ m.arg \in held \/ (m.arg = NoQuery /\ MaxPrepared = 0)
                        /\ held2 = held /\ n2 = n
  /\ m.kind = "discard" => held2 = {} /\ n2 = n
  /\ m.kind \notin {"parse", "close", "bind", "discard"} => held2 = held /\ n2 = n

\* h and k say what is held and how many are answered before each message of w.
Steps(us, w, h, k) ==
  /\ h \in [0..Len(w) -> SUBSET Queries] /\ k \in [0..Len(w) -> Nat]
  /\ \A i \in 1..Len(w) : Finds(w[i], us, h[i-1], k[i-1], h[i], k[i])
  /\ \A i, j \in 0..Len(w) : i <= j => k[i] <= k[j]

\* The messages of w lead a server from one state to the other.
Leads(us, w, held, n, held2, n2) ==
  \E h, k : /\ Steps(us, w, h, k)
            /\ h[0] = held /\ k[0] = n /\ h[Len(w)] = held2 /\ k[Len(w)] = n2

Pending == [reply : Disposition, query : Queries]

\* No message leads nowhere else.
LEMMA LeadsNone ==
  ASSUME NEW us, NEW held \in SUBSET Queries, NEW n \in Nat
  PROVE  /\ Leads(us, <<>>, held, n, held, n)
         /\ \A held2, n2 : Leads(us, <<>>, held, n, held2, n2) => held2 = held /\ n2 = n
<1>1. Len(<<>>) = 0 /\ 0..0 = {0} /\ 1..0 = {}
  OBVIOUS
<1> DEFINE h == [i \in 0..0 |-> held]
           k == [i \in 0..0 |-> n]
<1>2. h \in [0..0 -> SUBSET Queries] /\ k \in [0..0 -> Nat] /\ h[0] = held /\ k[0] = n
  BY <1>1
<1> HIDE DEF h, k
<1>3. Steps(us, <<>>, h, k)
  BY <1>1, <1>2 DEF Steps
<1>4. Leads(us, <<>>, held, n, held, n)
  BY <1>1, <1>2, <1>3 DEF Leads
<1>5. ASSUME NEW held2, NEW n2, Leads(us, <<>>, held, n, held2, n2)  PROVE held2 = held /\ n2 = n
  BY <1>1, <1>5 DEF Leads
<1> QED  BY <1>4, <1>5

\* One more message, for which one more Parse may be recalled.
LEMMA LeadsAppend ==
  ASSUME NEW us \in Seq(Pending), NEW us2 \in Seq(Pending), Len(us) <= Len(us2),
         \A i \in 1..Len(us) : us2[i] = us[i],
         NEW w \in Seq(MessageOf), NEW m \in MessageOf,
         NEW held, NEW n, NEW held2, NEW n2, NEW held3 \in SUBSET Queries, NEW n3 \in Nat,
         Leads(us, w, held, n, held2, n2), Finds(m, us2, held2, n2, held3, n3)
  PROVE  Leads(us2, Append(w, m), held, n, held3, n3)
<1> DEFINE z == Len(w)
           w2 == Append(w, m)
<1>1. PICK h, k : /\ Steps(us, w, h, k)
                  /\ h[0] = held /\ k[0] = n /\ h[z] = held2 /\ k[z] = n2
  BY DEF Leads
<1>2. z \in Nat /\ Len(w2) = z + 1 /\ w2[z+1] = m /\ \A i \in 1..z : w2[i] = w[i]
  BY WireAppend
<1> DEFINE h2 == [i \in 0..(z+1) |-> IF i = z+1 THEN held3 ELSE h[i]]
           k2 == [i \in 0..(z+1) |-> IF i = z+1 THEN n3 ELSE k[i]]
<1> HIDE DEF z, w2
<1>3. \A i \in 0..z : i \in 0..(z+1) /\ h2[i] = h[i] /\ k2[i] = k[i]
  BY <1>2
<1>4. h2[z+1] = held3 /\ k2[z+1] = n3
  BY <1>2
<1>5. h2 \in [0..(z+1) -> SUBSET Queries] /\ k2 \in [0..(z+1) -> Nat]
  BY <1>1, <1>2 DEF Steps, z
<1> HIDE DEF h2, k2
<1>6. ASSUME NEW i \in 1..(z+1)
      PROVE  Finds(w2[i], us2, h2[i-1], k2[i-1], h2[i], k2[i])
  <2>1. CASE i = z + 1
    <3>1. i - 1 = z /\ z \in 0..z
      BY <2>1, <1>2
    <3>2. h2[i-1] = held2 /\ k2[i-1] = n2 /\ w2[i] = m
      BY <3>1, <2>1, <1>1, <1>2, <1>3
    <3> QED  BY <3>2, <2>1, <1>4
  <2>2. CASE i # z + 1
    <3>1. i \in 1..z /\ i \in 0..z /\ i - 1 \in 0..z
      BY <2>2, <1>2
    <3>2. Finds(w[i], us, h[i-1], k[i-1], h[i], k[i])
      BY <3>1, <1>1 DEF Steps, z
    <3>3. Finds(w[i], us2, h[i-1], k[i-1], h[i], k[i])
      <4>1. k[i] \in 1..Len(us) => k[i] \in 1..Len(us2) /\ us2[k[i]] = us[k[i]]
        OBVIOUS
      <4> QED  BY <3>2, <4>1 DEF Finds
    <3> QED  BY <3>1, <3>3, <1>2, <1>3
  <2> QED  BY <2>1, <2>2
<1>7. n2 \in Nat /\ n2 <= n3
  <2>1. z \in 0..z
    BY <1>2
  <2>2. n2 \in Nat
    BY <1>1, <2>1 DEF Steps, z
  <2> QED  BY <2>2 DEF Finds
<1>8. ASSUME NEW i \in 0..(z+1), NEW j \in 0..(z+1), i <= j  PROVE k2[i] <= k2[j]
  <2>1. \A e, g \in 0..z : k[e] \in Nat /\ (e <= g => k[e] <= k[g])
    BY <1>1 DEF Steps, z
  <2>2. CASE j # z + 1
    <3>1. i \in 0..z /\ j \in 0..z
      BY <2>2, <1>2, <1>8
    <3> QED  BY <3>1, <2>1, <1>3, <1>8
  <2>3. CASE i # z + 1 /\ j = z + 1
    <3>1. i \in 0..z /\ z \in 0..z /\ i <= z
      BY <2>3, <1>2
    <3>2. k2[i] <= n2 /\ k2[i] \in Nat /\ k2[j] = n3
      BY <3>1, <2>1, <2>3, <1>1, <1>3, <1>4
    <3> QED  BY <3>2, <1>7
  <2>4. CASE i = z + 1
    <3>1. j = i
      BY <2>4, <1>2, <1>8
    <3> QED  BY <3>1, <2>4, <1>4
  <2> QED  BY <2>2, <2>3, <2>4
<1>9. Steps(us2, w2, h2, k2)
  BY <1>2, <1>5, <1>6, <1>8 DEF Steps
<1>10. h2[0] = held /\ k2[0] = n /\ h2[Len(w2)] = held3 /\ k2[Len(w2)] = n3
  <2>1. 0 \in 0..z
    BY <1>2
  <2> QED  BY <2>1, <1>1, <1>2, <1>3, <1>4
<1>11. Leads(us2, w2, held, n, held3, n3)
  BY <1>9, <1>10 DEF Leads
<1> QED  BY <1>11 DEF w2

\* The server reads the first message.
LEMMA LeadsTail ==
  ASSUME NEW us, NEW w \in Seq(MessageOf), w # <<>>,
         NEW held, NEW n, NEW held2, NEW n2, Leads(us, w, held, n, held2, n2)
  PROVE  \E held1 \in SUBSET Queries, n1 \in Nat :
           /\ Finds(w[1], us, held, n, held1, n1)
           /\ Leads(us, Tail(w), held1, n1, held2, n2)
<1> DEFINE z == Len(w)
           w2 == Tail(w)
<1>1. PICK h, k : /\ Steps(us, w, h, k)
                  /\ h[0] = held /\ k[0] = n /\ h[z] = held2 /\ k[z] = n2
  BY DEF Leads
<1>2. z \in Nat \ {0} /\ Len(w2) = z - 1 /\ \A i \in 1..(z-1) : w2[i] = w[i+1] /\ i + 1 \in 1..z
  BY WireTail
<1> DEFINE h2 == [i \in 0..(z-1) |-> h[i+1]]
           k2 == [i \in 0..(z-1) |-> k[i+1]]
<1> HIDE DEF z, w2
<1>3. h \in [0..z -> SUBSET Queries] /\ k \in [0..z -> Nat]
      /\ \A i \in 1..z : Finds(w[i], us, h[i-1], k[i-1], h[i], k[i])
  BY <1>1 DEF Steps, z
<1>4. \A i \in 0..(z-1) : i + 1 \in 0..z /\ h2[i] = h[i+1] /\ k2[i] = k[i+1]
  BY <1>2
<1>5. h2 \in [0..(z-1) -> SUBSET Queries] /\ k2 \in [0..(z-1) -> Nat]
  BY <1>2, <1>3
<1> HIDE DEF h2, k2
<1>6. ASSUME NEW i \in 1..(z-1)  PROVE Finds(w2[i], us, h2[i-1], k2[i-1], h2[i], k2[i])
  <2>1. i + 1 \in 1..z /\ i \in 0..(z-1) /\ i - 1 \in 0..(z-1) /\ (i + 1) - 1 = i /\ (i - 1) + 1 = i
    BY <1>2
  <2>2. Finds(w[i+1], us, h[(i+1)-1], k[(i+1)-1], h[i+1], k[i+1])
    BY <2>1, <1>3
  <2>3. h2[i-1] = h[i] /\ k2[i-1] = k[i] /\ h2[i] = h[i+1] /\ k2[i] = k[i+1] /\ w2[i] = w[i+1]
    BY <2>1, <1>2, <1>4
  <2> QED  BY <2>1, <2>2, <2>3
<1>7. ASSUME NEW i \in 0..(z-1), NEW j \in 0..(z-1), i <= j  PROVE k2[i] <= k2[j]
  <2>1. i + 1 \in 0..z /\ j + 1 \in 0..z /\ i + 1 <= j + 1
    BY <1>2, <1>7
  <2>2. k[i+1] <= k[j+1]
    BY <2>1, <1>1 DEF Steps, z
  <2> QED  BY <2>2, <1>4
<1>8. Steps(us, w2, h2, k2)
  BY <1>2, <1>5, <1>6, <1>7 DEF Steps
<1>9. 0 \in 0..(z-1) /\ z - 1 \in 0..(z-1) /\ 1 \in 1..z /\ 1 \in 0..z
  BY <1>2
<1>10. Finds(w[1], us, held, n, h[1], k[1])
  <2>1. Finds(w[1], us, h[1-1], k[1-1], h[1], k[1])
    BY <1>3, <1>9
  <2> QED  BY <2>1, <1>1
<1>11. h2[0] = h[1] /\ k2[0] = k[1] /\ h2[Len(w2)] = held2 /\ k2[Len(w2)] = n2
  <2>1. h2[0] = h[0+1] /\ k2[0] = k[0+1]
    BY <1>4, <1>9
  <2>2. h2[z-1] = h[(z-1)+1] /\ k2[z-1] = k[(z-1)+1] /\ (z-1)+1 = z
    BY <1>2, <1>4, <1>9
  <2> QED  BY <2>1, <2>2, <1>1, <1>2
<1>12. Leads(us, w2, h[1], k[1], held2, n2)
  BY <1>8, <1>11 DEF Leads
<1>13. h[1] \in SUBSET Queries /\ k[1] \in Nat
  BY <1>3, <1>9
<1> QED  BY <1>10, <1>12, <1>13 DEF w2

\* The pooler reads a ParseComplete, and recalls one Parse fewer.
LEMMA LeadsShift ==
  ASSUME NEW us \in Seq(Pending), us # <<>>, NEW w \in Seq(MessageOf),
         NEW held, NEW n \in Nat \ {0}, NEW held2, NEW n2, Leads(us, w, held, n, held2, n2)
  PROVE  Leads(Tail(us), w, held, n - 1, held2, n2 - 1)
<1> DEFINE z == Len(w)
<1>1. PICK h, k : /\ Steps(us, w, h, k)
                  /\ h[0] = held /\ k[0] = n /\ h[z] = held2 /\ k[z] = n2
  BY DEF Leads
<1>2. z \in Nat
  OBVIOUS
<1> DEFINE k2 == [i \in 0..z |-> k[i] - 1]
<1> HIDE DEF z
<1>3. h \in [0..z -> SUBSET Queries] /\ k \in [0..z -> Nat]
      /\ (\A i \in 1..z : Finds(w[i], us, h[i-1], k[i-1], h[i], k[i]))
      /\ \A i, j \in 0..z : i <= j => k[i] <= k[j]
  BY <1>1 DEF Steps, z
<1>4. 0 \in 0..z /\ z \in 0..z
  BY <1>2
<1>5. \A i \in 0..z : k2[i] = k[i] - 1 /\ k[i] \in Nat /\ n <= k[i]
  <2>1. \A i \in 0..z : 0 <= i
    BY <1>2
  <2> QED  BY <2>1, <1>1, <1>3, <1>4
<1>6. k2 \in [0..z -> Nat]
  <2>1. \A i \in 0..z : k[i] - 1 \in Nat
    BY <1>5
  <2> QED  BY <2>1
<1> HIDE DEF k2
<1>7. \A i, j \in 0..z : i <= j => k2[i] <= k2[j]
  BY <1>3, <1>5
<1>8. Len(us) \in Nat \ {0} /\ Len(Tail(us)) = Len(us) - 1
      /\ \A i \in 1..(Len(us) - 1) : Tail(us)[i] = us[i+1]
  OBVIOUS
<1>9. ASSUME NEW i \in 1..z  PROVE Finds(w[i], Tail(us), h[i-1], k2[i-1], h[i], k2[i])
  <2>1. i - 1 \in 0..z /\ i \in 0..z
    BY <1>2
  <2>2. Finds(w[i], us, h[i-1], k[i-1], h[i], k[i])
    BY <1>3
  <2>3. /\ k2[i] = k[i] - 1 /\ k2[i-1] = k[i-1] - 1
        /\ k[i] \in Nat /\ k[i-1] \in Nat /\ 1 <= k[i-1]
    BY <2>1, <1>5
  <2>4. w[i].kind = "parse" =>
          /\ k2[i] = k2[i-1] + 1 /\ k2[i] \in 1..Len(Tail(us)) /\ Tail(us)[k2[i]].query = w[i].arg
    <3> SUFFICES ASSUME w[i].kind = "parse"
                 PROVE  /\ k2[i] = k2[i-1] + 1 /\ k2[i] \in 1..Len(Tail(us))
                        /\ Tail(us)[k2[i]].query = w[i].arg
      OBVIOUS
    <3>1. k[i] = k[i-1] + 1 /\ k[i] \in 1..Len(us) /\ us[k[i]].query = w[i].arg
      BY <2>2 DEF Finds
    <3>2. k2[i] = k2[i-1] + 1 /\ k2[i] \in 1..(Len(us) - 1) /\ k2[i] + 1 = k[i]
      BY <3>1, <2>3, <1>8
    <3> QED  BY <3>1, <3>2, <1>8
  <2> HIDE DEF Finds
  <2>5. k[i] = k[i-1] => k2[i] = k2[i-1]
    BY <2>3
  <2> QED  BY <2>2, <2>4, <2>5 DEF Finds
<1>10. Steps(Tail(us), w, h, k2)
  BY <1>3, <1>6, <1>7, <1>9 DEF Steps, z
<1>11. h[0] = held /\ k2[0] = n - 1 /\ h[Len(w)] = held2 /\ k2[Len(w)] = n2 - 1
  BY <1>1, <1>4, <1>5 DEF z
<1> QED  BY <1>10, <1>11 DEF Leads

-----------------------------------------------------------------------------
(* The cache of a connection lists every statement once *)

Distinct(u) == \A i, j \in 1..Len(u) : u[i] = u[j] => i = j

\* What a sequence lists once, it lists as often as there is of it.
LEMMA DistinctCounts ==
  ASSUME NEW S, NEW u \in Seq(S)
  PROVE  /\ IsFiniteSet(Range(u)) /\ Cardinality(Range(u)) \in Nat
         /\ Cardinality(Range(u)) <= Len(u)
         /\ Distinct(u) => Cardinality(Range(u)) = Len(u)
<1>1. Len(u) \in Nat /\ DOMAIN u = 1..Len(u)
  OBVIOUS
<1>2. IsFiniteSet(1..Len(u)) /\ Cardinality(1..Len(u)) = Len(u)
  <2>1. 1 \in Int /\ Len(u) \in Int
    BY <1>1
  <2>2. IsFiniteSet(1..Len(u)) /\ Cardinality(1..Len(u)) = IF 1 > Len(u) THEN 0 ELSE Len(u)-1+1
    BY <2>1, FS_Interval
  <2> QED  BY <2>2, <1>1
<1>3. u \in [1..Len(u) -> Range(u)] /\ \A y \in Range(u) : \E i \in 1..Len(u) : u[i] = y
  BY <1>1 DEF Range
<1>4. u \in Surjection(1..Len(u), Range(u))
  BY <1>3 DEF Surjection
<1>5. /\ IsFiniteSet(Range(u)) /\ Cardinality(Range(u)) <= Cardinality(1..Len(u))
      /\ Cardinality(Range(u)) = Cardinality(1..Len(u)) <=> u \in Injection(1..Len(u), Range(u))
  BY <1>2, <1>4, FS_Surjection
<1>6. Distinct(u) => u \in Injection(1..Len(u), Range(u))
  BY <1>3 DEF Distinct, Injection, IsInjective
<1> QED  BY <1>2, <1>5, <1>6, FS_CardinalityType

\* One more, that was not there.
LEMMA DistinctAppend ==
  ASSUME NEW u \in Seq(Queries), Distinct(u), NEW y \in Queries
  PROVE  /\ Append(u, y) \in Seq(Queries) /\ Range(Append(u, y)) = Range(u) \cup {y}
         /\ y \notin Range(u) => Distinct(Append(u, y))
<1> DEFINE u2 == Append(u, y)
           n == Len(u)
<1>1. /\ n \in Nat /\ Len(u2) = n + 1 /\ u2[n+1] = y /\ u2 \in Seq(Queries)
      /\ \A i \in 1..n : u2[i] = u[i]
  OBVIOUS
<1>2. DOMAIN u = 1..n /\ DOMAIN u2 = 1..(n+1)
  BY <1>1
<1>3. Range(u) = {u[i] : i \in 1..n} /\ Range(u2) = {u2[i] : i \in 1..(n+1)}
  <2> HIDE DEF u2, n
  <2> QED  BY <1>2 DEF Range
<1> HIDE DEF u2, n
<1>4. Range(u2) = Range(u) \cup {y}
  <2>1. \A i \in 1..(n+1) : i \in 1..n \/ i = n + 1
    BY <1>1
  <2>2. \A i \in 1..n : i \in 1..(n+1)
    BY <1>1
  <2>3. n + 1 \in 1..(n+1)
    BY <1>1
  <2>4. \A z \in Range(u2) : z \in Range(u) \cup {y}
    BY <1>1, <1>3, <2>1
  <2>5. \A z \in Range(u) : z \in Range(u2)
    BY <1>1, <1>3, <2>2
  <2>6. y \in Range(u2)
    BY <1>1, <1>3, <2>3
  <2> QED  BY <2>4, <2>5, <2>6
<1>5. ASSUME y \notin Range(u)  PROVE Distinct(u2)
  <2> SUFFICES ASSUME NEW i \in 1..(n+1), NEW j \in 1..(n+1), u2[i] = u2[j]  PROVE i = j
    BY <1>1 DEF Distinct
  <2>1. \A e \in 1..n : u[e] # y
    BY <1>3, <1>5
  <2>2. (i \in 1..n \/ i = n+1) /\ (j \in 1..n \/ j = n+1)
    BY <1>1
  <2>3. \A e, g \in 1..n : u[e] = u[g] => e = g
    BY DEF Distinct, n
  <2> QED  BY <1>1, <2>1, <2>2, <2>3
<1> QED  BY <1>1, <1>4, <1>5 DEF u2

\* The first goes.
LEMMA DistinctTail ==
  ASSUME NEW u \in Seq(Queries), Distinct(u), u # <<>>
  PROVE  /\ Tail(u) \in Seq(Queries) /\ Distinct(Tail(u)) /\ Len(Tail(u)) = Len(u) - 1
         /\ Head(u) \in Range(u) /\ Range(Tail(u)) = Range(u) \ {Head(u)}
<1> DEFINE u2 == Tail(u)
           n == Len(u)
<1>1. /\ n \in Nat \ {0} /\ Len(u2) = n - 1 /\ u2 \in Seq(Queries) /\ Head(u) = u[1]
      /\ \A i \in 1..(n-1) : u2[i] = u[i+1]
  OBVIOUS
<1>2. DOMAIN u = 1..n /\ DOMAIN u2 = 1..(n-1)
  BY <1>1
<1>3. Range(u) = {u[i] : i \in 1..n} /\ Range(u2) = {u2[i] : i \in 1..(n-1)}
  <2> HIDE DEF u2, n
  <2> QED  BY <1>2 DEF Range
<1>4. \A e, g \in 1..n : u[e] = u[g] => e = g
  BY DEF Distinct
<1> HIDE DEF u2, n
<1>5. \A i \in 1..(n-1) : i + 1 \in 1..n /\ i + 1 # 1
  BY <1>1
<1>6. 1 \in 1..n
  BY <1>1
<1>7. Distinct(u2)
  <2> SUFFICES ASSUME NEW i \in 1..(n-1), NEW j \in 1..(n-1), u2[i] = u2[j]  PROVE i = j
    BY <1>1 DEF Distinct
  <2>1. u[i+1] = u[j+1]
    BY <1>1
  <2>2. i + 1 = j + 1
    BY <2>1, <1>4, <1>5
  <2> QED  BY <2>2
<1>8. Range(u2) = Range(u) \ {u[1]}
  <2>1. ASSUME NEW z \in Range(u2)  PROVE z \in Range(u) \ {u[1]}
    <3>1. PICK i \in 1..(n-1) : z = u[i+1]
      BY <1>1, <1>3
    <3> QED  BY <3>1, <1>3, <1>4, <1>5, <1>6
  <2>2. ASSUME NEW z \in Range(u) \ {u[1]}  PROVE z \in Range(u2)
    <3>1. PICK i \in 1..n : z = u[i] /\ i # 1
      BY <1>3
    <3>2. i - 1 \in 1..(n-1) /\ (i - 1) + 1 = i
      BY <3>1, <1>1
    <3>3. u2[i-1] = z
      BY <3>1, <3>2, <1>1
    <3> QED  BY <3>2, <3>3, <1>3
  <2> QED  BY <2>1, <2>2
<1> QED  BY <1>1, <1>3, <1>6, <1>7, <1>8 DEF u2, n

\* What a retain leaves is listed once if it was.
LEMMA RetainDistinct ==
  ASSUME NEW S, NEW seq \in Seq(S), NEW places \in SUBSET (1..Len(seq)), Distinct(seq)
  PROVE  Distinct(Retain(seq, places))
<1> DEFINE Fits(e) == /\ Range(e) = places
                      /\ \A i, j \in DOMAIN e : i < j => e[i] < e[j]
           All == UNION {[1..n -> places] : n \in 0..Len(seq)}
           at == CHOOSE e \in All : Fits(e)
<1>1. Len(seq) \in Nat
  OBVIOUS
<1>2. PICK m \in 0..Len(seq) : \E e \in [1..m -> places] : Enum(e, places, m)
  BY <1>1, PlacesCounted
<1>3. PICK e \in [1..m -> places] : Enum(e, places, m)
  BY <1>2
<1>4. e \in All /\ Fits(e)
  <2>1. DOMAIN e = 1..m
    OBVIOUS
  <2>2. Range(e) = places
    BY <1>3, <2>1 DEF Enum, Range
  <2> QED  BY <1>3, <2>1, <2>2 DEF Enum
<1>5. at \in All /\ Fits(at)
  BY <1>4
<1>6. Retain(seq, places) = [i \in DOMAIN at |-> seq[at[i]]]
  BY DEF Retain
<1> HIDE DEF at
<1>7. PICK n \in 0..Len(seq) : at \in [1..n -> places]
  BY <1>5
<1>8. DOMAIN at = 1..n /\ n \in Nat /\ \A i \in 1..n : at[i] \in 1..Len(seq)
  <2>1. DOMAIN at = 1..n /\ n \in Nat /\ \A i \in 1..n : at[i] \in places
    BY <1>7
  <2>2. \A i \in places : i \in 1..Len(seq)
    OBVIOUS
  <2> QED  BY <2>1, <2>2
<1> DEFINE u == Retain(seq, places)
<1>9. Len(u) = n /\ \A i \in 1..n : u[i] = seq[at[i]]
  <2>1. u = [i \in 1..n |-> seq[at[i]]]
    BY <1>6, <1>8
  <2> QED  BY <2>1, <1>8
<1> HIDE DEF u
<1>10. \A i, j \in 1..n : at[i] = at[j] => i = j
  <2> SUFFICES ASSUME NEW i \in 1..n, NEW j \in 1..n, at[i] = at[j]  PROVE i = j
    OBVIOUS
  <2>1. (i < j => at[i] < at[j]) /\ (j < i => at[j] < at[i])
    BY <1>5, <1>8
  <2>2. at[i] \in Nat /\ at[j] \in Nat /\ i \in Nat /\ j \in Nat
    BY <1>8
  <2> QED  BY <2>1, <2>2
<1>11. Distinct(u)
  BY <1>8, <1>9, <1>10 DEF Distinct
<1> QED  BY <1>11 DEF u

\* A cache without one of its statements.
LEMMA WithoutDistinct ==
  ASSUME NEW S, NEW seq \in Seq(S), NEW queries, Distinct(seq)
  PROVE  /\ Distinct(Without(seq, queries)) /\ Len(Without(seq, queries)) <= Len(seq)
<1> DEFINE places == {i \in DOMAIN seq : seq[i] \notin queries}
           u == Without(seq, queries)
<1>1. places \in SUBSET (1..Len(seq))
  OBVIOUS
<1>2. u = Retain(seq, places)
  BY DEF Without
<1> HIDE DEF places
<1>3. Distinct(u)
  BY <1>1, <1>2, RetainDistinct
<1>4. u \in Seq(S) /\ Range(u) = Range(seq) \ queries
  BY WithoutKeeps
<1> HIDE DEF u
<1>5. /\ Len(u) = Cardinality(Range(u)) /\ Len(seq) = Cardinality(Range(seq))
      /\ IsFiniteSet(Range(seq))
  BY <1>3, <1>4, DistinctCounts
<1>6. Cardinality(Range(u)) <= Cardinality(Range(seq))
  BY <1>4, <1>5, FS_Subset
<1> QED  BY <1>3, <1>5, <1>6 DEF u

\* A cache lists every statement once, and no more than it may hold.
Neat(cache) == Distinct(cache) /\ (MaxPrepared > 0 => Len(cache) <= MaxPrepared)

\* What is done to a cache leaves it neat.
LEMMA TouchNeat ==
  ASSUME NEW s \in Statements, Neat(s.cache), NEW q \in Cached(s)
  PROVE  Neat(Touch(s, q).cache) /\ Cached(Touch(s, q)) = Cached(s)
<1> DEFINE u == Without(s.cache, {q})
<1>1. s.cache \in Seq(Queries) /\ Distinct(s.cache) /\ Cached(s) = Range(s.cache)
  BY DEF Statements, Neat, Cached
<1>2. q \in Queries
  <2>1. \A i \in DOMAIN s.cache : s.cache[i] \in Queries
    BY <1>1
  <2> QED  BY <1>1, <2>1 DEF Range
<1>3. u \in Seq(Queries) /\ Range(u) = Range(s.cache) \ {q} /\ Distinct(u)
  BY <1>1, WithoutKeeps, WithoutDistinct
<1>4. Touch(s, q).cache = Append(u, q)
  BY DEF Touch, Statements
<1> HIDE DEF u
<1>5. /\ Append(u, q) \in Seq(Queries) /\ Distinct(Append(u, q))
      /\ Range(Append(u, q)) = Range(s.cache)
  <2>1. q \notin Range(u) /\ Range(u) \cup {q} = Range(s.cache)
    BY <1>1, <1>2, <1>3
  <2>2. /\ Append(u, q) \in Seq(Queries) /\ Range(Append(u, q)) = Range(u) \cup {q}
        /\ q \notin Range(u) => Distinct(Append(u, q))
    BY <1>2, <1>3, DistinctAppend
  <2> QED  BY <2>1, <2>2
<1>6. Len(Append(u, q)) = Len(s.cache)
  BY <1>1, <1>5, DistinctCounts
<1> QED  BY <1>1, <1>4, <1>5, <1>6 DEF Neat, Cached

\* A Parse that is not in the cache, and the statement that makes room for it.
LEMMA PrepareNeat ==
  ASSUME NEW s \in Statements, Neat(s.cache), NEW q \in Queries, NEW reply \in Disposition
  PROVE  LET prep == Prepare(s, q, reply)
         IN  /\ Neat(prep.st.cache)
             /\ prep.hit => Cached(prep.st) = Cached(s) /\ q \in Cached(s)
             /\ ~prep.hit => /\ q \notin Cached(s)
                             /\ prep.evicted = NoQuery => Cached(prep.st) = Cached(s) \cup {q}
                             /\ prep.evicted # NoQuery =>
                                  /\ MaxPrepared > 0
                                  /\ Cached(prep.st) = (Cached(s) \ {prep.evicted}) \cup {q}
<1> DEFINE prep == Prepare(s, q, reply)
           u == s.cache
<1>1. u \in Seq(Queries) /\ Distinct(u) /\ Cached(s) = Range(u)
      /\ (MaxPrepared > 0 => Len(u) <= MaxPrepared) /\ Len(u) \in Nat /\ MaxPrepared \in Nat
  BY MaxPreparedAssumption DEF Statements, Neat, Cached
<1>2. CASE q \in Cached(s)
  <2>1. prep = [st |-> Touch(s, q), hit |-> TRUE, evicted |-> NoQuery]
    BY <1>2 DEF Prepare
  <2>2. Neat(Touch(s, q).cache) /\ Cached(Touch(s, q)) = Cached(s)
    BY <1>2, TouchNeat
  <2> QED  BY <1>2, <2>1, <2>2
<1>3. CASE q \notin Cached(s)
  <2>1. prep = [st |-> RecordPrepare(s, q, reply), hit |-> FALSE, evicted |-> Evicted(s)]
    BY <1>3 DEF Prepare
  <2>2. CASE Full(s)
    <3>1. u # <<>> /\ MaxPrepared > 0
      BY <1>1, <2>2, EmptySeq DEF Full
    <3>2. /\ Tail(u) \in Seq(Queries) /\ Distinct(Tail(u)) /\ Len(Tail(u)) = Len(u) - 1
          /\ Head(u) \in Range(u) /\ Range(Tail(u)) = Range(u) \ {Head(u)}
      BY <1>1, <3>1, DistinctTail
    <3>3. Evicted(s) = Head(u) /\ RecordPrepare(s, q, reply).cache = Append(Tail(u), q)
      BY <2>2 DEF Evicted, RecordPrepare
    <3>4. q \notin Range(Tail(u))
      BY <1>1, <1>3, <3>2
    <3>5. /\ Append(Tail(u), q) \in Seq(Queries) /\ Distinct(Append(Tail(u), q))
          /\ Range(Append(Tail(u), q)) = Range(Tail(u)) \cup {q}
      <4>1. PICK z \in Seq(Queries) : z = Tail(u) /\ Distinct(z)
        BY <3>2
      <4>2. /\ Append(z, q) \in Seq(Queries) /\ Range(Append(z, q)) = Range(z) \cup {q}
            /\ q \notin Range(z) => Distinct(Append(z, q))
        BY <4>1, DistinctAppend
      <4> QED  BY <3>4, <4>1, <4>2
    <3>6. Len(Append(Tail(u), q)) = Len(u)
      BY <1>1, <3>2
    <3>7. Head(u) # NoQuery
      <4>1. Head(u) \in Queries
        BY <1>1, <3>1
      <4> QED  BY <4>1, StatementNamesAssumption
    <3>8. Neat(Append(Tail(u), q))
      BY <1>1, <3>5, <3>6 DEF Neat
    <3>9. Cached(RecordPrepare(s, q, reply)) = (Cached(s) \ {Head(u)}) \cup {q}
      BY <1>1, <3>2, <3>3, <3>5 DEF Cached
    <3>10. prep.hit = FALSE /\ prep.evicted = Head(u) /\ prep.st = RecordPrepare(s, q, reply)
      BY <2>1, <3>3
    <3> HIDE DEF prep, u
    <3> QED  BY <1>3, <3>1, <3>3, <3>7, <3>8, <3>9, <3>10 DEF prep
  <2>3. CASE ~Full(s)
    <3>1. Evicted(s) = NoQuery /\ RecordPrepare(s, q, reply).cache = Append(u, q)
      BY <2>3 DEF Evicted, RecordPrepare
    <3>2. /\ Append(u, q) \in Seq(Queries) /\ Distinct(Append(u, q))
          /\ Range(Append(u, q)) = Range(u) \cup {q}
      BY <1>1, <1>3, DistinctAppend
    <3>3. Len(Append(u, q)) = Len(u) + 1
      BY <1>1
    <3>4. MaxPrepared > 0 => Len(u) + 1 <= MaxPrepared
      BY <1>1, <2>3 DEF Full
    <3>5. Neat(Append(u, q))
      BY <3>2, <3>3, <3>4 DEF Neat
    <3>6. Cached(RecordPrepare(s, q, reply)) = Cached(s) \cup {q}
      BY <1>1, <3>1, <3>2 DEF Cached
    <3>7. prep.hit = FALSE /\ prep.evicted = NoQuery /\ prep.st = RecordPrepare(s, q, reply)
      BY <2>1, <3>1
    <3> HIDE DEF prep, u
    <3> QED  BY <1>3, <3>1, <3>5, <3>6, <3>7 DEF prep
  <2> QED  BY <2>2, <2>3
<1> QED  BY <1>2, <1>3

\* What the Parses us are about.
Asked(us) == {us[i].query : i \in 1..Len(us)}

\* Every Parse that is still unanswered leaves the cache.
LEMMA RollBackNeat ==
  ASSUME NEW s \in Statements, Neat(s.cache)
  PROVE  /\ Neat(RollBackAfterError(s).cache) /\ RollBackAfterError(s).parses = <<>>
         /\ Cached(RollBackAfterError(s)) = Cached(s) \ Asked(s.parses)
<1> DEFINE gone == {p.query : p \in Range(s.parses)}
           u == Without(s.cache, gone)
<1>1. s.cache \in Seq(Queries) /\ s.parses \in Seq(Pending) /\ Distinct(s.cache)
  BY DEF Statements, Pending, Neat
<1>2. gone = Asked(s.parses)
  <2>1. DOMAIN s.parses = 1..Len(s.parses)
    BY <1>1
  <2> QED  BY <2>1 DEF Range, Asked
<1>3. RollBackAfterError(s) = [cache |-> u, parses |-> <<>>, closes |-> <<>>]
  BY DEF RollBackAfterError
<1> HIDE DEF gone
<1>4. /\ u \in Seq(Queries) /\ Range(u) = Range(s.cache) \ gone
      /\ Distinct(u) /\ Len(u) <= Len(s.cache)
  BY <1>1, WithoutKeeps, WithoutDistinct
<1>5. Len(u) \in Nat /\ Len(s.cache) \in Nat /\ MaxPrepared \in Nat
  BY <1>1, <1>4, MaxPreparedAssumption
<1> HIDE DEF u
<1>6. Neat(u)
  BY <1>4, <1>5 DEF Neat
<1> QED  BY <1>2, <1>3, <1>4, <1>6 DEF Cached

-----------------------------------------------------------------------------
(* The ledger of a lent connection: what the pooler believes of the        *)
(* statements its server holds, against what it will hold                  *)

Failed(r, v) == v.skip \/ \E i \in 1..Len(r) : r[i].kind = "error"

\* There are g answers to a Parse on the wire.
Acked(r, g) == \E u \in Seq(Kinds) : Len(u) = g /\ Lists(u, At(r, "parsed"), KindOf(r))

Calm(w) == \A i \in 1..Len(w) : w[i].kind # "discard"

\* When nothing is evicted, every statement of the cache has been prepared or is a
\* Parse that the pooler recalls, and of those the first g have been answered.
Kept(s, w, v, g) ==
  /\ \A i \in 1..Len(s.parses) : s.parses[i].query \in v.stmts <=> i <= g
  /\ \A i, j \in 1..Len(s.parses) : s.parses[i].query = s.parses[j].query => i = j
  /\ Calm(w) => Cached(s) = v.stmts \cup Asked(s.parses)

\* Unless a message has failed, those on the wire lead the server to the cache.
Account(s, w, r, v, g) ==
  /\ Acked(r, g)
  /\ Failed(r, v) \/ Leads(s.parses, w, v.stmts, g, Cached(s), Len(s.parses))
  /\ MaxPrepared = 0 => Kept(s, w, v, g)

Ledger(s, w, r, v) ==
  /\ \E g \in 0..Len(s.parses) : Account(s, w, r, v, g)
  /\ Failed(r, v) => MaxPrepared = 0
  /\ ~Calm(w) => Len(w) = 1 /\ s.parses = <<>> /\ v.tx = "idle"
  /\ \A i \in 1..Len(r) : r[i].arg # "pooler"

\* The parts of the pooler's record and of a server.
LEMMA RecordParts ==
  ASSUME NEW s \in Statements
  PROVE  /\ s.parses \in Seq(Pending) /\ s.cache \in Seq(Queries) /\ Len(s.parses) \in Nat
         /\ Cached(s) \in SUBSET Queries
<1>1. s.parses \in Seq(Pending) /\ s.cache \in Seq(Queries)
  BY DEF Statements, Pending
<1>2. \A i \in DOMAIN s.cache : s.cache[i] \in Queries
  BY <1>1
<1> QED  BY <1>1, <1>2 DEF Cached, Range

\* Nothing is answered on an empty wire.
LEMMA AckedNone ==
  /\ Acked(<<>>, 0)
  /\ \A r, g : At(r, "parsed") = {} => (Acked(r, g) <=> g = 0)
<1>1. \A r : At(r, "parsed") = {} => Acked(r, 0)
  <2> SUFFICES ASSUME NEW r, At(r, "parsed") = {}  PROVE Acked(r, 0)
    OBVIOUS
  <2>1. Lists(<<>>, {}, KindOf(r)) /\ <<>> \in Seq(Kinds) /\ Len(<<>>) = 0
    BY ListsEmpty
  <2> QED  BY <2>1 DEF Acked
<1>2. ASSUME NEW r, NEW g, At(r, "parsed") = {}, Acked(r, g)  PROVE g = 0
  <2>1. PICK u \in Seq(Kinds) : Len(u) = g /\ Lists(u, {}, KindOf(r))
    BY <1>2 DEF Acked
  <2>2. u = <<>>
    BY <2>1, ListsNone
  <2> QED  BY <2>1, <2>2
<1>3. At(<<>>, "parsed") = {}
  BY DEF At
<1> QED  BY <1>1, <1>2, <1>3

\* A connection on which nothing is under way, and whose cache is right.
LEMMA LedgerQuiet ==
  ASSUME NEW s \in Statements, NEW v \in Server,
         s.parses = <<>>, Cached(s) = v.stmts, ~v.skip
  PROVE  Ledger(s, <<>>, <<>>, v)
<1>1. Len(<<>>) = 0 /\ 1..0 = {} /\ 0 \in 0..0
  OBVIOUS
<1>2. v.stmts \in SUBSET Queries
  BY DEF Server
<1>3. Leads(s.parses, <<>>, v.stmts, 0, Cached(s), 0)
  BY <1>2, LeadsNone
<1>4. Calm(<<>>) /\ Asked(<<>>) = {}
  BY <1>1 DEF Calm, Asked
<1>5. Kept(s, <<>>, v, 0)
  BY <1>1, <1>4 DEF Kept
<1>6. Account(s, <<>>, <<>>, v, 0)
  BY <1>1, <1>3, <1>5, AckedNone DEF Account
<1>7. ~Failed(<<>>, v)
  BY <1>1 DEF Failed
<1> QED  BY <1>1, <1>4, <1>6, <1>7 DEF Ledger

\* A statement is closed to make room for another.
LEMMA LedgerEvicts ==
  ASSUME NEW s \in Statements, NEW s2 \in Statements, NEW w \in Seq(MessageOf), NEW r,
         NEW v \in Server, Ledger(s, w, r, v), Calm(w), MaxPrepared > 0,
         NEW m \in MessageOf, m.kind = "close",
         s2.parses = s.parses, Cached(s2) = Cached(s) \ {m.arg}
  PROVE  Append(w, m) \in Seq(MessageOf) /\ Calm(Append(w, m)) /\ Ledger(s2, Append(w, m), r, v)
<1>1. PICK g \in 0..Len(s.parses) : Account(s, w, r, v, g)
  BY DEF Ledger
<1>2. MaxPrepared # 0 /\ ~Failed(r, v)
  BY DEF Ledger
<1>3. s.parses \in Seq(Pending) /\ Len(s.parses) \in Nat /\ Cached(s2) \in SUBSET Queries
  BY RecordParts
<1>4. Leads(s.parses, w, v.stmts, g, Cached(s), Len(s.parses))
  BY <1>1, <1>2 DEF Account
<1>5. Finds(m, s.parses, Cached(s), Len(s.parses), Cached(s2), Len(s.parses))
  BY DEF Finds
<1>6. Leads(s2.parses, Append(w, m), v.stmts, g, Cached(s2), Len(s2.parses))
  BY <1>3, <1>4, <1>5, LeadsAppend
<1>7. Account(s2, Append(w, m), r, v, g)
  BY <1>1, <1>2, <1>6 DEF Account
<1>8. Calm(Append(w, m)) /\ Append(w, m) \in Seq(MessageOf)
  BY WireAppend DEF Calm
<1>9. \A i \in 1..Len(r) : r[i].arg # "pooler"
  BY DEF Ledger
<1> QED  BY <1>2, <1>7, <1>8, <1>9 DEF Ledger

\* A statement that the cache lacks is prepared.
LEMMA LedgerPrepares ==
  ASSUME NEW s \in Statements, NEW s2 \in Statements, NEW w \in Seq(MessageOf), NEW r,
         NEW v \in Server, Ledger(s, w, r, v), Calm(w),
         NEW m \in MessageOf, m.kind = "parse", m.arg \notin Cached(s), NEW reply \in Disposition,
         s2.parses = Append(s.parses, [reply |-> reply, query |-> m.arg]),
         Cached(s2) = Cached(s) \cup {m.arg}
  PROVE  Append(w, m) \in Seq(MessageOf) /\ Calm(Append(w, m)) /\ Ledger(s2, Append(w, m), r, v)
<1> DEFINE us == s.parses
           us2 == s2.parses
           n == Len(us)
<1>1. PICK g \in 0..n : Account(s, w, r, v, g)
  BY DEF Ledger
<1>2. us \in Seq(Pending) /\ us2 \in Seq(Pending) /\ n \in Nat /\ Cached(s2) \in SUBSET Queries
  BY RecordParts
<1>3. us2 = Append(us, [reply |-> reply, query |-> m.arg])
  OBVIOUS
<1> HIDE DEF us2
<1>4. Len(us2) = n + 1 /\ us2[n+1].query = m.arg /\ \A i \in 1..n : us2[i] = us[i]
  <2>1. m.arg \in Queries
    BY DEF MessageOf, ClientKinds
  <2>2. [reply |-> reply, query |-> m.arg] \in Pending
    BY <2>1 DEF Pending
  <2> QED  BY <1>2, <1>3, <2>2
<1> HIDE DEF us, n
<1>5. Calm(Append(w, m)) /\ Append(w, m) \in Seq(MessageOf)
  BY WireAppend DEF Calm
<1>6. Failed(r, v) \/ Leads(us2, Append(w, m), v.stmts, g, Cached(s2), Len(us2))
  <2> SUFFICES ASSUME ~Failed(r, v)
               PROVE  Leads(us2, Append(w, m), v.stmts, g, Cached(s2), Len(us2))
    OBVIOUS
  <2>1. Leads(us, w, v.stmts, g, Cached(s), n)
    BY <1>1 DEF Account, us, n
  <2>2. n + 1 \in 1..Len(us2)
    BY <1>2, <1>4
  <2>3. Finds(m, us2, Cached(s), n, Cached(s2), n + 1)
    BY <1>4, <2>2 DEF Finds
  <2>4. Len(us) = n /\ n <= n + 1 /\ n + 1 \in Nat
    BY <1>2 DEF n
  <2> QED  BY <1>2, <1>4, <2>1, <2>3, <2>4, LeadsAppend
<1>7. ASSUME MaxPrepared = 0  PROVE Kept(s2, Append(w, m), v, g)
  <2>1. /\ \A i \in 1..n : us[i].query \in v.stmts <=> i <= g
        /\ \A i, j \in 1..n : us[i].query = us[j].query => i = j
        /\ Cached(s) = v.stmts \cup Asked(us)
    BY <1>1, <1>7 DEF Account, Kept, us, n
  <2>2. Asked(us) = {us[i].query : i \in 1..n} /\ Asked(us2) = {us2[i].query : i \in 1..(n+1)}
    BY <1>4 DEF Asked, n
  <2>3. \A i \in 1..(n+1) : i \in 1..n \/ i = n + 1
    BY <1>2
  <2>4. \A i \in 1..n : i \in 1..(n+1)
    BY <1>2
  <2>5. m.arg \notin v.stmts /\ \A i \in 1..n : us[i].query # m.arg
    BY <2>1, <2>2
  <2>6. ~(n + 1 <= g) /\ n + 1 \in 1..(n+1)
    BY <1>1, <1>2
  <2>7. \A i \in 1..(n+1) : us2[i].query \in v.stmts <=> i <= g
    BY <1>4, <2>1, <2>3, <2>5, <2>6
  <2>8. \A i, j \in 1..(n+1) : us2[i].query = us2[j].query => i = j
    BY <1>4, <2>1, <2>3, <2>5
  <2>9. Asked(us2) = Asked(us) \cup {m.arg}
    <3>1. \A y \in Asked(us2) : y \in Asked(us) \cup {m.arg}
      BY <1>4, <2>2, <2>3
    <3>2. \A y \in Asked(us) : y \in Asked(us2)
      BY <1>4, <2>2, <2>4
    <3>3. m.arg \in Asked(us2)
      BY <1>4, <2>2, <2>6
    <3> QED  BY <3>1, <3>2, <3>3
  <2> QED  BY <1>4, <2>1, <2>7, <2>8, <2>9 DEF Kept, us2
<1>8. Acked(r, g)
  BY <1>1 DEF Account
<1>9. g \in 0..Len(us2)
  BY <1>1, <1>2, <1>4
<1>10. Account(s2, Append(w, m), r, v, g)
  BY <1>6, <1>7, <1>8 DEF Account, us2
<1> QED  BY <1>5, <1>9, <1>10 DEF Ledger, us2

\* Any other message of a batch follows.
LEMMA LedgerSends ==
  ASSUME NEW s \in Statements, NEW s2 \in Statements, NEW w \in Seq(MessageOf), NEW r,
         NEW v \in Server, Ledger(s, w, r, v), Calm(w),
         NEW m \in MessageOf, m.kind \in {"bind", "portal", "sync"},
         m.kind = "bind" => m.arg \in Cached(s) \/ (m.arg = NoQuery /\ MaxPrepared = 0),
         s2.parses = s.parses, s2.cache = s.cache
  PROVE  Append(w, m) \in Seq(MessageOf) /\ Ledger(s2, Append(w, m), r, v)
<1>1. PICK g \in 0..Len(s.parses) : Account(s, w, r, v, g)
  BY DEF Ledger
<1>2. s.parses \in Seq(Pending) /\ Len(s.parses) \in Nat /\ Cached(s) \in SUBSET Queries
  BY RecordParts
<1>3. Cached(s2) = Cached(s)
  BY DEF Cached
<1>4. Finds(m, s.parses, Cached(s), Len(s.parses), Cached(s), Len(s.parses))
  BY DEF Finds
<1>5. ~Failed(r, v) => Leads(s2.parses, Append(w, m), v.stmts, g, Cached(s2), Len(s2.parses))
  <2> SUFFICES ASSUME ~Failed(r, v)
               PROVE  Leads(s.parses, Append(w, m), v.stmts, g, Cached(s), Len(s.parses))
    BY <1>3
  <2>1. Leads(s.parses, w, v.stmts, g, Cached(s), Len(s.parses))
    BY <1>1 DEF Account
  <2> QED  BY <1>2, <1>4, <2>1, LeadsAppend
<1>6. Calm(Append(w, m)) /\ Append(w, m) \in Seq(MessageOf)
  BY WireAppend DEF Calm
<1>7. MaxPrepared = 0 => Kept(s2, Append(w, m), v, g)
  BY <1>1, <1>3 DEF Account, Kept
<1>8. Account(s2, Append(w, m), r, v, g)
  BY <1>1, <1>5, <1>7 DEF Account
<1> QED  BY <1>6, <1>8 DEF Ledger

\* A statement is used: it stays, or is prepared in the room that is made for it.
LEMMA LedgerHas ==
  ASSUME NEW c \in Sessions, NEW s \in Statements, NEW w \in Seq(MessageOf), NEW r,
         NEW v \in Server, Ledger(s, w, r, v), Calm(w), Neat(s.cache),
         NEW q \in Queries, NEW reply \in Disposition,
         NEW w2, w2 = w \o Preparation(c, q, Prepare(s, q, reply))
  PROVE  LET prep == Prepare(s, q, reply)
         IN  /\ prep.st \in Statements /\ w2 \in Seq(MessageOf)
             /\ Ledger(prep.st, w2, r, v) /\ Calm(w2) /\ Neat(prep.st.cache)
             /\ q \in Cached(prep.st)
<1> DEFINE prep == Prepare(s, q, reply)
           parse == Message("parse", q, c)
           close == Message("close", prep.evicted, c)
<1>1. /\ prep.st \in Statements /\ (prep.hit <=> q \in Cached(s))
      /\ prep.hit => /\ prep.evicted = NoQuery
                     /\ prep.st.parses = s.parses /\ prep.st.closes = s.closes
      /\ ~prep.hit =>
           /\ prep.st.parses = Append(s.parses, [reply |-> reply, query |-> q])
           /\ prep.evicted = NoQuery => prep.st.closes = s.closes
           /\ prep.evicted # NoQuery => /\ prep.evicted \in Queries
                                        /\ prep.st.closes = Append(s.closes, "suppress")
  BY PrepareKept
<1>2. /\ Neat(prep.st.cache)
      /\ prep.hit => Cached(prep.st) = Cached(s) /\ q \in Cached(s)
      /\ ~prep.hit => /\ q \notin Cached(s)
                      /\ prep.evicted = NoQuery => Cached(prep.st) = Cached(s) \cup {q}
                      /\ prep.evicted # NoQuery =>
                           /\ MaxPrepared > 0
                           /\ Cached(prep.st) = (Cached(s) \ {prep.evicted}) \cup {q}
  BY PrepareNeat
<1>3. /\ parse \in MessageOf /\ parse.kind = "parse" /\ parse.arg = q
  BY DEF Message, MessageOf, Senders
<1>4. w2 = w \o Preparation(c, q, prep)
  OBVIOUS
<1> HIDE DEF prep
<1>5. CASE prep.hit
  <2>1. w2 = w \o (<<>> \o <<>>)
    BY <1>1, <1>4, <1>5 DEF Preparation
  <2>2. w2 = w
    BY <2>1, EmptyAdded
  <2>3. Ledger(prep.st, w, r, v)
    <3>1. prep.st.parses = s.parses /\ Cached(prep.st) = Cached(s)
      BY <1>1, <1>2, <1>5
    <3> QED  BY <3>1 DEF Ledger, Account, Kept
  <2> QED  BY <1>1, <1>2, <1>5, <2>2, <2>3 DEF prep
<1>6. CASE ~prep.hit /\ prep.evicted = NoQuery
  <2>1. w2 = Append(w, parse)
    <3>1. w2 = w \o (<<>> \o <<parse>>)
      BY <1>4, <1>6 DEF Preparation
    <3> HIDE DEF parse
    <3>2. <<>> \o <<parse>> = <<parse>> /\ w \o <<parse>> = Append(w, parse)
      BY <1>3
    <3> QED  BY <3>1, <3>2
  <2> HIDE DEF parse
  <2>2. /\ prep.st.parses = Append(s.parses, [reply |-> reply, query |-> parse.arg])
        /\ Cached(prep.st) = Cached(s) \cup {parse.arg} /\ parse.arg \notin Cached(s)
    BY <1>1, <1>2, <1>3, <1>6
  <2>3. /\ Append(w, parse) \in Seq(MessageOf) /\ Calm(Append(w, parse))
        /\ Ledger(prep.st, Append(w, parse), r, v)
    BY <1>1, <1>3, <2>2, LedgerPrepares
  <2>4. q \in Cached(prep.st)
    BY <2>2, <1>3
  <2> QED  BY <1>1, <1>2, <2>1, <2>3, <2>4 DEF prep
<1>7. CASE ~prep.hit /\ prep.evicted # NoQuery
  <2> DEFINE s1 == [s EXCEPT !.cache = Without(s.cache, {prep.evicted})]
  <2>1. close \in MessageOf /\ close.kind = "close" /\ close.arg = prep.evicted
    BY <1>1, <1>7 DEF Message, MessageOf, Senders
  <2>2. w2 = Append(Append(w, close), parse)
    <3>1. w2 = w \o (<<close>> \o <<parse>>)
      BY <1>4, <1>7 DEF Preparation
    <3> HIDE DEF parse, close
    <3>2. w \o (<<close>> \o <<parse>>) = Append(Append(w, close), parse)
      BY <1>3, <2>1
    <3> QED  BY <3>1, <3>2
  <2>3. /\ s1 \in Statements /\ s1.parses = s.parses
        /\ Cached(s1) = Cached(s) \ {prep.evicted}
    <3>1. s.cache \in Seq(Queries)
      BY RecordParts
    <3>2. /\ Without(s.cache, {prep.evicted}) \in Seq(Queries)
          /\ Range(Without(s.cache, {prep.evicted})) = Range(s.cache) \ {prep.evicted}
      BY <3>1, WithoutKeeps
    <3> QED  BY <3>2 DEF Statements, Cached
  <2> HIDE DEF parse, close, s1
  <2>4. /\ Append(w, close) \in Seq(MessageOf) /\ Calm(Append(w, close))
        /\ Ledger(s1, Append(w, close), r, v)
    <3>1. MaxPrepared > 0 /\ Cached(s1) = Cached(s) \ {close.arg}
      BY <1>2, <1>7, <2>1, <2>3
    <3> QED  BY <2>1, <2>3, <3>1, LedgerEvicts
  <2>5. PICK w1 \in Seq(MessageOf) : w1 = Append(w, close) /\ Calm(w1) /\ Ledger(s1, w1, r, v)
    BY <2>4
  <2>6. /\ prep.st.parses = Append(s1.parses, [reply |-> reply, query |-> parse.arg])
        /\ Cached(prep.st) = Cached(s1) \cup {parse.arg} /\ parse.arg \notin Cached(s1)
    BY <1>1, <1>2, <1>3, <1>7, <2>3
  <2>7. /\ Append(w1, parse) \in Seq(MessageOf) /\ Calm(Append(w1, parse))
        /\ Ledger(prep.st, Append(w1, parse), r, v)
    BY <1>1, <1>3, <2>3, <2>5, <2>6, LedgerPrepares
  <2>8. q \in Cached(prep.st)
    BY <2>6, <1>3
  <2> QED  BY <1>1, <1>2, <2>2, <2>5, <2>7, <2>8 DEF prep
<1> QED  BY <1>5, <1>6, <1>7

-----------------------------------------------------------------------------
(* What the server makes of a message, for the statements it holds *)

\* There is a limit to the statements of a connection, or there is none.
LEMMA LimitOrNone == MaxPrepared > 0 <=> MaxPrepared # 0
  BY MaxPreparedAssumption

\* When the pooler limits the statements it keeps, no statement of this instance is an
\* error of its client's.
Spotless(v) == MaxPrepared > 0 => BadQueries = {} /\ Mishaps = {} /\ v.tx # "failed"

\* An error changes no statement.
LEMMA FailsKeeps ==
  ASSUME NEW v \in Server, NEW cause, NEW o \in Fails(v, cause)
  PROVE  o.srv.stmts = v.stmts
<1> DEFINE z == [Aborted(v) EXCEPT !.skip = TRUE]
<1>1. o = Outcome(z, <<Error(cause)>>)
  BY DEF Fails
<1>2. Aborted(v) \in Server /\ Aborted(v).stmts = v.stmts
  BY DEF Aborted, Server, Tx
<1>3. z.stmts = v.stmts
  BY <1>2 DEF Server
<1> QED  BY <1>1, <1>3 DEF Outcome

\* Nor does a Sync, or what the server skips.
LEMMA SyncHolds ==
  ASSUME NEW v \in Server, NEW m, NEW o \in Outcomes(v, m), m.kind = "sync"
  PROVE  o.srv.stmts = v.stmts
<1> DEFINE z == Ended([v EXCEPT !.skip = FALSE])
<1>1. o = Outcome(z, <<Ready(z)>>)
  BY DEF Outcomes
<1>2. z.stmts = v.stmts
  BY DEF Ended, Server
<1> QED  BY <1>1, <1>2 DEF Outcome

\* A message of the extended protocol does what the ledger says, or is an error of the
\* client's.
LEMMA OutcomeFinds ==
  ASSUME NEW v \in Server, NEW m \in MessageOf, NEW o \in Outcomes(v, m),
         ~v.skip, m.kind \in ExtendedKinds, Spotless(v),
         NEW us, NEW n, NEW held, NEW n2, Finds(m, us, v.stmts, n, held, n2)
  PROVE  \/ /\ o.srv.stmts = held /\ o.srv.tx = v.tx /\ ~o.srv.skip
            /\ o.replies = <<[kind |-> AnswerKind(m.kind), arg |-> "none"]>>
         \/ /\ MaxPrepared = 0 /\ o.srv.stmts = v.stmts /\ o.srv.skip
            /\ o.replies = <<[kind |-> "error", arg |-> "client"]>>
<1>0. o \in Extended(v, m) /\ MaxPrepared \in Nat
  BY MaxPreparedAssumption DEF Outcomes, ExtendedKinds
<1>f. ASSUME o \in Fails(v, "client")
      PROVE  /\ o.srv.stmts = v.stmts /\ o.srv.skip
             /\ o.replies = <<[kind |-> "error", arg |-> "client"]>>
  BY <1>f, FailsKeeps, OutcomeFails
<1>1. CASE m.kind = "parse"
  <2>1. o \in ParseOutcomes(v, m.arg) /\ m.arg \in Queries
    BY <1>0, <1>1 DEF Extended, MessageOf, ClientKinds
  <2>2. m.arg \notin v.stmts /\ held = v.stmts \cup {m.arg}
    BY <1>1 DEF Finds
  <2> DEFINE z == [v EXCEPT !.stmts = @ \cup {m.arg}]
  <2>3. z.stmts = held /\ z.tx = v.tx /\ z.skip = v.skip
    BY <2>2 DEF Server
  <2>4. CASE v.tx = "failed" \/ m.arg \in BadQueries
    <3>1. o \in Fails(v, "client")
      BY <2>1, <2>4 DEF ParseOutcomes
    <3>2. MaxPrepared = 0
      BY <1>0, <2>4 DEF Spotless
    <3> QED  BY <3>1, <3>2, <1>f
  <2>5. CASE ~(v.tx = "failed" \/ m.arg \in BadQueries)
    <3>1. o = Outcome(z, <<Answer("parsed")>>)
      BY <2>1, <2>2, <2>5 DEF ParseOutcomes
    <3> QED  BY <1>1, <2>3, <3>1 DEF Outcome, Answer, AnswerKind
  <2> QED  BY <2>4, <2>5
<1>2. CASE m.kind = "bind"
  <2>1. o \in BindOutcomes(v, m.arg)
    BY <1>0, <1>2 DEF Extended
  <2>2. (m.arg \in v.stmts \/ (m.arg = NoQuery /\ MaxPrepared = 0)) /\ held = v.stmts
    BY <1>2 DEF Finds
  <2> DEFINE z == [v EXCEPT !.vars = @ \cup (IF m.arg \in SetQueries THEN Vars ELSE {})]
  <2>3. z.stmts = held /\ z.tx = v.tx /\ z.skip = v.skip
    BY <2>2 DEF Server
  <2>4. \/ o = Outcome(z, <<Answer("bound")>>)
        \/ o \in Fails(v, "client") /\ (v.tx = "failed" \/ m.arg = NoQuery \/ "bind" \in Mishaps)
    <3> HIDE DEF z
    <3>1. CASE v.tx = "failed" \/ m.arg = NoQuery
      BY <2>1, <3>1 DEF BindOutcomes
    <3>2. CASE ~(v.tx = "failed" \/ m.arg = NoQuery)
      <4>1. m.arg \in v.stmts
        BY <2>2, <3>2
      <4>2. o \in {Outcome(z, <<Answer("bound")>>)}
                   \cup (IF "bind" \in Mishaps THEN Fails(v, "client") ELSE {})
        BY <2>1, <3>2, <4>1 DEF BindOutcomes, z
      <4> QED  BY <4>2
    <3> QED  BY <3>1, <3>2
  <2> HIDE DEF z
  <2>5. CASE o = Outcome(z, <<Answer("bound")>>)
    BY <1>2, <2>3, <2>5 DEF Outcome, Answer, AnswerKind
  <2>6. CASE o \in Fails(v, "client") /\ (v.tx = "failed" \/ m.arg = NoQuery \/ "bind" \in Mishaps)
    <3>1. MaxPrepared = 0
      <4> SUFFICES ASSUME MaxPrepared > 0  PROVE FALSE
        BY <1>0
      <4>1. m.arg \in v.stmts /\ v.stmts \in SUBSET Queries /\ MaxPrepared # 0
        BY <1>0, <2>2 DEF Server
      <4> QED  BY <2>6, <4>1, StatementNamesAssumption DEF Spotless
    <3> QED  BY <2>6, <3>1, <1>f
  <2> QED  BY <2>4, <2>5, <2>6
<1>3. CASE m.kind = "close"
  <2> DEFINE z == [v EXCEPT !.stmts = @ \ {m.arg}]
  <2>1. o = Outcome(z, <<Answer("closed")>>)
    BY <1>0, <1>3 DEF Extended
  <2>2. z.stmts = held /\ z.tx = v.tx /\ z.skip = v.skip
    BY <1>3 DEF Server, Finds
  <2> QED  BY <1>3, <2>1, <2>2 DEF Outcome, Answer, AnswerKind
<1>4. CASE m.kind = "portal"
  <2>1. o = Outcome(v, <<Answer("closed")>>)
    BY <1>0, <1>4 DEF Extended
  <2>2. held = v.stmts
    BY <1>4 DEF Finds
  <2> QED  BY <1>4, <2>1, <2>2 DEF Outcome, Answer, AnswerKind
<1> QED  BY <1>1, <1>2, <1>3, <1>4 DEF ExtendedKinds

\* What a simple query, or a reset, makes of the statements.
LEMMA EffectHolds ==
  ASSUME NEW v \in Server, NEW m \in MessageOf, NEW z \in Effects(v, m),
         m.kind \in ClientKinds \cup {"clean", "rollback and clean"}
  PROVE  /\ z.stmts = IF m.kind = "discard" THEN {} ELSE v.stmts
         /\ v.tx # "failed" => z.tx # "failed"
<1> DEFINE back == RolledBack(v)
<1>1. back \in Server /\ back.stmts = v.stmts /\ back.tx = "idle"
  BY DEF Server, Tx, RolledBack
<1>2. CASE m.kind = "discard"
  <2>1. z = [v EXCEPT !.stmts = {}, !.vars = {}]
    BY <1>2 DEF Effects
  <2> QED  BY <1>2, <2>1 DEF Server
<1>3. CASE m.kind # "discard"
  <2> DEFINE ends == {v, back, [v EXCEPT !.vars = @ \ m.arg], [back EXCEPT !.vars = @ \ m.arg],
                      [v EXCEPT !.tx = "idle"], [v EXCEPT !.tx = "open"],
                      [v EXCEPT !.vars = @ \cup m.arg]}
  <2> HIDE DEF back
  <2>1. z \in ends
    BY <1>3 DEF Effects, Cleaned, Changed, back
  <2>2. \A u \in ends : u.stmts = v.stmts /\ (v.tx # "failed" => u.tx # "failed")
    BY <1>1 DEF Server
  <2> QED  BY <1>3, <2>1, <2>2
<1> QED  BY <1>2, <1>3

\* A simple query is carried out, or is an error of the client's.
Carried(m, v, o) ==
  \/ /\ o.srv.stmts = IF m.kind = "discard" THEN {} ELSE v.stmts
     /\ o.replies = <<[kind |-> "done", arg |-> "none"], [kind |-> "ready", arg |-> o.srv.tx]>>
  \/ /\ MaxPrepared = 0 /\ o.srv.stmts = v.stmts /\ m.kind # "discard"
     /\ o.replies = <<[kind |-> "error", arg |-> "client"], [kind |-> "ready", arg |-> o.srv.tx]>>

\* Every simple query, and every reset, is one of the two.
LEMMA SimpleHolds ==
  ASSUME NEW v \in Server, NEW m \in MessageOf, NEW o \in Outcomes(v, m),
         ~v.skip, m.kind \in ClientKinds \cup {"clean", "rollback and clean"},
         Spotless(v), m.kind = "discard" => v.tx = "idle"
  PROVE  Spotless(o.srv) /\ Carried(m, v, o)
<1>0. o \in Simple(v, m) /\ MaxPrepared \in Nat
  BY MaxPreparedAssumption DEF Outcomes, ExtendedKinds, ClientKinds
<1>1. CASE \E z \in Effects(v, m) : o = Outcome(Ended(z), <<Answer("done"), Ready(z)>>)
  <2>1. PICK z \in Effects(v, m) : o = Outcome(Ended(z), <<Answer("done"), Ready(z)>>)
    BY <1>1
  <2>2. z \in Server
    BY EffectTypes
  <2>3. Ended(z).stmts = z.stmts /\ Ended(z).tx = z.tx
    BY <2>2 DEF Ended, Server
  <2>4. /\ z.stmts = IF m.kind = "discard" THEN {} ELSE v.stmts
        /\ v.tx # "failed" => z.tx # "failed"
    BY EffectHolds
  <2>5. o.srv.stmts = z.stmts /\ o.srv.tx = z.tx
        /\ o.replies = <<[kind |-> "done", arg |-> "none"], [kind |-> "ready", arg |-> o.srv.tx]>>
    BY <2>1, <2>3 DEF Outcome, Answer, Ready
  <2> QED  BY <2>4, <2>5 DEF Spotless, Carried
<1>2. CASE ~\E z \in Effects(v, m) : o = Outcome(Ended(z), <<Answer("done"), Ready(z)>>)
  <2>1. /\ o = Outcome(Aborted(v), <<Error("client"), Ready(Aborted(v))>>)
        /\ Effects(v, m) = {} \/ (m.kind = "work" /\ "work" \in Mishaps)
    BY <1>0, <1>2 DEF Simple
  <2>2. Aborted(v).stmts = v.stmts
    BY DEF Aborted, Server
  <2>3. m.kind # "discard"
    <3> SUFFICES ASSUME m.kind = "discard"  PROVE FALSE
      OBVIOUS
    <3>1. Effects(v, m) # {}
      BY DEF Effects
    <3> QED  BY <2>1, <3>1
  <2>4. MaxPrepared = 0
    <3>1. ASSUME Mishaps = {}, v.tx # "failed"  PROVE FALSE
      <4>1. RolledBack(v).tx # "failed"
        BY DEF RolledBack, Server
      <4>2. Effects(v, m) # {}
        BY <2>3, <3>1, <4>1 DEF Effects, Cleaned
      <4> QED  BY <2>1, <3>1, <4>2
    <3>2. ~(MaxPrepared > 0)
      BY <3>1 DEF Spotless
    <3> QED  BY <3>2, LimitOrNone
  <2>5. /\ o.srv = Aborted(v)
        /\ o.replies = <<[kind |-> "error", arg |-> "client"], [kind |-> "ready", arg |-> o.srv.tx]>>
    BY <2>1 DEF Outcome, Error, Ready
  <2>6. Spotless(o.srv)
    <3> QED  BY <2>4, LimitOrNone DEF Spotless
  <2> QED  BY <2>2, <2>3, <2>4, <2>5, <2>6 DEF Carried
<1> QED  BY <1>1, <1>2

-----------------------------------------------------------------------------
(* The server reads a message: the ledger still balances *)

\* A reply that answers no Parse changes nothing of how many are answered.
LEMMA AckedSame ==
  ASSUME NEW r, NEW r2, Len(r) \in Nat, Len(r2) \in Nat, Len(r) <= Len(r2),
         \A i \in 1..Len(r) : r2[i] = r[i],
         \A i \in 1..Len(r2) : i \in 1..Len(r) \/ r2[i].kind # "parsed",
         NEW g, Acked(r, g)
  PROVE  Acked(r2, g)
<1>1. At(r2, "parsed") = At(r, "parsed")
  BY DEF At
<1>2. \A k \in At(r, "parsed") : KindOf(r2)[k] = KindOf(r)[k]
  BY DEF At, KindOf
<1>3. PICK u \in Seq(Kinds) : Len(u) = g /\ Lists(u, At(r, "parsed"), KindOf(r))
  BY DEF Acked
<1>4. Lists(u, At(r2, "parsed"), KindOf(r2))
  BY <1>1, <1>2, <1>3, ListsSame
<1> QED  BY <1>3, <1>4 DEF Acked

\* One Parse more is answered.
LEMMA AckedMore ==
  ASSUME NEW r, NEW r2, Len(r) \in Nat, Len(r2) = Len(r) + 1,
         \A i \in 1..Len(r) : r2[i] = r[i], r2[Len(r)+1].kind = "parsed",
         NEW g \in Nat, Acked(r, g)
  PROVE  Acked(r2, g + 1)
<1> DEFINE n == Len(r)
<1>1. At(r2, "parsed") = At(r, "parsed") \cup {n + 1} /\ At(r, "parsed") \in SUBSET (1..n)
  <2>1. \A i \in 1..(n+1) : i \in 1..n \/ i = n + 1
    OBVIOUS
  <2>2. \A i \in 1..n : i \in 1..(n+1)
    OBVIOUS
  <2>3. n + 1 \in 1..(n+1)
    OBVIOUS
  <2> QED  BY <2>1, <2>2, <2>3 DEF At
<1>2. /\ \A k \in At(r, "parsed") : KindOf(r2)[k] = KindOf(r)[k]
      /\ KindOf(r2)[n+1] = "parsed"
  <2>1. \A i \in 1..n : i \in 1..(n+1)
    OBVIOUS
  <2>2. n + 1 \in 1..(n+1)
    OBVIOUS
  <2> QED  BY <2>1, <2>2 DEF At, KindOf
<1>3. PICK u \in Seq(Kinds) : Len(u) = g /\ Lists(u, At(r, "parsed"), KindOf(r))
  BY DEF Acked
<1>4. "parsed" \in Kinds
  BY DEF Kinds
<1> HIDE DEF n
<1>5. Lists(Append(u, "parsed"), At(r2, "parsed"), KindOf(r2))
  <2>1. n \in Nat
    BY DEF n
  <2> QED  BY <1>1, <1>2, <1>3, <1>4, <2>1, ListsAppend
<1>6. Append(u, "parsed") \in Seq(Kinds) /\ Len(Append(u, "parsed")) = g + 1
  BY <1>3, <1>4
<1> QED  BY <1>5, <1>6 DEF Acked

\* What is on the wires of a session: no error that the server is not to skip after,
\* as long as it has something to read.
LEMMA ExchangeWires ==
  ASSUME NEW c, NEW p \in Seq(Item), NEW s \in Statements, NEW d, NEW w \in Seq(MessageOf),
         NEW r \in Seq(ReplyOf), NEW t, NEW v, Exchange(c, p, s, d, w, r, t, v)
  PROVE  /\ (\A i \in 1..Len(w) : w[i].kind \in Line) \/ Querying(c, p, d, w, r, v)
         /\ w # <<>> /\ ~v.skip => ~Failed(r, v)
         /\ v.skip => (\A i \in 1..Len(w) : w[i].kind \in Line)
         /\ v.skip => Skipping(c, p, d, w, r, v) \/ \E i \in 1..Len(r) : r[i].kind = "error"
<1>1. ASSUME Waiting(c, p, w)  PROVE \A i \in 1..Len(w) : w[i].kind \in Line
  BY <1>1 DEF Waiting, Asks
<1>2. CASE Flowing(c, p, d, w, r, t, v)
  <2>1. /\ ~v.skip /\ Waiting(c, p, w) /\ Len(r) <= Len(p)
        /\ \A i \in 1..Len(r) : r[i].kind = p[i].kind
    BY <1>2 DEF Flowing, Answering
  <2>2. ASSUME NEW i \in 1..Len(r)  PROVE r[i].kind # "error"
    <3>1. i \in 1..Len(p)
      BY <2>1
    <3>2. p[i] \in Item
      BY <3>1
    <3>3. p[i].kind \in Kinds
      BY <3>2 DEF Item
    <3> QED  BY <2>1, <3>3 DEF Kinds
  <2> QED  BY <1>1, <2>1, <2>2 DEF Failed
<1>3. CASE \E k \in 1..Len(p) : Failing(c, p, d, w, r, v, k)
  <2>1. PICK k \in 1..Len(p) : Failing(c, p, d, w, r, v, k)
    BY <1>3
  <2>2. /\ k <= Len(r) /\ r[k].kind = "error" /\ Waiting(c, p, w)
        /\ v.skip \/ w = <<>>
    BY <2>1 DEF Failing
  <2>3. k \in 1..Len(r)
    BY <2>2
  <2> QED  BY <1>1, <2>2, <2>3
<1>4. CASE Skipping(c, p, d, w, r, v)
  BY <1>4 DEF Skipping
<1>5. CASE Querying(c, p, d, w, r, v)
  <2>1. ~v.skip /\ r = <<>> /\ Len(<<>>) = 0
    BY <1>5 DEF Querying
  <2>2. ~Failed(r, v)
    BY <2>1 DEF Failed
  <2> QED  BY <1>5, <2>1, <2>2
<1> QED  BY <1>2, <1>3, <1>4, <1>5 DEF Exchange

\* A plan without a Parse has none that the pooler recalls.
LEMMA NoneRecalled ==
  ASSUME NEW p, NEW s \in Statements, NEW d, Books(p, s, d), At(p, "parsed") = {}
  PROVE  s.parses = <<>>
<1>1. s.parses \in Seq(Pending) /\ Lists(s.parses, {}, ParseOf(p))
  BY RecordParts DEF Books
<1> QED  BY <1>1, ListsNone

\* A DISCARD ALL is alone on its wire.
LEMMA CalmHead ==
  ASSUME NEW s, NEW w \in Seq(MessageOf), w # <<>>, NEW r, NEW v, Ledger(s, w, r, v)
  PROVE  /\ Calm(Tail(w)) /\ (w[1].kind # "discard" => Calm(w))
         /\ w[1].kind = "discard" => s.parses = <<>> /\ v.tx = "idle"
<1>1. /\ Len(w) \in Nat \ {0} /\ Len(Tail(w)) = Len(w) - 1
      /\ \A i \in 1..(Len(w) - 1) : Tail(w)[i] = w[i+1] /\ i + 1 \in 1..Len(w)
  BY WireTail
<1>2. 1 \in 1..Len(w)
  BY <1>1
<1>3. CASE Calm(w)
  BY <1>1, <1>2, <1>3 DEF Calm
<1>4. CASE ~Calm(w)
  <2>1. Len(w) = 1 /\ s.parses = <<>> /\ v.tx = "idle"
    BY <1>4 DEF Ledger
  <2>2. \A i \in 1..Len(w) : i = 1
    BY <2>1
  <2>3. w[1].kind = "discard"
    BY <1>4, <2>2 DEF Calm
  <2>4. Calm(Tail(w))
    <3>1. Len(Tail(w)) = 0 /\ 1..0 = {}
      BY <1>1, <2>1
    <3> QED  BY <3>1 DEF Calm
  <2> QED  BY <2>1, <2>3, <2>4
<1> QED  BY <1>3, <1>4

\* The server skips a message.
LEMMA ServedSkipped ==
  ASSUME NEW c \in Sessions, NEW p \in Seq(Item), NEW s \in Statements, NEW d,
         NEW w \in Seq(MessageOf), w # <<>>, NEW r \in Seq(ReplyOf), NEW t, NEW v \in Server,
         Exchange(c, p, s, d, w, r, t, v), Ledger(s, w, r, v), Spotless(v),
         NEW o \in Outcomes(v, Head(w)), v.skip, Head(w).kind # "sync"
  PROVE  Ledger(s, Tail(w), Replied(r, o.replies, c), o.srv) /\ Spotless(o.srv)
<1>1. o.srv = v /\ o.replies = <<>>
  BY OutcomeSkipped
<1>2. Replied(r, o.replies, c) = r
  BY <1>1, RepliedNone
<1>3. Failed(r, v) /\ MaxPrepared = 0
  BY DEF Ledger, Failed
<1>4. Calm(w) /\ Calm(Tail(w))
  <2>1. \A i \in 1..Len(w) : w[i].kind \in Line
    BY ExchangeWires
  <2> QED  BY <2>1, CalmHead DEF Calm, Line, ExtendedKinds
<1>5. PICK g \in 0..Len(s.parses) : Account(s, w, r, v, g)
  BY DEF Ledger
<1>6. Account(s, Tail(w), r, v, g)
  BY <1>3, <1>4, <1>5 DEF Account, Kept
<1>7. Ledger(s, Tail(w), r, v)
  BY <1>3, <1>4, <1>6 DEF Ledger
<1> QED  BY <1>1, <1>2, <1>7

\* The server reads a Sync.
LEMMA ServedSync ==
  ASSUME NEW c \in Sessions, NEW p \in Seq(Item), NEW s \in Statements, NEW d,
         NEW w \in Seq(MessageOf), w # <<>>, NEW r \in Seq(ReplyOf), NEW t, NEW v \in Server,
         Exchange(c, p, s, d, w, r, t, v), Ledger(s, w, r, v), Spotless(v),
         NEW o \in Outcomes(v, Head(w)), Head(w).kind = "sync"
  PROVE  Ledger(s, Tail(w), Replied(r, o.replies, c), o.srv) /\ Spotless(o.srv)
<1> DEFINE r2 == Replied(r, o.replies, c)
           w2 == Tail(w)
           v2 == o.srv
           us == s.parses
<1>1. /\ v2 \in Server /\ v2.tx = v.tx /\ ~v2.skip /\ v2.stmts = v.stmts
      /\ o.replies = <<[kind |-> "ready", arg |-> v.tx]>>
  BY OutcomeSync, SyncHolds
<1>2. Head(w) = w[1] /\ Len(w) \in Nat \ {0}
  BY WireTail
<1>3. Calm(w) /\ Calm(w2)
  BY <1>2, CalmHead
<1>4. /\ r2 \in Seq(ReplyOf) /\ Len(r) \in Nat /\ Len(r2) = Len(r) + 1
      /\ \A i \in 1..Len(r) : r2[i] = r[i]
      /\ r2[Len(r) + 1].kind = "ready" /\ r2[Len(r) + 1].arg = v.tx
  <2> DEFINE a == [kind |-> "ready", arg |-> v.tx]
  <2>1. /\ To(a, c) = [kind |-> "ready", arg |-> v.tx, to |-> c] /\ To(a, c) \in ReplyOf
    BY DEF To, ReplyOf, Kinds, Senders, Server
  <2> HIDE DEF a
  <2>2. LET z == Replied(r, <<a>>, c)
        IN  /\ z \in Seq(ReplyOf) /\ Len(r) \in Nat /\ Len(z) = Len(r) + 1
            /\ \A i \in 1..Len(r) : z[i] = r[i]
            /\ z[Len(r) + 1] = To(a, c)
    BY <2>1, RepliedOne
  <2>3. r2 = Replied(r, <<a>>, c)
    BY <1>1 DEF a
  <2> HIDE DEF r2
  <2> QED  BY <2>1, <2>2, <2>3
<1>5. \A i \in 1..Len(r2) : i \in 1..Len(r) \/ i = Len(r) + 1
  BY <1>4
<1> HIDE DEF r2, w2, v2, us
<1>6. PICK g \in 0..Len(us) : Account(s, w, r, v, g)
  BY DEF Ledger, us
<1>7. Acked(r2, g)
  <2>1. Acked(r, g) /\ Len(r2) \in Nat /\ Len(r) <= Len(r2)
    BY <1>4, <1>6 DEF Account
  <2>2. \A i \in 1..Len(r2) : i \in 1..Len(r) \/ r2[i].kind # "parsed"
    BY <1>4, <1>5
  <2> QED  BY <1>4, <2>1, <2>2, AckedSame
<1>8. \A i \in 1..Len(r2) : r2[i].arg # "pooler"
  <2>1. \A i \in 1..Len(r) : r[i].arg # "pooler"
    BY DEF Ledger
  <2>2. v.tx # "pooler"
    BY DEF Server, Tx
  <2> QED  BY <1>4, <1>5, <2>1, <2>2
<1>9. MaxPrepared = 0 => Kept(s, w2, v2, g)
  BY <1>1, <1>3, <1>6 DEF Account, Kept
<1>10. Failed(r2, v2) => \E i \in 1..Len(r) : r[i].kind = "error"
  BY <1>1, <1>4, <1>5 DEF Failed
<1>11. Failed(r2, v2) => MaxPrepared = 0
  BY <1>10 DEF Failed, Ledger
<1>12. Failed(r2, v2) \/ Leads(us, w2, v2.stmts, g, Cached(s), Len(us))
  <2>1. CASE \E i \in 1..Len(r) : r[i].kind = "error"
    <3>1. PICK i \in 1..Len(r) : r[i].kind = "error"
      BY <2>1
    <3>2. i \in 1..Len(r2) /\ r2[i].kind = "error"
      BY <1>4, <3>1
    <3> QED  BY <3>2 DEF Failed
  <2>2. CASE v.skip /\ ~\E i \in 1..Len(r) : r[i].kind = "error"
    <3>1. Skipping(c, p, d, w, r, v)
      BY <2>2, ExchangeWires
    <3>2. Len(w) = 1 /\ p # <<>>
      <4>1. 1 \in 1..Len(w)
        BY <1>2
      <4>2. w[1].kind = "sync" <=> 1 = Len(w) /\ p # <<>>
        BY <3>1, <4>1 DEF Skipping
      <4> QED  BY <1>2, <4>2
    <3>3. w2 = <<>>
      BY <3>2, SingletonTail DEF w2
    <3>4. us = <<>>
      <4>1. Len(p) = 1 /\ p[1].kind = "ready"
        BY <3>1, <3>2 DEF Skipping
      <4>2. \A i \in 1..Len(p) : i = 1
        BY <4>1
      <4>3. At(p, "parsed") = {}
        BY <4>1, <4>2 DEF At
      <4> QED  BY <4>3, NoneRecalled DEF Exchange, us
    <3>5. Len(us) = 0 /\ g = 0 /\ 1..0 = {}
      BY <1>6, <3>4
    <3>6. Failed(r, v)
      BY <2>2 DEF Failed
    <3>7. MaxPrepared = 0
      BY <3>6 DEF Ledger
    <3>8. Cached(s) = v.stmts
      <4>1. Asked(us) = {}
        BY <3>5 DEF Asked
      <4> QED  BY <1>3, <1>6, <3>7, <4>1 DEF Account, Kept, us
    <3>9. v.stmts \in SUBSET Queries
      BY DEF Server
    <3> QED  BY <1>1, <3>3, <3>5, <3>8, <3>9, LeadsNone
  <2>3. CASE ~Failed(r, v)
    <3>1. Leads(us, w, v.stmts, g, Cached(s), Len(us))
      BY <1>6, <2>3 DEF Account, us
    <3>2. PICK held1 \in SUBSET Queries, n1 \in Nat :
            /\ Finds(w[1], us, v.stmts, g, held1, n1)
            /\ Leads(us, w2, held1, n1, Cached(s), Len(us))
      BY <3>1, LeadsTail DEF w2
    <3>3. held1 = v.stmts /\ n1 = g
      BY <1>2, <3>2 DEF Finds
    <3> QED  BY <1>1, <3>2, <3>3
  <2> QED  BY <2>1, <2>2, <2>3 DEF Failed
<1>13. Account(s, w2, r2, v2, g)
  BY <1>7, <1>9, <1>12 DEF Account, us
<1>14. Ledger(s, w2, r2, v2)
  BY <1>3, <1>6, <1>8, <1>11, <1>13 DEF Ledger, us
<1>15. Spotless(v2)
  BY <1>1 DEF Spotless
<1> QED  BY <1>14, <1>15 DEF r2, w2, v2

\* The server reads a message of the extended protocol.
LEMMA ServedLine ==
  ASSUME NEW c \in Sessions, NEW p \in Seq(Item), NEW s \in Statements, NEW d,
         NEW w \in Seq(MessageOf), w # <<>>, NEW r \in Seq(ReplyOf), NEW t, NEW v \in Server,
         Exchange(c, p, s, d, w, r, t, v), Ledger(s, w, r, v), Spotless(v),
         NEW o \in Outcomes(v, Head(w)), ~v.skip, Head(w).kind \in ExtendedKinds
  PROVE  Ledger(s, Tail(w), Replied(r, o.replies, c), o.srv) /\ Spotless(o.srv)
<1> DEFINE m == Head(w)
           r2 == Replied(r, o.replies, c)
           w2 == Tail(w)
           v2 == o.srv
           us == s.parses
<1>1. m = w[1] /\ m \in MessageOf /\ Len(w) \in Nat \ {0}
  BY WireTail
<1>2. m.kind # "discard" /\ m.kind \in {"parse", "bind", "close", "portal"}
  BY DEF ExtendedKinds
<1>3. Calm(w) /\ Calm(w2)
  BY <1>1, <1>2, CalmHead
<1>4. ~Failed(r, v)
  BY ExchangeWires
<1>5. PICK g \in 0..Len(us) : Account(s, w, r, v, g)
  BY DEF Ledger
<1>6. PICK held1 \in SUBSET Queries, n1 \in Nat :
        /\ Finds(m, us, v.stmts, g, held1, n1)
        /\ Leads(us, w2, held1, n1, Cached(s), Len(us))
  <2>1. Leads(us, w, v.stmts, g, Cached(s), Len(us))
    BY <1>4, <1>5 DEF Account
  <2> QED  BY <1>1, <2>1, LeadsTail
<1>7. \/ /\ v2.stmts = held1 /\ v2.tx = v.tx /\ ~v2.skip
         /\ o.replies = <<[kind |-> AnswerKind(m.kind), arg |-> "none"]>>
      \/ /\ MaxPrepared = 0 /\ v2.stmts = v.stmts /\ v2.skip
         /\ o.replies = <<[kind |-> "error", arg |-> "client"]>>
  BY <1>1, <1>6, OutcomeFinds
<1>8. us \in Seq(Pending) /\ Len(us) \in Nat
  BY RecordParts
<1>9. ASSUME NEW kind \in Kinds \cup {"error"}, NEW arg \in {"none", "client"},
             o.replies = <<[kind |-> kind, arg |-> arg]>>
      PROVE  /\ r2 \in Seq(ReplyOf) /\ Len(r) \in Nat /\ Len(r2) = Len(r) + 1
             /\ \A i \in 1..Len(r) : r2[i] = r[i]
             /\ r2[Len(r) + 1].kind = kind /\ r2[Len(r) + 1].arg # "pooler"
             /\ \A i \in 1..Len(r2) : i \in 1..Len(r) \/ i = Len(r) + 1
             /\ \A i \in 1..Len(r2) : r2[i].arg # "pooler"
  <2> DEFINE a == [kind |-> kind, arg |-> arg]
  <2>1. To(a, c) = [kind |-> kind, arg |-> arg, to |-> c] /\ To(a, c) \in ReplyOf
    BY DEF To, ReplyOf, Senders
  <2>2. r2 = Replied(r, <<a>>, c)
    BY <1>9
  <2> HIDE DEF a, r2
  <2>3. /\ r2 \in Seq(ReplyOf) /\ Len(r) \in Nat /\ Len(r2) = Len(r) + 1
        /\ \A i \in 1..Len(r) : r2[i] = r[i]
        /\ r2[Len(r) + 1] = To(a, c)
    BY <2>1, <2>2, RepliedOne
  <2>4. \A i \in 1..Len(r2) : i \in 1..Len(r) \/ i = Len(r) + 1
    BY <2>3
  <2>5. \A i \in 1..Len(r) : r[i].arg # "pooler"
    BY DEF Ledger
  <2> QED  BY <2>1, <2>3, <2>4, <2>5
<1> HIDE DEF m, r2, w2, v2, us
<1>10. CASE /\ v2.stmts = held1 /\ v2.tx = v.tx /\ ~v2.skip
            /\ o.replies = <<[kind |-> AnswerKind(m.kind), arg |-> "none"]>>
  <2>1. AnswerKind(m.kind) \in Kinds \cup {"error"} /\ AnswerKind(m.kind) # "error"
        /\ (AnswerKind(m.kind) = "parsed" <=> m.kind = "parse")
    BY <1>2 DEF AnswerKind, Kinds
  <2>2. /\ r2 \in Seq(ReplyOf) /\ Len(r) \in Nat /\ Len(r2) = Len(r) + 1
        /\ \A i \in 1..Len(r) : r2[i] = r[i]
        /\ r2[Len(r) + 1].kind = AnswerKind(m.kind)
        /\ \A i \in 1..Len(r2) : i \in 1..Len(r) \/ i = Len(r) + 1
        /\ \A i \in 1..Len(r2) : r2[i].arg # "pooler"
    BY <1>9, <1>10, <2>1
  <2>3. ~Failed(r2, v2)
    BY <1>4, <1>10, <2>1, <2>2 DEF Failed
  <2>4. Acked(r, g)
    BY <1>5 DEF Account
  <2>5. ASSUME m.kind = "parse"  PROVE Ledger(s, w2, r2, v2)
    <3>1. /\ m.arg \notin v.stmts /\ held1 = v.stmts \cup {m.arg}
          /\ n1 = g + 1 /\ g + 1 \in 1..Len(us) /\ us[g+1].query = m.arg
      BY <1>6, <2>5 DEF Finds
    <3>2. Acked(r2, g + 1)
      <4>1. r2[Len(r) + 1].kind = "parsed" /\ g \in Nat
        BY <2>1, <2>2, <2>5, <3>1 DEF Account
      <4> QED  BY <2>2, <2>4, <4>1, AckedMore, SMTT(30)
    <3>3. ASSUME MaxPrepared = 0  PROVE Kept(s, w2, v2, g + 1)
      <4>1. /\ \A i \in 1..Len(us) : us[i].query \in v.stmts <=> i <= g
            /\ \A i, j \in 1..Len(us) : us[i].query = us[j].query => i = j
            /\ Cached(s) = v.stmts \cup Asked(us)
        BY <1>3, <1>5, <3>3 DEF Account, Kept, us
      <4>2. \A i \in 1..Len(us) : us[i].query \in v2.stmts <=> i <= g + 1
        <5> TAKE i \in 1..Len(us)
        <5>1. us[i].query = m.arg <=> i = g + 1
          BY <3>1, <4>1
        <5>2. i <= g + 1 <=> i <= g \/ i = g + 1
          BY <1>8
        <5> QED  BY <1>10, <3>1, <4>1, <5>1, <5>2
      <4>3. m.arg \in Asked(us)
        BY <3>1 DEF Asked
      <4>4. Cached(s) = v2.stmts \cup Asked(us)
        BY <1>10, <3>1, <4>1, <4>3
      <4> QED  BY <4>1, <4>2, <4>4 DEF Kept, us
    <3>4. Account(s, w2, r2, v2, g + 1)
      BY <1>6, <1>10, <3>1, <3>2, <3>3 DEF Account, us
    <3>5. g + 1 \in 0..Len(us)
      BY <3>1
    <3> QED  BY <1>3, <2>2, <2>3, <3>4, <3>5 DEF Ledger, us
  <2>6. ASSUME m.kind # "parse"  PROVE Ledger(s, w2, r2, v2)
    <3>1. n1 = g /\ (held1 = v.stmts \/ MaxPrepared > 0)
      BY <1>2, <1>6, <2>6 DEF Finds
    <3>2. Acked(r2, g)
      <4>1. \A i \in 1..Len(r2) : i \in 1..Len(r) \/ r2[i].kind # "parsed"
        BY <2>1, <2>2, <2>6
      <4>2. Len(r2) \in Nat /\ Len(r) <= Len(r2)
        BY <2>2
      <4> QED  BY <2>2, <2>4, <4>1, <4>2, AckedSame
    <3>3. ASSUME MaxPrepared = 0  PROVE Kept(s, w2, v2, g)
      <4>1. v2.stmts = v.stmts
        BY <1>10, <3>1, <3>3, LimitOrNone
      <4> QED  BY <1>3, <1>5, <3>3, <4>1 DEF Account, Kept
    <3>4. Account(s, w2, r2, v2, g)
      BY <1>6, <1>10, <3>1, <3>2, <3>3 DEF Account, us
    <3> QED  BY <1>3, <1>5, <2>2, <2>3, <3>4 DEF Ledger, us
  <2>7. Ledger(s, w2, r2, v2)
    BY <2>5, <2>6
  <2>8. Spotless(v2)
    BY <1>10 DEF Spotless
  <2> QED  BY <2>7, <2>8 DEF r2, w2, v2
<1>11. CASE /\ MaxPrepared = 0 /\ v2.stmts = v.stmts /\ v2.skip
            /\ o.replies = <<[kind |-> "error", arg |-> "client"]>>
  <2>1. /\ r2 \in Seq(ReplyOf) /\ Len(r) \in Nat /\ Len(r2) = Len(r) + 1
        /\ \A i \in 1..Len(r) : r2[i] = r[i]
        /\ r2[Len(r) + 1].kind = "error"
        /\ \A i \in 1..Len(r2) : i \in 1..Len(r) \/ i = Len(r) + 1
        /\ \A i \in 1..Len(r2) : r2[i].arg # "pooler"
    BY <1>9, <1>11
  <2>2. Acked(r2, g)
    <3>1. \A i \in 1..Len(r2) : i \in 1..Len(r) \/ r2[i].kind # "parsed"
      BY <2>1
    <3>2. Len(r2) \in Nat /\ Len(r) <= Len(r2) /\ Acked(r, g)
      BY <1>5, <2>1 DEF Account
    <3> QED  BY <2>1, <3>1, <3>2, AckedSame
  <2>3. Failed(r2, v2)
    BY <1>11 DEF Failed
  <2>4. Kept(s, w2, v2, g)
    BY <1>3, <1>5, <1>11 DEF Account, Kept
  <2>5. Account(s, w2, r2, v2, g)
    BY <2>2, <2>3, <2>4 DEF Account
  <2>6. Ledger(s, w2, r2, v2)
    BY <1>3, <1>5, <1>11, <2>1, <2>5 DEF Ledger, us
  <2>7. Spotless(v2)
    BY <1>11, LimitOrNone DEF Spotless
  <2> QED  BY <2>6, <2>7 DEF r2, w2, v2
<1> QED  BY <1>7, <1>10, <1>11

\* The server reads a simple query.
LEMMA ServedSimple ==
  ASSUME NEW c \in Sessions, NEW p \in Seq(Item), NEW s \in Statements, NEW d,
         NEW w \in Seq(MessageOf), w # <<>>, NEW r \in Seq(ReplyOf), NEW t, NEW v \in Server,
         Exchange(c, p, s, d, w, r, t, v), Ledger(s, w, r, v), Spotless(v),
         NEW o \in Outcomes(v, Head(w)), ~v.skip, Head(w).kind \notin Line
  PROVE  Ledger(s, Tail(w), Replied(r, o.replies, c), o.srv) /\ Spotless(o.srv)
<1> DEFINE m == Head(w)
           r2 == Replied(r, o.replies, c)
           w2 == Tail(w)
           v2 == o.srv
           us == s.parses
<1>1. m = w[1] /\ m \in MessageOf /\ 1 \in 1..Len(w)
  <2>1. Len(w) \in Nat \ {0} /\ Head(w) = w[1] /\ w[1] \in MessageOf
    BY WireTail
  <2> QED  BY <2>1
<1>2. Querying(c, p, d, w, r, v)
  BY <1>1, ExchangeWires
<1>3. r = <<>> /\ Len(w) = 1 /\ m.kind \in ClientKinds /\ Len(r) = 0
  BY <1>1, <1>2 DEF Querying
<1>4. w2 = <<>>
  BY <1>3, SingletonTail
<1>5. us = <<>> /\ Len(us) = 0
  <2>1. \A i \in 1..Len(p) : p[i].kind # "parsed"
    <3>1. Len(p) = 2 /\ p[1].kind = "done" /\ p[2].kind = "ready"
      BY <1>2 DEF Querying
    <3>2. \A i \in 1..Len(p) : i = 1 \/ i = 2
      BY <3>1
    <3> QED  BY <3>1, <3>2
  <2>2. At(p, "parsed") = {}
    BY <2>1 DEF At
  <2>3. us = <<>>
    BY <2>2, NoneRecalled DEF Exchange
  <2> QED  BY <2>3
<1>6. m.kind = "discard" => v.tx = "idle"
  BY <1>1, CalmHead
<1>7. /\ Spotless(v2)
      /\ \/ /\ v2.stmts = IF m.kind = "discard" THEN {} ELSE v.stmts
            /\ o.replies = <<[kind |-> "done", arg |-> "none"], [kind |-> "ready", arg |-> v2.tx]>>
         \/ /\ MaxPrepared = 0 /\ v2.stmts = v.stmts /\ m.kind # "discard"
            /\ o.replies = <<[kind |-> "error", arg |-> "client"], [kind |-> "ready", arg |-> v2.tx]>>
  <2>1. m.kind \in ClientKinds \cup {"clean", "rollback and clean"}
    BY <1>3
  <2>2. Spotless(v2) /\ Carried(m, v, o)
    BY <1>1, <1>6, <2>1, SimpleHolds
  <2> QED  BY <2>2 DEF Carried
<1>8. v2 \in Server /\ ~v2.skip
  BY <1>1, <1>3, OutcomeSimple
<1>9. ASSUME NEW kind \in {"done", "error"}, NEW arg \in {"none", "client"},
             o.replies = <<[kind |-> kind, arg |-> arg], [kind |-> "ready", arg |-> v2.tx]>>
      PROVE  /\ Len(r2) = 2 /\ r2[1].kind = kind
             /\ \A i \in 1..Len(r2) : /\ r2[i].arg # "pooler" /\ r2[i].kind # "parsed"
                                      /\ i = 1 \/ r2[i].kind = "ready"
  <2> DEFINE a == [kind |-> kind, arg |-> arg]
             b == [kind |-> "ready", arg |-> v2.tx]
  <2>0. v2.tx \in Tx
    BY <1>8 DEF Server
  <2>1. /\ To(a, c) = [kind |-> kind, arg |-> arg, to |-> c] /\ To(a, c) \in ReplyOf
        /\ To(b, c) = [kind |-> "ready", arg |-> v2.tx, to |-> c] /\ To(b, c) \in ReplyOf
    BY <2>0 DEF To, ReplyOf, Senders, Kinds
  <2>2. r2 = Replied(r, <<a, b>>, c)
    BY <1>9
  <2> HIDE DEF a, b, r2, v2
  <2>3. /\ Len(r2) = Len(r) + 2
        /\ r2[Len(r) + 1] = To(a, c) /\ r2[Len(r) + 2] = To(b, c)
    BY <2>1, <2>2, RepliedTwo
  <2>4. Len(r2) = 2 /\ r2[1] = To(a, c) /\ r2[2] = To(b, c)
    BY <1>3, <2>3
  <2>5. \A i \in 1..Len(r2) : i = 1 \/ i = 2
    BY <2>4
  <2>6. v2.tx # "pooler"
    BY <2>0 DEF Tx
  <2> QED  BY <2>1, <2>4, <2>5, <2>6
<1>10. PICK g \in 0..0 : Account(s, w, r, v, g)
  BY <1>5 DEF Ledger
<1>11. g = 0 /\ ~Failed(r, v)
  <2>1. ~Failed(r, v)
    BY ExchangeWires
  <2> QED  BY <2>1
<1>12. PICK held1 \in SUBSET Queries, n1 \in Nat :
         /\ Finds(m, us, v.stmts, 0, held1, n1)
         /\ Leads(us, <<>>, held1, n1, Cached(s), 0)
  <2>1. Leads(us, w, v.stmts, 0, Cached(s), 0)
    BY <1>5, <1>10, <1>11 DEF Account
  <2> QED  BY <1>1, <1>4, <2>1, LeadsTail
<1> HIDE DEF m, r2, w2, v2, us
<1>13. n1 = 0 /\ held1 = (IF m.kind = "discard" THEN {} ELSE v.stmts) /\ Cached(s) = held1
  <2>1. /\ n1 = 0 /\ held1 = IF m.kind = "discard" THEN {} ELSE v.stmts
    BY <1>3, <1>12 DEF Finds, ClientKinds
  <2>2. Cached(s) = held1
    BY <1>12, LeadsNone
  <2> QED  BY <2>1, <2>2
<1>14. Cached(s) = v2.stmts
  BY <1>7, <1>13
<1>15. Leads(us, w2, v2.stmts, 0, Cached(s), 0) /\ Kept(s, w2, v2, 0) /\ Calm(w2)
  <2>1. Len(<<>>) = 0 /\ 1..0 = {}
    OBVIOUS
  <2>2. Cached(s) \in SUBSET Queries
    BY RecordParts
  <2>3. Asked(us) = {} /\ Calm(w2)
    BY <1>4, <1>5, <2>1 DEF Asked, Calm
  <2> QED  BY <1>4, <1>5, <1>14, <2>1, <2>2, <2>3, LeadsNone DEF Kept, us
<1>16. /\ \A i \in 1..Len(r2) : r2[i].arg # "pooler" /\ r2[i].kind # "parsed"
       /\ Failed(r2, v2) => MaxPrepared = 0
  <2>1. CASE o.replies = <<[kind |-> "done", arg |-> "none"], [kind |-> "ready", arg |-> v2.tx]>>
    <3>1. /\ Len(r2) = 2 /\ r2[1].kind = "done"
          /\ \A i \in 1..Len(r2) : /\ r2[i].arg # "pooler" /\ r2[i].kind # "parsed"
                                   /\ i = 1 \/ r2[i].kind = "ready"
      BY <1>9, <2>1
    <3>2. \A i \in 1..Len(r2) : r2[i].kind # "error"
      BY <3>1
    <3> QED  BY <1>8, <3>1, <3>2 DEF Failed
  <2>2. CASE /\ MaxPrepared = 0
             /\ o.replies = <<[kind |-> "error", arg |-> "client"], [kind |-> "ready", arg |-> v2.tx]>>
    BY <1>9, <2>2
  <2> QED  BY <1>7, <2>1, <2>2
<1>17. Acked(r2, 0)
  <2>1. At(r2, "parsed") = {}
    BY <1>16 DEF At
  <2> QED  BY <2>1, AckedNone
<1>18. Account(s, w2, r2, v2, 0) /\ 0 \in 0..Len(us)
  BY <1>5, <1>15, <1>17 DEF Account, us
<1>19. Ledger(s, w2, r2, v2)
  BY <1>15, <1>16, <1>18 DEF Ledger, us
<1> QED  BY <1>7, <1>19 DEF r2, w2, v2

\* Whatever the server reads.
LEMMA LedgerServed ==
  ASSUME NEW c \in Sessions, NEW p \in Seq(Item), NEW s \in Statements, NEW d,
         NEW w \in Seq(MessageOf), w # <<>>, NEW r \in Seq(ReplyOf), NEW t, NEW v \in Server,
         Exchange(c, p, s, d, w, r, t, v), Ledger(s, w, r, v), Spotless(v),
         NEW o \in Outcomes(v, Head(w))
  PROVE  Ledger(s, Tail(w), Replied(r, o.replies, c), o.srv) /\ Spotless(o.srv)
<1>1. CASE Head(w).kind = "sync"
  BY <1>1, ServedSync
<1>2. CASE Head(w).kind # "sync" /\ v.skip
  BY <1>2, ServedSkipped
<1>3. CASE ~v.skip /\ Head(w).kind \in ExtendedKinds
  BY <1>3, ServedLine
<1>4. CASE ~v.skip /\ Head(w).kind \notin Line
  BY <1>4, ServedSimple
<1> QED  BY <1>1, <1>2, <1>3, <1>4 DEF Line

-----------------------------------------------------------------------------
(* The proxy reads a reply: the ledger still balances *)

\* The first reply is read: an answer to a Parse, or not.
LEMMA AckedTail ==
  ASSUME NEW r \in Seq(ReplyOf), r # <<>>, NEW g, Acked(r, g)
  PROVE  /\ r[1].kind = "parsed" => g \in Nat \ {0} /\ Acked(Tail(r), g - 1)
         /\ r[1].kind # "parsed" => Acked(Tail(r), g)
<1> DEFINE n == Len(r)
           K == At(r, "parsed")
           K2 == At(Tail(r), "parsed")
<1>1. /\ n \in Nat \ {0} /\ Len(Tail(r)) = n - 1
      /\ \A i \in 1..(n - 1) : Tail(r)[i] = r[i + 1] /\ i + 1 \in 1..n
  BY WireTail
<1>2. PICK u \in Seq(Kinds) : Len(u) = g /\ Lists(u, K, KindOf(r))
  BY DEF Acked
<1>3. K \in SUBSET (1..n) /\ (r[1].kind = "parsed" <=> 1 \in K)
  BY <1>1 DEF At
<1>4. \A k \in 1..n : k + 1 <= n => KindOf(Tail(r))[k] = KindOf(r)[k+1]
  <2> TAKE k \in 1..n
  <2> HAVE k + 1 <= n
  <2>1. k \in 1..(n-1) /\ k + 1 \in 1..n
    BY <1>1
  <2> QED  BY <1>1, <2>1 DEF KindOf
<1>5. K2 = Shift(K)
  <2>1. ASSUME NEW k \in K2  PROVE k \in Shift(K)
    <3>1. k \in 1..(n-1) /\ Tail(r)[k].kind = "parsed"
      BY <1>1 DEF At
    <3>2. k + 1 \in K \ {1} /\ k = (k + 1) - 1
      BY <1>1, <3>1 DEF At
    <3> QED  BY <3>2 DEF Shift
  <2>2. ASSUME NEW k \in Shift(K)  PROVE k \in K2
    <3>1. PICK j \in K \ {1} : k = j - 1
      BY DEF Shift
    <3>2. j \in 1..n /\ r[j].kind = "parsed"
      BY <3>1 DEF At
    <3>3. k \in 1..(n-1) /\ k + 1 = j
      BY <1>1, <3>1, <3>2
    <3> QED  BY <1>1, <3>2, <3>3 DEF At
  <2> QED  BY <2>1, <2>2
<1> HIDE DEF n, K, K2
<1>6. ASSUME 1 \in K  PROVE g \in Nat \ {0} /\ Acked(Tail(r), g - 1)
  <2>1. u # <<>>
    BY <1>1, <1>2, <1>3, <1>6, ListsFirst
  <2>2. Lists(Tail(u), K2, KindOf(Tail(r)))
    BY <1>1, <1>2, <1>3, <1>4, <1>5, <1>6, ListsTail
  <2>3. Tail(u) \in Seq(Kinds) /\ Len(u) \in Nat \ {0} /\ Len(Tail(u)) = Len(u) - 1
    BY <2>1
  <2> QED  BY <1>2, <2>2, <2>3 DEF Acked, K2
<1>7. ASSUME 1 \notin K  PROVE Acked(Tail(r), g)
  <2>1. Lists(u, K2, KindOf(Tail(r)))
    BY <1>1, <1>2, <1>3, <1>4, <1>5, <1>7, ListsShift
  <2> QED  BY <1>2, <2>1 DEF Acked, K2
<1> QED  BY <1>3, <1>6, <1>7

\* A ParseComplete is read.
LEMMA ReadsParsed ==
  ASSUME NEW s \in Statements, NEW w \in Seq(MessageOf), NEW r \in Seq(ReplyOf), r # <<>>,
         NEW v \in Server, Ledger(s, w, r, v), r[1].kind = "parsed"
  PROVE  Ledger(AfterParseReply(s), w, Tail(r), v)
<1> DEFINE us == s.parses
           s2 == AfterParseReply(s)
           r2 == Tail(r)
<1>1. PICK g \in 0..Len(us) : Account(s, w, r, v, g)
  BY DEF Ledger
<1>2. us \in Seq(Pending) /\ Len(us) \in Nat
  BY RecordParts
<1>3. g \in Nat \ {0} /\ Acked(r2, g - 1)
  BY <1>1, AckedTail DEF Account
<1>4. us # <<>> /\ Len(Tail(us)) = Len(us) - 1
      /\ \A i \in 1..(Len(us) - 1) : Tail(us)[i] = us[i+1] /\ i + 1 \in 1..Len(us)
  <2>1. Len(us) # 0
    BY <1>1, <1>2, <1>3
  <2>2. us # <<>>
    BY <2>1
  <2> QED  BY <1>2, <2>2
<1>5. s2.parses = Tail(us) /\ Cached(s2) = Cached(s)
  BY <1>4 DEF AfterParseReply, Statements, Cached
<1>6. Len(r) \in Nat \ {0} /\ Len(r2) = Len(r) - 1
      /\ \A i \in 1..(Len(r) - 1) : r2[i] = r[i + 1] /\ i + 1 \in 1..Len(r)
  BY WireTail
<1>7. Failed(r2, v) <=> Failed(r, v)
  <2>1. ASSUME NEW i \in 1..Len(r), r[i].kind = "error"  PROVE \E j \in 1..Len(r2) : r2[j].kind = "error"
    <3>1. i # 1
      BY <2>1
    <3>2. i - 1 \in 1..Len(r2) /\ r2[i-1] = r[i]
      BY <1>6, <3>1
    <3> QED  BY <2>1, <3>2
  <2>2. ASSUME NEW j \in 1..Len(r2), r2[j].kind = "error"  PROVE \E i \in 1..Len(r) : r[i].kind = "error"
    BY <1>6, <2>2
  <2> QED  BY <2>1, <2>2 DEF Failed
<1>8. Calm(w)
  BY <1>4 DEF Ledger
<1> HIDE DEF s2, r2, us
<1>9. Failed(r2, v) \/ Leads(s2.parses, w, v.stmts, g - 1, Cached(s2), Len(s2.parses))
  <2> SUFFICES ASSUME ~Failed(r, v)
               PROVE  Leads(Tail(us), w, v.stmts, g - 1, Cached(s), Len(us) - 1)
    BY <1>4, <1>5, <1>7
  <2>1. Leads(us, w, v.stmts, g, Cached(s), Len(us))
    BY <1>1 DEF Account, us
  <2> QED  BY <1>2, <1>3, <1>4, <2>1, LeadsShift
<1>10. ASSUME MaxPrepared = 0  PROVE Kept(s2, w, v, g - 1)
  <2>1. /\ \A i \in 1..Len(us) : us[i].query \in v.stmts <=> i <= g
        /\ \A i, j \in 1..Len(us) : us[i].query = us[j].query => i = j
        /\ Cached(s) = v.stmts \cup Asked(us)
    BY <1>1, <1>8, <1>10 DEF Account, Kept, us
  <2> DEFINE n == Len(us) - 1
             ut == Tail(us)
  <2>2. \A i \in 1..n : ut[i].query \in v.stmts <=> i <= g - 1
    <3> TAKE i \in 1..n
    <3>1. ut[i] = us[i+1] /\ i + 1 \in 1..Len(us)
      BY <1>4
    <3>2. i + 1 <= g <=> i <= g - 1
      BY <1>2, <1>3
    <3> QED  BY <2>1, <3>1, <3>2
  <2>3. \A i, j \in 1..n : ut[i].query = ut[j].query => i = j
    <3> TAKE i \in 1..n, j \in 1..n
    <3> HAVE ut[i].query = ut[j].query
    <3>1. us[i+1].query = us[j+1].query /\ i + 1 \in 1..Len(us) /\ j + 1 \in 1..Len(us)
      BY <1>4
    <3>2. i + 1 = j + 1
      BY <2>1, <3>1
    <3> QED  BY <1>2, <3>2
  <2>4. Asked(us) \subseteq v.stmts \cup Asked(ut) /\ Asked(ut) \subseteq Asked(us)
    <3>1. Asked(ut) = {ut[i].query : i \in 1..n} /\ Asked(us) = {us[i].query : i \in 1..Len(us)}
      BY <1>4 DEF Asked
    <3>2. us[1].query \in v.stmts
      BY <1>2, <1>3, <1>1, <2>1
    <3>3. ASSUME NEW i \in 1..Len(us)  PROVE us[i].query \in v.stmts \cup Asked(ut)
      <4>1. CASE i = 1
        BY <3>2, <4>1
      <4>2. CASE i # 1
        <5>1. i - 1 \in 1..n /\ (i - 1) + 1 = i
          BY <1>2, <4>2
        <5>2. ut[i-1] = us[i]
          BY <1>4, <5>1
        <5> QED  BY <3>1, <5>1, <5>2
      <4> QED  BY <4>1, <4>2
    <3>4. \A i \in 1..n : ut[i].query \in Asked(us)
      BY <1>4, <3>1
    <3> QED  BY <3>1, <3>3, <3>4
  <2>5. Cached(s2) = v.stmts \cup Asked(s2.parses)
    BY <1>5, <2>1, <2>4
  <2>6. Len(s2.parses) = n /\ s2.parses = ut
    BY <1>4, <1>5
  <2> HIDE DEF n, ut
  <2> QED  BY <2>2, <2>3, <2>5, <2>6 DEF Kept
<1>11. g - 1 \in 0..Len(s2.parses)
  BY <1>1, <1>2, <1>3, <1>4, <1>5
<1>12. Account(s2, w, r2, v, g - 1)
  BY <1>3, <1>9, <1>10 DEF Account
<1>13. \A i \in 1..Len(r2) : r2[i].arg # "pooler"
  <2>1. \A i \in 1..Len(r) : r[i].arg # "pooler"
    BY DEF Ledger
  <2> QED  BY <1>6, <2>1
<1>14. Failed(r2, v) => MaxPrepared = 0
  BY <1>7 DEF Ledger
<1> QED  BY <1>8, <1>11, <1>12, <1>13, <1>14 DEF Ledger, s2, r2

\* Another reply is read, that is not an error.
LEMMA ReadsOther ==
  ASSUME NEW s \in Statements, NEW s2, NEW w \in Seq(MessageOf), NEW r \in Seq(ReplyOf), r # <<>>,
         NEW v \in Server, Ledger(s, w, r, v), r[1].kind \notin {"parsed", "error"},
         s2.parses = s.parses, s2.cache = s.cache
  PROVE  Ledger(s2, w, Tail(r), v)
<1> DEFINE r2 == Tail(r)
<1>1. PICK g \in 0..Len(s.parses) : Account(s, w, r, v, g)
  BY DEF Ledger
<1>2. Acked(r2, g)
  BY <1>1, AckedTail DEF Account
<1>3. Len(r) \in Nat \ {0} /\ Len(r2) = Len(r) - 1
      /\ \A i \in 1..(Len(r) - 1) : r2[i] = r[i + 1] /\ i + 1 \in 1..Len(r)
  BY WireTail
<1>4. Failed(r2, v) <=> Failed(r, v)
  <2>1. ASSUME NEW i \in 1..Len(r), r[i].kind = "error"  PROVE \E j \in 1..Len(r2) : r2[j].kind = "error"
    <3>1. i # 1
      BY <2>1
    <3>2. i - 1 \in 1..Len(r2) /\ r2[i-1] = r[i]
      BY <1>3, <3>1
    <3> QED  BY <2>1, <3>2
  <2>2. ASSUME NEW j \in 1..Len(r2), r2[j].kind = "error"  PROVE \E i \in 1..Len(r) : r[i].kind = "error"
    BY <1>3, <2>2
  <2> QED  BY <2>1, <2>2 DEF Failed
<1> HIDE DEF r2
<1>5. Cached(s2) = Cached(s)
  BY DEF Cached
<1>6. Account(s2, w, r2, v, g)
  BY <1>1, <1>2, <1>4, <1>5 DEF Account, Kept
<1>7. \A i \in 1..Len(r2) : r2[i].arg # "pooler"
  <2>1. \A i \in 1..Len(r) : r[i].arg # "pooler"
    BY DEF Ledger
  <2> QED  BY <1>3, <2>1
<1>8. /\ Failed(r2, v) => MaxPrepared = 0
      /\ ~Calm(w) => Len(w) = 1 /\ s2.parses = <<>> /\ v.tx = "idle"
      /\ g \in 0..Len(s2.parses)
  BY <1>1, <1>4 DEF Ledger
<1> QED  BY <1>6, <1>7, <1>8 DEF Ledger, r2

\* An error is read: what was not prepared leaves the cache.
LEMMA ReadsError ==
  ASSUME NEW c, NEW p \in Seq(Item), NEW s \in Statements, NEW d,
         NEW w \in Seq(MessageOf), NEW r \in Seq(ReplyOf), r # <<>>, NEW t, NEW v \in Server,
         Exchange(c, p, s, d, w, r, t, v), Ledger(s, w, r, v), Neat(s.cache), r[1].kind = "error"
  PROVE  /\ Ledger(RollBackAfterError(s), w, Tail(r), v)
         /\ Neat(RollBackAfterError(s).cache)
<1> DEFINE us == s.parses
           s2 == RollBackAfterError(s)
           r2 == Tail(r)
<1>1. p # <<>> /\ Failing(c, p, d, w, r, v, 1)
  <2>1. /\ p # <<>>
        /\ r[1].kind = p[1].kind \/ (r[1].kind = "error" /\ Failing(c, p, d, w, r, v, 1))
    BY HeadAnswers
  <2>2. p[1] \in Item
    BY <2>1, PlanTail
  <2>3. p[1].kind # "error"
    BY <2>2 DEF Item, Kinds
  <2> QED  BY <2>1, <2>3
<1>2. /\ Neat(s2.cache) /\ s2.parses = <<>> /\ Cached(s2) = Cached(s) \ Asked(us)
  BY RollBackNeat
<1>3. Len(r) \in Nat \ {0} /\ Len(r2) = Len(r) - 1
      /\ \A i \in 1..(Len(r) - 1) : r2[i] = r[i + 1] /\ i + 1 \in 1..Len(r)
  BY WireTail
<1> HIDE DEF s2, r2
<1>4. MaxPrepared = 0
  <2>1. 1 \in 1..Len(r)
    BY <1>3
  <2>2. Failed(r, v)
    BY <2>1 DEF Failed
  <2> QED  BY <2>2 DEF Ledger
<1>5. \/ v.skip /\ Len(r) = 1
      \/ ~v.skip /\ w = <<>> /\ Len(r) = 2 /\ r[2].kind = "ready"
  <2>1. 1 + 1 = 2
    OBVIOUS
  <2> QED  BY <1>1, <2>1 DEF Failing
<1>0. Len(r) = 1 \/ (Len(r) = 2 /\ r[2].kind = "ready")
  BY <1>5
<1>6. At(r, "parsed") = {}
  <2>1. \A i \in 1..Len(r) : i = 1 \/ (i = 2 /\ r[2].kind = "ready")
    <3>1. \A i \in 1..1 : i = 1
      OBVIOUS
    <3>2. \A i \in 1..2 : i = 1 \/ i = 2
      OBVIOUS
    <3> QED  BY <1>0, <3>1, <3>2
  <2> QED  BY <2>1 DEF At
<1>7. At(r2, "parsed") = {} /\ \A i \in 1..Len(r2) : r2[i].kind # "error"
  <2>1. \A i \in 1..Len(r2) : r2[i].kind = "ready"
    <3> TAKE i \in 1..Len(r2)
    <3>0. i \in 1..(Len(r) - 1)
      BY <1>3
    <3>1. i = 1 /\ Len(r) = 2 /\ r[2].kind = "ready"
      <4>1. 1..(1 - 1) = {} /\ \A j \in 1..(2 - 1) : j = 1
        OBVIOUS
      <4> QED  BY <1>0, <3>0, <4>1
    <3>2. r2[1] = r[1+1] /\ 1 + 1 = 2
      BY <1>3, <3>1
    <3> QED  BY <3>1, <3>2
  <2> QED  BY <2>1 DEF At
<1>8. Acked(r2, 0)
  BY <1>7, AckedNone
<1>9. PICK g \in 0..Len(us) : Account(s, w, r, v, g)
  BY DEF Ledger
<1>10. g = 0
  BY <1>6, <1>9, AckedNone DEF Account
<1>11. Calm(w)
  <2>1. \A i \in 1..Len(w) : w[i].kind \in Line
    BY <1>1 DEF Failing, Waiting, Asks
  <2> QED  BY <2>1 DEF Calm, Line, ExtendedKinds
<1>12. Cached(s2) = v.stmts
  <2>1. /\ \A i \in 1..Len(us) : us[i].query \in v.stmts <=> i <= 0
        /\ Cached(s) = v.stmts \cup Asked(us)
    BY <1>4, <1>9, <1>10, <1>11 DEF Account, Kept
  <2>2. \A i \in 1..Len(us) : us[i].query \notin v.stmts
    BY <2>1
  <2>3. \A y \in Asked(us) : y \notin v.stmts
    BY <2>2 DEF Asked
  <2> QED  BY <1>2, <2>1, <2>3
<1>13. Len(s2.parses) = 0 /\ 1..0 = {} /\ 0 \in 0..0
  BY <1>2
<1>14. Kept(s2, w, v, 0)
  <2>1. Asked(s2.parses) = {}
    BY <1>13 DEF Asked
  <2> QED  BY <1>12, <1>13, <2>1 DEF Kept
<1>15. Failed(r2, v) \/ Leads(s2.parses, w, v.stmts, 0, Cached(s2), Len(s2.parses))
  <2>1. CASE v.skip
    BY <2>1 DEF Failed
  <2>2. CASE ~v.skip
    <3>1. w = <<>> /\ v.stmts \in SUBSET Queries
      BY <1>5, <2>2 DEF Server
    <3> QED  BY <1>12, <1>13, <3>1, LeadsNone
  <2> QED  BY <2>1, <2>2
<1>16. Account(s2, w, r2, v, 0)
  BY <1>8, <1>14, <1>15 DEF Account
<1>17. \A i \in 1..Len(r2) : r2[i].arg # "pooler"
  <2>1. \A i \in 1..Len(r) : r[i].arg # "pooler"
    BY DEF Ledger
  <2> QED  BY <1>3, <2>1
<1>18. Ledger(s2, w, r2, v)
  BY <1>4, <1>11, <1>13, <1>16, <1>17 DEF Ledger
<1> QED  BY <1>2, <1>18 DEF s2, r2

\* Whatever the proxy reads.
LEMMA LedgerReads ==
  ASSUME NEW c, NEW p \in Seq(Item), NEW s \in Statements, NEW d,
         NEW w \in Seq(MessageOf), NEW r \in Seq(ReplyOf), r # <<>>, NEW t, NEW v \in Server,
         Exchange(c, p, s, d, w, r, t, v), Ledger(s, w, r, v), Neat(s.cache)
  PROVE  /\ Ledger(AfterReply(s, Head(r)), w, Tail(r), v)
         /\ Neat(AfterReply(s, Head(r)).cache) /\ Head(r).arg # "pooler"
<1>1. Head(r) = r[1] /\ 1 \in 1..Len(r)
  <2>1. Len(r) \in Nat \ {0} /\ Head(r) = r[1]
    BY WireTail
  <2> QED  BY <2>1
<1>2. r[1].arg # "pooler"
  BY <1>1 DEF Ledger
<1>3. CASE r[1].kind = "parsed"
  <2>1. AfterReply(s, Head(r)) = AfterParseReply(s) /\ AfterParseReply(s).cache = s.cache
    BY <1>1, <1>3 DEF AfterReply, AfterParseReply, Statements
  <2> QED  BY <1>1, <1>2, <1>3, <2>1, ReadsParsed
<1>4. CASE r[1].kind = "error"
  <2>1. AfterReply(s, Head(r)) = RollBackAfterError(s)
    BY <1>1, <1>4 DEF AfterReply
  <2> QED  BY <1>1, <1>2, <1>4, <2>1, ReadsError
<1>5. CASE r[1].kind \notin {"parsed", "error"}
  <2>1. /\ AfterReply(s, Head(r)).parses = s.parses /\ AfterReply(s, Head(r)).cache = s.cache
    BY <1>1, <1>5 DEF AfterReply, AfterCloseReply, Statements
  <2> QED  BY <1>1, <1>2, <1>5, <2>1, ReadsOther
<1> QED  BY <1>3, <1>4, <1>5

-----------------------------------------------------------------------------
(* The cache and the server, whatever happens *)

Unblamed == \A c \in Sessions : ~driver[c].blamed

\* A connection that is not lent has the statements of its cache.
Level(ph, s, w, r, v) ==
  /\ Neat(s.cache) /\ Spotless(v)
  /\ IF ph = "lent" THEN Ledger(s, w, r, v) ELSE Cached(s) = v.stmts

LinkLevel(x) == Level(phase[x], st[x], toServer[x], toProxy[x], srv[x])

\* A lent connection has a session.
Held(x) == phase[x] = "lent" => \E c \in Sessions : conn[c] = x

CacheInv ==
  /\ mode \in PoolModes /\ Unblamed
  /\ \A x \in Conns : Held(x) /\ LinkLevel(x)

\* The clients that undo no DISCARD ALL; in session mode, where the pooler does not
\* look for one, there is none.  When the pooler limits the statements it keeps, no
\* statement is an error of its client's: what a failed Parse evicted does not come
\* back.
Careful ==
  /\ Habits \subseteq {"unknown"}
  /\ PoolModes \subseteq {"transaction"} \/ "discard" \notin Requests
  /\ MaxPrepared > 0 => Habits = {} /\ BadQueries = {} /\ Mishaps = {}

\* What such a client asks for.
LEMMA CarefulAsks ==
  ASSUME Careful, NEW c, NEW kind
  PROVE  /\ Tame
         /\ MayQuery(c, kind) => ~Undoes(c, kind)
         /\ MayQuery(c, kind) /\ kind = "discard" /\ mode \in PoolModes => Tracks
         /\ \A s : MayName(c, s) /\ names[c][s] = NoQuery => MaxPrepared = 0
<1>1. Tame /\ (MayQuery(c, kind) => ~Undoes(c, kind))
  BY DEF Careful, Tame, MayQuery
<1>2. MayQuery(c, kind) /\ kind = "discard" /\ mode \in PoolModes => Tracks
  BY DEF Careful, MayQuery, MayAsk, Tracks
<1>3. \A s : MayName(c, s) /\ names[c][s] = NoQuery => MaxPrepared = 0
  BY LimitOrNone DEF Careful, MayName
<1> QED  BY <1>1, <1>2, <1>3

\* Nothing a client asks is the blame of the pooler ...
LEMMA AsksBlame ==
  ASSUME NEW d \in ClientOf, NEW k \in Kinds
  PROVE  /\ AsksExtended(d, k) \in ClientOf /\ AsksExtended(d, k).blamed = d.blamed
         /\ AsksSync(d) \in ClientOf /\ AsksSync(d).blamed = d.blamed
         /\ AsksSimple(d) \in ClientOf /\ AsksSimple(d).blamed = d.blamed
<1>1. d.owed \in Seq(Kinds) /\ "ready" \in Kinds /\ "done" \in Kinds
  BY DEF ClientOf, Kinds
<1>2. /\ Append(d.owed, k) \in Seq(Kinds) /\ Append(d.owed, "ready") \in Seq(Kinds)
      /\ d.owed \o <<"done", "ready">> \in Seq(Kinds)
  BY <1>1
<1>3. AsksExtended(d, k) \in ClientOf /\ AsksExtended(d, k).blamed = d.blamed
  BY <1>2 DEF AsksExtended, ClientOf
<1>4. AsksSync(d) \in ClientOf /\ AsksSync(d).blamed = d.blamed
  BY <1>2 DEF AsksSync, ClientOf
<1>5. AsksSimple(d) \in ClientOf /\ AsksSimple(d).blamed = d.blamed
  BY <1>2 DEF AsksSimple, ClientOf
<1> QED  BY <1>3, <1>4, <1>5

\* ... and no reply is, unless it says so.
LEMMA GetsBlame ==
  ASSUME NEW d \in ClientOf, NEW k
  PROVE  /\ Gets(d, k).blamed = d.blamed
         /\ k # "error" => Gets(d, k) \in ClientOf
<1>1. d.owed \in Seq(Kinds) /\ (d.owed # <<>> => Tail(d.owed) \in Seq(Kinds))
  BY DEF ClientOf
<1>2. GetsError(d).blamed = d.blamed
  BY DEF GetsError, ClientOf
<1>3. k # "error" => Gets(d, k) \in ClientOf /\ Gets(d, k).blamed = d.blamed
  BY <1>1 DEF Gets, ClientOf
<1>4. k = "error" => Gets(d, k).blamed = d.blamed
  BY <1>2 DEF Gets
<1> QED  BY <1>3, <1>4

\* One session's driver changes.
LEMMA UnblamedKeeps ==
  ASSUME ExchangeInv, Unblamed, NEW c \in Sessions, NEW d2, driver' = [driver EXCEPT ![c] = d2],
         ~d2.blamed
  PROVE  Unblamed'
<1>1. driver \in [Sessions -> ClientOf]
  BY DEF ExchangeInv, LinksTyped
<1>2. \A e \in Sessions : driver'[e] = IF e = c THEN d2 ELSE driver[e]
  BY <1>1
<1> QED  BY <1>2 DEF Unblamed

\* A step on one connection.
LEMMA LevelKeeps ==
  ASSUME ExchangeInv, CacheInv, mode' = mode, Unblamed', NEW x \in Conns,
         \A y \in Conns : Held(y)',
         NEW ph2, phase' = [phase EXCEPT ![x] = ph2],
         NEW s2, st' = [st EXCEPT ![x] = s2],
         NEW w2, toServer' = [toServer EXCEPT ![x] = w2],
         NEW r2, toProxy' = [toProxy EXCEPT ![x] = r2],
         NEW v2, srv' = [srv EXCEPT ![x] = v2],
         Level(ph2, s2, w2, r2, v2)
  PROVE  CacheInv'
<1>1. /\ phase \in [Conns -> Phases] /\ toServer \in [Conns -> Seq(MessageOf)]
      /\ srv \in [Conns -> Server] /\ st \in [Conns -> Statements]
      /\ toProxy \in [Conns -> Seq(ReplyOf)]
  BY DEF ExchangeInv, LinksTyped, LeaseInv, Phases
<1>2. \A y \in Conns : LinkLevel(y)'
  <2> TAKE y \in Conns
  <2>1. CASE y = x
    <3>1. /\ phase'[y] = ph2 /\ st'[y] = s2 /\ toServer'[y] = w2 /\ toProxy'[y] = r2
          /\ srv'[y] = v2
      BY <1>1, <2>1
    <3> QED  BY <3>1 DEF LinkLevel
  <2>2. CASE y # x
    <3>1. /\ phase'[y] = phase[y] /\ st'[y] = st[y] /\ toServer'[y] = toServer[y]
          /\ toProxy'[y] = toProxy[y] /\ srv'[y] = srv[y]
      BY <1>1, <2>2
    <3>2. LinkLevel(y)
      BY DEF CacheInv
    <3> QED  BY <3>1, <3>2 DEF LinkLevel
  <2> QED  BY <2>1, <2>2
<1> QED  BY <1>2 DEF CacheInv

\* A step of a client alone.
LEMMA LevelSame ==
  ASSUME CacheInv, mode' = mode, Unblamed', UNCHANGED <<conn, phase, st, toServer, toProxy, srv>>
  PROVE  CacheInv'
<1>1. \A y \in Conns : Held(y)' /\ LinkLevel(y)'
  <2> TAKE y \in Conns
  <2>1. LinkLevel(y) /\ Held(y)
    BY DEF CacheInv
  <2> QED  BY <2>1 DEF LinkLevel, Held
<1> QED  BY <1>1 DEF CacheInv

\* A session that takes a connection has it.
LEMMA HeldSends ==
  ASSUME ExchangeInv, CacheInv, NEW c \in Sessions, NEW x, Reaches(c, x),
         conn' = [conn EXCEPT ![c] = x], phase' = [phase EXCEPT ![x] = "lent"]
  PROVE  \A y \in Conns : Held(y)'
<1>1. /\ conn \in [Sessions -> Conns \cup {NoConn}] /\ phase \in [Conns -> Phases]
      /\ x \in Conns /\ (conn[c] = x \/ conn[c] = NoConn)
  BY DEF ExchangeInv, LeaseInv, Phases, Reaches
<1>2. ASSUME NEW y \in Conns  PROVE Held(y)'
  <2>1. CASE y = x
    BY <1>1, <2>1 DEF Held
  <2>2. CASE y # x
    <3>1. phase'[y] = phase[y] /\ Held(y)
      BY <1>1, <2>2 DEF CacheInv
    <3>2. ASSUME NEW e \in Sessions, conn[e] = y  PROVE conn'[e] = y
      <4>1. e # c
        BY <1>1, <2>2, <3>2, ProxyAssumption
      <4> QED  BY <1>1, <3>2, <4>1
    <3> QED  BY <3>1, <3>2 DEF Held
  <2> QED  BY <2>1, <2>2
<1> QED  BY <1>2

\* A connection that is given back need have none.
LEMMA HeldLeaves ==
  ASSUME ExchangeInv, CacheInv, NEW x \in Conns, NEW ph2, ph2 # "lent",
         phase' = [phase EXCEPT ![x] = ph2],
         \A e \in Sessions : conn[e] # x => conn'[e] = conn[e]
  PROVE  \A y \in Conns : Held(y)'
<1>1. phase \in [Conns -> Phases]
  BY DEF ExchangeInv, LeaseInv, Phases
<1>2. ASSUME NEW y \in Conns  PROVE Held(y)'
  <2>1. CASE y = x
    BY <1>1, <2>1 DEF Held
  <2>2. CASE y # x
    <3>1. phase'[y] = phase[y] /\ Held(y)
      BY <1>1, <2>2 DEF CacheInv
    <3> QED  BY <2>2, <3>1 DEF Held
  <2> QED  BY <2>1, <2>2
<1> QED  BY <1>2

\* On a connection where nothing is under way any more, the cache is right.
LEMMA LedgerEnds ==
  ASSUME NEW s, NEW v \in Server, Ledger(s, <<>>, <<>>, v), ~v.skip
  PROVE  Cached(s) = v.stmts
<1>1. ~Failed(<<>>, v)
  <2>1. Len(<<>>) = 0 /\ 1..0 = {}
    OBVIOUS
  <2> QED  BY <2>1 DEF Failed
<1>2. PICK g \in 0..Len(s.parses) : Account(s, <<>>, <<>>, v, g)
  BY DEF Ledger
<1>3. Acked(<<>>, g) /\ Leads(s.parses, <<>>, v.stmts, g, Cached(s), Len(s.parses))
  BY <1>1, <1>2 DEF Account
<1>4. At(<<>>, "parsed") = {}
  BY DEF At
<1>5. g = 0
  BY <1>3, <1>4, AckedNone
<1>6. v.stmts \in SUBSET Queries /\ g \in Nat
  BY <1>5 DEF Server
<1> QED  BY <1>3, <1>6, LeadsNone

-----------------------------------------------------------------------------
(* A client asks *)

\* What a connection that a session may use has on its ledger.
LEMMA CarrierLevel ==
  ASSUME ExchangeInv, CacheInv, NEW c \in Sessions, NEW x, Reaches(c, x)
  PROVE  /\ Neat(StatementsOf(c, x).cache) /\ Spotless(srv[x])
         /\ Ledger(StatementsOf(c, x), toServer[x], toProxy[x], srv[x])
<1>1. x \in Conns /\ LinkLevel(x) /\ LinkRests(x) /\ srv[x] \in Server /\ st[x] \in Statements
  BY DEF CacheInv, ExchangeInv, LinksTyped, Reaches
<1>2. StatementsOf(c, x) \in Statements
  BY CarrierFits
<1>3. CASE conn[c] = x
  <2>1. phase[x] = "lent"
    BY <1>1, <1>3, ProxyAssumption DEF ExchangeInv, LeaseInv, OneSession
  <2>2. StatementsOf(c, x) = st[x]
    BY <1>3 DEF StatementsOf
  <2> QED  BY <1>1, <2>1, <2>2 DEF LinkLevel, Level
<1>4. CASE conn[c] # x
  <2>1. phase[x] = "idle" /\ toServer[x] = <<>> /\ toProxy[x] = <<>> /\ ~srv[x].skip
    BY <1>1, <1>4 DEF Reaches, LinkRests, Rests, Quiet
  <2>2. /\ StatementsOf(c, x).parses = <<>> /\ StatementsOf(c, x).cache = st[x].cache
    BY <1>1, <1>4 DEF StatementsOf, ResetPending, Statements
  <2>3. Neat(st[x].cache) /\ Spotless(srv[x]) /\ Cached(st[x]) = srv[x].stmts
    BY <1>1, <2>1 DEF LinkLevel, Level
  <2>4. Cached(StatementsOf(c, x)) = srv[x].stmts
    BY <2>2, <2>3 DEF Cached
  <2>5. Ledger(StatementsOf(c, x), <<>>, <<>>, srv[x])
    BY <1>1, <1>2, <2>1, <2>2, <2>4, LedgerQuiet
  <2> QED  BY <2>1, <2>2, <2>3, <2>5
<1> QED  BY <1>3, <1>4

\* A session sends, and the ledger still balances.
LEMMA SendLevel ==
  ASSUME ExchangeInv, CacheInv, mode' = mode, Unblamed', NEW c \in Sessions, NEW x, Reaches(c, x),
         NEW s2, NEW ms, Send(c, x, s2, ms), NEW w2, w2 = toServer[x] \o ms,
         Neat(s2.cache), Ledger(s2, w2, toProxy[x], srv[x])
  PROVE  CacheInv'
<1>1. /\ conn' = [conn EXCEPT ![c] = x] /\ phase' = [phase EXCEPT ![x] = "lent"]
      /\ st' = [st EXCEPT ![x] = s2] /\ toProxy' = toProxy /\ srv' = srv
      /\ toServer' = [toServer EXCEPT ![x] = w2] /\ x \in Conns
  BY DEF Send, Reaches
<1>2. \A y \in Conns : Held(y)'
  BY <1>1, HeldSends
<1>3. Level("lent", s2, w2, toProxy[x], srv[x])
  BY CarrierLevel DEF Level
<1>4. toProxy' = [toProxy EXCEPT ![x] = toProxy[x]] /\ srv' = [srv EXCEPT ![x] = srv[x]]
  BY <1>1 DEF ExchangeInv, LinksTyped
<1> QED  BY <1>1, <1>2, <1>3, <1>4, LevelKeeps

\* What the extended protocol sends has the statements it names.
LEMMA ExtendedLevel ==
  ASSUME Careful, StoreTypeOK, ExchangeInv, CacheInv, mode' = mode, NEW c \in Sessions,
         \/ \E s \in Names : (\E q \in Queries : Parse(c, s, q)) \/ Bind(c, s)
         \/ ClosePortal(c)
         \/ Sync(c)
  PROVE  CacheInv'
<1> DEFINE d == driver[c]
<1>1. \A kind : /\ MayAsk(c, kind) => "ready" \notin Range(driver[c].owed)
                /\ MayExtend(c, kind) => "ready" \notin Range(driver[c].owed)
  BY CarefulAsks, TameAsks
<1>2. \A x \in Carriers(c) :
         /\ Reaches(c, x) /\ StatementsOf(c, x) \in Statements
         /\ toServer[x] \in Seq(MessageOf) /\ toProxy[x] \in Seq(ReplyOf) /\ srv[x] \in Server
         /\ Attached(c, StatementsOf(c, x), driver[c], toServer[x], toProxy[x], lastTx[x], srv[x])
         /\ Neat(StatementsOf(c, x).cache)
         /\ Ledger(StatementsOf(c, x), toServer[x], toProxy[x], srv[x])
  BY CarriersReach, CarrierFits, CarrierLevel
<1>3. d \in ClientOf /\ ~d.blamed /\ Unblamed
  BY DEF ExchangeInv, LinksTyped, CacheInv, Unblamed
<1>4. ASSUME "ready" \notin Range(driver[c].owed), NEW x \in Carriers(c)
      PROVE  Calm(toServer[x])
  <2>1. toServer[x] \in Seq(LineMessage)
    BY <1>2, <1>3, <1>4, WireLine
  <2>2. \A i \in 1..Len(toServer[x]) : toServer[x][i] \in LineMessage
    BY <2>1
  <2> QED  BY <2>2 DEF Calm, LineMessage, Line, ExtendedKinds
<1>5. \A k \in {"parsed", "bound", "closed"} :
         ~AsksExtended(d, k).blamed /\ AsksExtended(d, k) \in ClientOf
  BY <1>3, AsksBlame DEF Kinds
<1>6. ASSUME NEW s \in Names, NEW q \in Queries, Parse(c, s, q)
      PROVE  CacheInv'
  <2>1. PICK x \in Carriers(c) :
          LET prep == Prepare(StatementsOf(c, x), q, "forward")
              asked == AsksExtended(driver[c], "parsed")
          IN  /\ Send(c, x, prep.st, Preparation(c, q, prep))
              /\ driver' = [driver EXCEPT ![c] = IF prep.hit THEN Gets(asked, "parsed") ELSE asked]
    BY <1>6 DEF Parse
  <2> DEFINE held == StatementsOf(c, x)
             prep == Prepare(held, q, "forward")
             P == Preparation(c, q, prep)
             asked == AsksExtended(d, "parsed")
             d2 == IF prep.hit THEN Gets(asked, "parsed") ELSE asked
  <2>2. Send(c, x, prep.st, P) /\ driver' = [driver EXCEPT ![c] = d2]
    BY <2>1
  <2>3. ~d2.blamed
    BY <1>5, GetsBlame
  <2> HIDE DEF d2
  <2>4. Unblamed'
    BY <1>3, <2>2, <2>3, UnblamedKeeps
  <2>5. Calm(toServer[x])
    BY <1>1, <1>4, <1>6 DEF Parse
  <2>6. PICK w2 : w2 = toServer[x] \o P
    OBVIOUS
  <2> DEFINE w == toServer[x]
             r == toProxy[x]
             v == srv[x]
  <2>7. /\ held \in Statements /\ w \in Seq(MessageOf) /\ v \in Server /\ Ledger(held, w, r, v)
        /\ Calm(w) /\ Neat(held.cache) /\ "forward" \in Disposition
    BY <1>2, <2>5 DEF Disposition
  <2> HIDE DEF held, w, r, v
  <2>8. Neat(prep.st.cache) /\ Ledger(prep.st, w2, r, v)
    <3>1. w2 = w \o Preparation(c, q, Prepare(held, q, "forward"))
      BY <2>6 DEF w
    <3> QED  BY <2>7, <3>1, LedgerHas
  <2> HIDE DEF prep, P
  <2> QED  BY <1>2, <2>2, <2>4, <2>6, <2>8, SendLevel DEF r, v
<1>7. ASSUME NEW s \in Names, Bind(c, s)
      PROVE  CacheInv'
  <2> DEFINE q == names[c][s]
  <2>1. PICK x \in Carriers(c) :
          LET held == StatementsOf(c, x)
              prep == Prepare(held, q, "suppress")
          IN  IF q = NoQuery
              THEN Send(c, x, held, <<Message("bind", q, c)>>)
              ELSE Send(c, x, prep.st, Append(Preparation(c, q, prep), Message("bind", q, c)))
    BY <1>7 DEF Bind
  <2> DEFINE held == StatementsOf(c, x)
             prep == Prepare(held, q, "suppress")
             P == Preparation(c, q, prep)
             m == Message("bind", q, c)
             w == toServer[x]
             r == toProxy[x]
             v == srv[x]
  <2>2. driver' = [driver EXCEPT ![c] = AsksExtended(d, "bound")]
    BY <1>7 DEF Bind
  <2>3. Unblamed'
    BY <1>3, <1>5, <2>2, UnblamedKeeps
  <2>4. Calm(w)
    BY <1>1, <1>4, <1>7 DEF Bind
  <2>5. q \in Queries \cup {NoQuery} /\ (q = NoQuery => MaxPrepared = 0)
    BY <1>7, CarefulAsks DEF StoreTypeOK, Bind
  <2>6. /\ held \in Statements /\ w \in Seq(MessageOf) /\ v \in Server /\ Ledger(held, w, r, v)
        /\ Calm(w) /\ Neat(held.cache) /\ "suppress" \in Disposition
    BY <1>2, <2>4 DEF Disposition
  <2>7. IF q = NoQuery THEN Send(c, x, held, <<m>>) ELSE Send(c, x, prep.st, Append(P, m))
    BY <2>1
  <2> HIDE DEF q, held, w, r, v
  <2>8. m \in MessageOf /\ m.kind = "bind" /\ m.arg = q
    BY <2>5 DEF Message, MessageOf, Senders
  <2> HIDE DEF m
  <2>9. CASE q = NoQuery
    <3>1. Ledger(held, Append(w, m), r, v)
      BY <2>5, <2>6, <2>8, <2>9, LedgerSends
    <3>2. PICK w2 : w2 = w \o <<m>>
      OBVIOUS
    <3>3. w2 = Append(w, m)
      BY <2>6, <2>8, <3>2
    <3>4. Ledger(held, w2, r, v)
      BY <3>1, <3>3
    <3> QED  BY <1>2, <2>3, <2>6, <2>7, <2>9, <3>2, <3>4, SendLevel DEF w, r, v
  <2>10. CASE q # NoQuery
    <3>0. q \in Queries
      BY <2>5, <2>10
    <3>1. P \in Seq(MessageOf)
      BY <2>6, <3>0, PreparationTyped
    <3>2. PICK w1 : w1 = w \o P
      OBVIOUS
    <3>3. /\ prep.st \in Statements /\ w1 \in Seq(MessageOf) /\ Ledger(prep.st, w1, r, v)
          /\ Calm(w1) /\ Neat(prep.st.cache) /\ q \in Cached(prep.st)
      BY <2>6, <3>0, <3>2, LedgerHas, ZenonT(60)
    <3> HIDE DEF prep, P
    <3>4. Ledger(prep.st, Append(w1, m), r, v)
      BY <2>6, <2>8, <3>3, LedgerSends
    <3>5. PICK w2 : w2 = w \o Append(P, m)
      OBVIOUS
    <3>6. w2 = Append(w1, m)
      BY <2>6, <2>8, <3>1, <3>2, <3>5, MessagesJoin
    <3>7. Ledger(prep.st, w2, r, v)
      BY <3>4, <3>6
    <3> QED  BY <1>2, <2>3, <2>7, <2>10, <3>3, <3>5, <3>7, SendLevel DEF w, r, v
  <2> QED  BY <2>9, <2>10
<1>8. ASSUME NEW x \in Carriers(c), NEW k \in {"portal", "sync"}, NEW s2 \in Statements,
             s2.parses = StatementsOf(c, x).parses, s2.cache = StatementsOf(c, x).cache,
             Send(c, x, s2, <<Message(k, NoQuery, c)>>),
             "ready" \notin Range(driver[c].owed), Unblamed'
      PROVE  CacheInv'
  <2> DEFINE m == Message(k, NoQuery, c)
             w == toServer[x]
  <2>1. m \in MessageOf /\ m.kind = k
    BY DEF Message, MessageOf, Senders
  <2>2. w \in Seq(MessageOf) /\ Calm(w)
    BY <1>2, <1>4, <1>8
  <2> HIDE DEF m
  <2>3. Ledger(s2, Append(w, m), toProxy[x], srv[x])
    BY <1>2, <1>8, <2>1, <2>2, LedgerSends
  <2>4. PICK w2 : w2 = w \o <<m>>
    OBVIOUS
  <2>5. w2 = Append(w, m)
    BY <2>1, <2>2, <2>4
  <2>6. Ledger(s2, w2, toProxy[x], srv[x]) /\ Neat(s2.cache) /\ Send(c, x, s2, <<m>>)
    BY <1>2, <1>8, <2>3, <2>5 DEF m
  <2> QED  BY <1>2, <1>8, <2>4, <2>6, SendLevel
<1>9. CASE ClosePortal(c)
  <2>1. PICK x \in Carriers(c) :
          Send(c, x, NotePortalClose(StatementsOf(c, x)), <<Message("portal", NoQuery, c)>>)
    BY <1>9 DEF ClosePortal
  <2>2. driver' = [driver EXCEPT ![c] = AsksExtended(d, "closed")]
    BY <1>9 DEF ClosePortal
  <2>3. Unblamed' /\ "ready" \notin Range(driver[c].owed)
    BY <1>1, <1>3, <1>5, <1>9, <2>2, UnblamedKeeps DEF ClosePortal
  <2> DEFINE s2 == NotePortalClose(StatementsOf(c, x))
  <2>4. /\ s2 \in Statements /\ s2.parses = StatementsOf(c, x).parses
        /\ s2.cache = StatementsOf(c, x).cache
    <3>1. StatementsOf(c, x) \in Statements
      BY <1>2
    <3>2. NotePortalClose(StatementsOf(c, x)) \in Statements
      BY <3>1, RecordKept
    <3> QED  BY <3>1, <3>2 DEF NotePortalClose, Statements
  <2> HIDE DEF s2
  <2> QED  BY <1>8, <2>1, <2>3, <2>4 DEF s2
<1>10. CASE Sync(c)
  <2>1. PICK x \in Carriers(c) : Send(c, x, StatementsOf(c, x), <<Message("sync", NoQuery, c)>>)
    BY <1>10 DEF Sync
  <2>2. driver' = [driver EXCEPT ![c] = AsksSync(d)]
    BY <1>10 DEF Sync
  <2>3. Unblamed' /\ "ready" \notin Range(driver[c].owed)
    <3>1. ~AsksSync(d).blamed
      BY <1>3, AsksBlame DEF Kinds
    <3> QED  BY <1>1, <1>3, <1>10, <2>2, <3>1, UnblamedKeeps DEF Sync, MaySync
  <2> QED  BY <1>2, <1>8, <2>1, <2>3
<1> QED  BY <1>6, <1>7, <1>9, <1>10

\* What the proxy answers itself.
LEMMA InterceptLevel ==
  ASSUME ExchangeInv, CacheInv, mode' = mode, NEW c \in Sessions,
         (\E s \in Names : CloseStatement(c, s)) \/ Deallocate(c)
  PROVE  CacheInv'
<1> DEFINE d == driver[c]
<1>1. d \in ClientOf /\ ~d.blamed /\ Unblamed
  BY DEF ExchangeInv, LinksTyped, CacheInv, Unblamed
<1>2. UNCHANGED <<conn, phase, st, toServer, toProxy, srv>>
  BY DEF CloseStatement, Deallocate, linkVars, wireVars
<1>3. CASE \E s \in Names : CloseStatement(c, s)
  <2>1. driver' = [driver EXCEPT ![c] = Gets(AsksExtended(d, "closed"), "closed")]
    BY <1>3 DEF CloseStatement
  <2>2. ~Gets(AsksExtended(d, "closed"), "closed").blamed
    <3> HIDE DEF d
    <3>1. AsksExtended(d, "closed") \in ClientOf /\ ~AsksExtended(d, "closed").blamed
      BY <1>1, AsksBlame DEF Kinds
    <3> QED  BY <3>1, GetsBlame
  <2>3. Unblamed'
    BY <1>1, <2>1, <2>2, UnblamedKeeps
  <2> QED  BY <1>2, <2>3, LevelSame
<1>4. CASE Deallocate(c)
  <2>1. driver' = [driver EXCEPT ![c] = Gets(Gets(AsksSimple(d), "done"), "ready")]
    BY <1>4 DEF Deallocate
  <2>2. ~Gets(Gets(AsksSimple(d), "done"), "ready").blamed
    <3> HIDE DEF d
    <3>1. AsksSimple(d) \in ClientOf /\ ~AsksSimple(d).blamed
      BY <1>1, AsksBlame DEF Kinds
    <3>2. Gets(AsksSimple(d), "done") \in ClientOf /\ ~Gets(AsksSimple(d), "done").blamed
      BY <3>1, GetsBlame
    <3> QED  BY <3>2, GetsBlame
  <2>3. Unblamed'
    BY <1>1, <2>1, <2>2, UnblamedKeeps
  <2> QED  BY <1>2, <2>3, LevelSame
<1> QED  BY <1>3, <1>4

\* A simple query on a connection where nothing is under way.
LEMMA LedgerAsks ==
  ASSUME NEW s \in Statements, s.parses = <<>>, NEW v \in Server, ~v.skip,
         NEW m \in MessageOf, m.kind \in ClientKinds,
         Cached(s) = (IF m.kind = "discard" THEN {} ELSE v.stmts),
         m.kind = "discard" => v.tx = "idle",
         NEW e \in Seq(MessageOf), e = <<>>
  PROVE  Ledger(s, Append(e, m), <<>>, v)
<1> DEFINE w == Append(e, m)
<1>0. Len(<<>>) = 0 /\ 1..0 = {} /\ 0 \in 0..0
  OBVIOUS
<1>1. w \in Seq(MessageOf) /\ Len(w) = 1 /\ w[1] = m /\ 1 \in 1..1
  BY FirstSent
<1> HIDE DEF w
<1>2. v.stmts \in SUBSET Queries /\ Cached(s) \in SUBSET Queries
  BY RecordParts DEF Server
<1>3. ~Failed(<<>>, v)
  BY <1>0 DEF Failed
<1>4. Acked(<<>>, 0)
  BY AckedNone
<1>5. Leads(s.parses, w, v.stmts, 0, Cached(s), 0)
  <2>1. s.parses \in Seq(Pending)
    BY RecordParts
  <2>2. Leads(s.parses, e, v.stmts, 0, v.stmts, 0)
    BY <1>2, LeadsNone
  <2>3. Finds(m, s.parses, v.stmts, 0, Cached(s), 0)
    BY DEF Finds, ClientKinds
  <2>4. Len(s.parses) <= Len(s.parses) /\ 0 \in Nat
    BY <1>0
  <2>5. \A i \in 1..Len(s.parses) : s.parses[i] = s.parses[i]
    OBVIOUS
  <2>6. Leads(s.parses, Append(e, m), v.stmts, 0, Cached(s), 0)
    BY <1>2, <2>1, <2>2, <2>3, <2>4, <2>5, LeadsAppend
  <2> QED  BY <2>6 DEF w
<1>6. Kept(s, w, v, 0)
  <2>1. Asked(s.parses) = {}
    BY <1>0 DEF Asked
  <2>2. Calm(w) => m.kind # "discard"
    BY <1>1 DEF Calm
  <2>3. Calm(w) => Cached(s) = v.stmts \cup Asked(s.parses)
    BY <2>1, <2>2
  <2>4. \A i \in 1..Len(s.parses) : FALSE
    BY <1>0
  <2> QED  BY <2>3, <2>4 DEF Kept
<1>7. Account(s, w, <<>>, v, 0)
  BY <1>0, <1>4, <1>5, <1>6 DEF Account
<1>8. ~Calm(w) => v.tx = "idle"
  BY <1>1 DEF Calm
<1>9. Ledger(s, w, <<>>, v)
  BY <1>0, <1>1, <1>3, <1>7, <1>8 DEF Ledger
<1> QED  BY <1>9 DEF w

\* A simple query: DISCARD ALL empties the cache before the server has it.
LEMMA SimpleLevel ==
  ASSUME Careful, ExchangeInv, CacheInv, mode' = mode, NEW c \in Sessions, NEW query \in Query,
         SimpleQuery(c, query)
  PROVE  CacheInv'
<1>1. PICK x \in Carriers(c) :
        Send(c, x, StatementsAfter(StatementsOf(c, x), query), <<Message(query.kind, query.arg, c)>>)
  BY DEF SimpleQuery
<1> DEFINE d == driver[c]
           m == Message(query.kind, query.arg, c)
           s == StatementsOf(c, x)
           s2 == StatementsAfter(s, query)
           w == toServer[x]
           r == toProxy[x]
           t == lastTx[x]
           v == srv[x]
<1>2. "ready" \notin Range(d.owed) /\ d.batch = "closed" /\ ~Undoes(c, query.kind)
      /\ (query.kind = "discard" => Tracks)
  BY CarefulAsks, TameAsks DEF SimpleQuery, CacheInv
<1>3. /\ Reaches(c, x) /\ x \in Conns /\ d \in ClientOf /\ s \in Statements
      /\ w \in Seq(MessageOf) /\ r \in Seq(ReplyOf) /\ v \in Server
      /\ Attached(c, s, d, w, r, t, v)
  BY CarriersReach, CarrierFits
<1>4. query.kind \in ClientKinds /\ query.arg \in SUBSET Vars
  BY QueryTyped
<1>5. w = <<>> /\ r = <<>> /\ s.parses = <<>> /\ ~v.skip /\ t = v.tx
  <2> HIDE DEF d, s, w, r, t, v
  <2> QED  BY <1>2, <1>3, AttachedIdles
<1>6. Neat(s.cache) /\ Ledger(s, w, r, v)
  BY <1>3, CarrierLevel
<1>7. Cached(s) = v.stmts
  <2> HIDE DEF s, w, r, v
  <2> QED  BY <1>3, <1>5, <1>6, LedgerEnds
<1>8. query.kind = "discard" => v.tx = "idle"
  <2> SUFFICES ASSUME v.tx # "idle", query.kind = "discard"  PROVE FALSE
    OBVIOUS
  <2>1. conn[c] = x /\ x # NoConn
    <3>1. phase[x] # "idle"
      BY <1>3 DEF ExchangeInv, LinkRests, Rests, Quiet
    <3> QED  BY <1>3, <3>1, ProxyAssumption DEF Reaches
  <2>2. InTransaction(c)
    BY <1>5, <2>1 DEF InTransaction
  <2> QED  BY <1>2, <2>1, <2>2 DEF Undoes
<1>9. m \in MessageOf /\ m.kind = query.kind
  BY <1>4 DEF Message, MessageOf, Senders, ClientKinds
<1>10. Unblamed'
  <2>1. driver' = [driver EXCEPT ![c] = AsksSimple(d)]
    BY DEF SimpleQuery
  <2>2. ~d.blamed /\ Unblamed
    BY DEF CacheInv, Unblamed
  <2>3. ~AsksSimple(d).blamed
    <3> HIDE DEF d
    <3> QED  BY <1>3, <2>2, AsksBlame DEF Kinds
  <2> QED  BY <2>1, <2>2, <2>3, UnblamedKeeps
<1>11. /\ s2 \in Statements /\ s2.parses = <<>> /\ Neat(s2.cache)
       /\ Cached(s2) = IF query.kind = "discard" THEN {} ELSE v.stmts
  <2>1. CASE query.kind = "discard"
    <3>1. s2 = DiscardAll(s)
      BY <1>2, <2>1 DEF StatementsAfter
    <3> HIDE DEF s
    <3>2. s2 \in Statements /\ s2.parses = <<>> /\ s2.cache = <<>>
      BY <1>3, <1>5, <3>1, SMTT(30) DEF DiscardAll, Statements
    <3>3. Len(<<>>) = 0 /\ 1..0 = {} /\ DOMAIN <<>> = {}
      OBVIOUS
    <3> HIDE DEF s2
    <3>4. Distinct(s2.cache)
      BY <3>2, <3>3 DEF Distinct
    <3>5. MaxPrepared > 0 => Len(s2.cache) <= MaxPrepared
      BY <3>2, <3>3, MaxPreparedAssumption
    <3>6. Cached(s2) = {}
      BY <3>2, <3>3 DEF Cached, Range
    <3> QED  BY <2>1, <3>2, <3>4, <3>5, <3>6 DEF Neat
  <2>2. CASE query.kind # "discard"
    <3>1. s2 = s
      BY <2>2 DEF StatementsAfter
    <3> QED  BY <1>3, <1>5, <1>6, <1>7, <2>2, <3>1
  <2> QED  BY <2>1, <2>2
<1>12. Send(c, x, s2, <<m>>)
  BY <1>1
<1> HIDE DEF s2, m, s, d, w, r, t, v
<1>13. Ledger(s2, Append(w, m), <<>>, v)
  BY <1>3, <1>4, <1>5, <1>8, <1>9, <1>11, LedgerAsks
<1>14. PICK w2 : w2 = w \o <<m>>
  OBVIOUS
<1>15. Ledger(s2, w2, r, v)
  <2>1. w2 = Append(w, m)
    BY <1>3, <1>9, <1>14
  <2> QED  BY <1>5, <1>13, <2>1
<1> QED  BY <1>3, <1>10, <1>11, <1>12, <1>14, <1>15, SendLevel DEF w, r, v

-----------------------------------------------------------------------------
(* Servers answer, the proxy reads, connections come and go *)

\* A server's answer.
LEMMA ServeLevel ==
  ASSUME ExchangeInv, CacheInv, mode' = mode, NEW x \in Conns, Serve(x)
  PROVE  CacheInv'
<1> DEFINE w == toServer[x]
           r == toProxy[x]
           t == lastTx[x]
           v == srv[x]
           m == Head(w)
<1>1. PICK o \in Outcomes(v, m) :
        /\ srv' = [srv EXCEPT ![x] = o.srv]
        /\ toProxy' = [toProxy EXCEPT ![x] =
             @ \o [i \in DOMAIN o.replies |-> To(o.replies[i], m.from)]]
  BY DEF Serve
<1>2. /\ w # <<>> /\ phase[x] \in {"lent", "resetting"} /\ toServer' = [toServer EXCEPT ![x] = Tail(w)]
      /\ UNCHANGED <<conn, driver, phase, st>>
  BY DEF Serve, sessionVars, linkVars
<1>3. /\ w \in Seq(MessageOf) /\ r \in Seq(ReplyOf) /\ v \in Server /\ st[x] \in Statements
      /\ phase \in [Conns -> Phases] /\ st \in [Conns -> Statements]
      /\ toProxy \in [Conns -> Seq(ReplyOf)]
  BY DEF ExchangeInv, LinksTyped, LeaseInv, Phases
<1> DEFINE r2 == Replied(r, o.replies, m.from)
<1>4. toProxy' = [toProxy EXCEPT ![x] = r2]
  BY <1>1 DEF Replied
<1>5. phase' = [phase EXCEPT ![x] = phase[x]] /\ st' = [st EXCEPT ![x] = st[x]]
  BY <1>2, <1>3
<1>6. Unblamed' /\ \A y \in Conns : Held(y)'
  BY <1>2 DEF CacheInv, Unblamed, Held
<1>7. Neat(st[x].cache) /\ Spotless(v) /\ Held(x) /\ LinkLevel(x) /\ LinkRests(x)
  BY DEF CacheInv, LinkLevel, Level, ExchangeInv
<1>8. Level(phase[x], st[x], Tail(w), r2, o.srv)
  <2>1. CASE phase[x] = "lent"
    <3>1. PICK c \in Sessions : conn[c] = x
      BY <1>7, <2>1 DEF Held
    <3>2. PICK p \in Seq(Item) : Settled(p) /\ Exchange(c, p, st[x], driver[c], w, r, t, v)
      <4>1. SessionFits(c) /\ x # NoConn
        BY ProxyAssumption DEF ExchangeInv
      <4> QED  BY <3>1, <4>1 DEF SessionFits, Attached
    <3>3. m.from = c
      <4> HIDE DEF w
      <4> QED  BY <1>2, <1>3, <3>2, HeadFrom
    <3>4. Ledger(st[x], w, r, v)
      BY <1>7, <2>1 DEF LinkLevel, Level
    <3>5. r2 = Replied(r, o.replies, c)
      BY <3>3
    <3> HIDE DEF w, r, t, v, r2
    <3>6. Ledger(st[x], Tail(w), r2, o.srv) /\ Spotless(o.srv)
      BY <1>2, <1>3, <1>7, <3>2, <3>4, <3>5, LedgerServed
    <3> QED  BY <1>7, <2>1, <3>6 DEF Level
  <2>2. CASE phase[x] = "resetting"
    <3>1. Cleaning(w, r, v) /\ Cached(st[x]) = v.stmts
      BY <1>7, <2>2 DEF LinkRests, Rests, LinkLevel, Level
    <3> HIDE DEF w, r, v
    <3>2. ~v.skip /\ w[1].kind \in {"clean", "rollback and clean"}
      BY <1>2, <3>1 DEF Cleaning
    <3>3. m \in MessageOf /\ m = w[1]
      BY <1>2, <1>3
    <3> HIDE DEF m
    <3>4. Spotless(o.srv) /\ Carried(m, v, o)
      BY <1>3, <1>7, <3>2, <3>3, SimpleHolds
    <3>5. o.srv.stmts = v.stmts
      BY <3>2, <3>3, <3>4 DEF Carried
    <3> QED  BY <1>7, <2>2, <3>1, <3>4, <3>5 DEF Level
  <2> QED  BY <1>2, <2>1, <2>2
<1> HIDE DEF w, r2, m
<1>9. srv' = [srv EXCEPT ![x] = o.srv]
  BY <1>1
<1> QED  BY <1>2, <1>4, <1>5, <1>6, <1>8, <1>9, LevelKeeps

\* A reply that does not say so is not the blame of the pooler.
LEMMA DeliverBlame ==
  ASSUME NEW d \in ClientOf, NEW c, NEW a, a.arg # "pooler"
  PROVE  Deliver(d, c, a).blamed = d.blamed
<1>1. Gets(d, a.kind).blamed = d.blamed
  BY GetsBlame
<1>2. "blamed" \in DOMAIN Gets(d, a.kind)
  <2>1. \A o, b : DOMAIN [d EXCEPT !.owed = o] = DOMAIN d
                  /\ DOMAIN [d EXCEPT !.owed = o, !.batch = b] = DOMAIN d
                  /\ DOMAIN [d EXCEPT !.misordered = b] = DOMAIN d
    OBVIOUS
  <2>2. "blamed" \in DOMAIN d
    BY DEF ClientOf
  <2>3. DOMAIN GetsError(d) = DOMAIN d
    BY <2>1 DEF GetsError
  <2>4. DOMAIN Gets(d, a.kind) = DOMAIN d
    BY <2>1, <2>3 DEF Gets
  <2> QED  BY <2>2, <2>4
<1>3. CASE a.to # c
  BY <1>3 DEF Deliver, ClientOf
<1>4. CASE a.to = c
  <2> DEFINE g == Gets(d, a.kind)
  <2>1. Deliver(d, c, a) = [g EXCEPT !.blamed = @ \/ a.arg = "pooler"]
    BY <1>4 DEF Deliver
  <2> HIDE DEF g
  <2>2. [g EXCEPT !.blamed = @ \/ a.arg = "pooler"].blamed = (g.blamed \/ a.arg = "pooler")
    BY <1>2 DEF g
  <2>3. d.blamed \in BOOLEAN
    BY DEF ClientOf
  <2> QED  BY <1>1, <2>1, <2>2, <2>3 DEF g
<1> QED  BY <1>3, <1>4

\* A connection whose cache is right goes into its reset.
LEMMA CheckinLevel ==
  ASSUME ExchangeInv, CacheInv, mode' = mode, Unblamed', NEW x \in Conns, NEW seen, Checkin(x, seen),
         NEW s2, st' = [st EXCEPT ![x] = s2], NEW r2, toProxy' = [toProxy EXCEPT ![x] = r2],
         srv' = srv, \A e \in Sessions : conn[e] # x => conn'[e] = conn[e],
         Neat(s2.cache), Cached(s2) = srv[x].stmts
  PROVE  CacheInv'
<1>1. phase' = [phase EXCEPT ![x] = "resetting"]
  BY DEF Checkin
<1>2. PICK w2 : toServer' = [toServer EXCEPT ![x] = w2]
  <2>1. \E k : toServer' = [toServer EXCEPT ![x] = Append(toServer[x], Message(k, dirty[x], NoSession))]
    BY DEF Checkin
  <2> QED  BY <2>1
<1>3. \A y \in Conns : Held(y)'
  BY <1>1, HeldLeaves
<1>4. Spotless(srv[x])
  BY DEF CacheInv, LinkLevel, Level
<1>5. Level("resetting", s2, w2, r2, srv[x])
  BY <1>4 DEF Level
<1>6. srv' = [srv EXCEPT ![x] = srv[x]]
  BY DEF ExchangeInv, LinksTyped
<1> QED  BY <1>1, <1>2, <1>3, <1>5, <1>6, LevelKeeps

\* The proxy reads a reply.
LEMMA RelayLevel ==
  ASSUME ExchangeInv, CacheInv, mode' = mode, NEW c \in Sessions, Relay(c)
  PROVE  CacheInv'
<1> DEFINE x == conn[c]
           a == Head(toProxy[x])
           d == driver[c]
           s == st[x]
           w == toServer[x]
           r == toProxy[x]
           t == lastTx[x]
           v == srv[x]
           s2 == AfterReply(s, a)
<1>1. /\ x # NoConn /\ r # <<>> /\ srv' = srv
      /\ st' = [st EXCEPT ![x] = s2] /\ toProxy' = [toProxy EXCEPT ![x] = Tail(r)]
      /\ driver' = [driver EXCEPT ![c] = IF Suppressed(s, a) THEN d ELSE Deliver(d, c, a)]
      /\ Releases(c, a) => Checkin(x, a.arg) /\ conn' = [conn EXCEPT ![c] = NoConn]
      /\ ~Releases(c, a) => UNCHANGED <<phase, toServer, conn>>
  BY DEF Relay
<1>2. x \in Conns /\ phase[x] = "lent" /\ conn \in [Sessions -> Conns \cup {NoConn}]
  BY <1>1 DEF ExchangeInv, LeaseInv, OneSession
<1>3. /\ s \in Statements /\ d \in ClientOf /\ w \in Seq(MessageOf) /\ r \in Seq(ReplyOf)
      /\ v \in Server
  BY <1>2 DEF ExchangeInv, LinksTyped
<1>4. Attached(c, s, d, w, r, t, v)
  <2>1. SessionFits(c)
    BY DEF ExchangeInv
  <2> QED  BY <1>1, <2>1 DEF SessionFits
<1>5. PICK p \in Seq(Item) : Exchange(c, p, s, d, w, r, t, v)
  BY <1>4 DEF Attached
<1>6. Ledger(s, w, r, v) /\ Neat(s.cache) /\ Spotless(v) /\ ~d.blamed /\ Unblamed
  BY <1>2 DEF CacheInv, LinkLevel, Level, Unblamed
<1>7. a = Head(r)
  OBVIOUS
<1> HIDE DEF a, s, d, w, r, t, v
<1>8. Ledger(s2, w, Tail(r), v) /\ Neat(s2.cache) /\ a.arg # "pooler"
  BY <1>1, <1>3, <1>5, <1>6, <1>7, LedgerReads
<1>9. Unblamed'
  <2>1. ~Deliver(d, c, a).blamed
    BY <1>3, <1>6, <1>8, DeliverBlame
  <2> QED  BY <1>1, <1>6, <2>1, UnblamedKeeps
<1>10. CASE Releases(c, a)
  <2>1. Spent(w, Tail(r), v, a.arg)
    BY <1>1, <1>3, <1>4, <1>7, <1>10, AttachedReads DEF Releases
  <2>2. w = <<>> /\ Tail(r) = <<>> /\ ~v.skip
    BY <2>1 DEF Spent
  <2> HIDE DEF s2
  <2>3. Cached(s2) = v.stmts
    BY <1>3, <1>8, <2>2, LedgerEnds
  <2> HIDE DEF x
  <2>4. \A e \in Sessions : conn[e] # x => conn'[e] = conn[e]
    <3>1. conn[c] = x
      BY DEF x
    <3> QED  BY <1>1, <1>2, <1>10, <3>1
  <2>5. Checkin(x, a.arg)
    BY <1>1, <1>10
  <2> QED  BY <1>1, <1>2, <1>8, <1>9, <2>3, <2>4, <2>5, CheckinLevel DEF v
<1>11. CASE ~Releases(c, a)
  <2>1. /\ phase' = phase /\ toServer' = toServer /\ conn' = conn
    BY <1>1, <1>11
  <2>2. /\ phase' = [phase EXCEPT ![x] = "lent"] /\ toServer' = [toServer EXCEPT ![x] = w]
        /\ srv' = [srv EXCEPT ![x] = v]
    BY <1>1, <1>2, <2>1 DEF ExchangeInv, LinksTyped, LeaseInv, w, v
  <2>3. \A y \in Conns : Held(y)'
    BY <2>1 DEF CacheInv, Held
  <2>4. Level("lent", s2, w, Tail(r), v)
    BY <1>6, <1>8 DEF Level
  <2> HIDE DEF s2, x
  <2> QED  BY <1>1, <1>2, <1>9, <2>2, <2>3, <2>4, LevelKeeps
<1> QED  BY <1>10, <1>11

\* A client that leaves.
LEMMA LeaveLevel ==
  ASSUME Careful, ExchangeInv, CacheInv, mode' = mode, NEW c \in Sessions, Leave(c)
  PROVE  CacheInv'
<1> DEFINE x == conn[c]
           s == st[x]
           v == srv[x]
<1>1. driver[c].owed = <<>> /\ driver[c].batch = "closed"
  BY CarefulAsks, TameAsks DEF Leave
<1>2. /\ driver' = [driver EXCEPT ![c] = NewDriver] /\ conn' = [conn EXCEPT ![c] = NoConn]
      /\ conn \in [Sessions -> Conns \cup {NoConn}]
  BY DEF Leave, EndSession, ExchangeInv, LeaseInv
<1>3. Unblamed'
  <2>1. ~NewDriver.blamed /\ Unblamed
    BY DEF NewDriver, CacheInv
  <2> QED  BY <1>2, <2>1, UnblamedKeeps
<1>4. CASE x = NoConn
  <2>1. UNCHANGED <<conn, phase, st, toServer, toProxy, srv>>
    BY <1>2, <1>4 DEF Leave, linkVars, wireVars
  <2> QED  BY <1>3, <2>1, LevelSame
<1>5. CASE x # NoConn
  <2>1. x \in Conns /\ phase[x] = "lent" /\ Checkin(x, lastTx[x]) /\ UNCHANGED <<st, toProxy, srv>>
    BY <1>5 DEF Leave, ExchangeInv, LeaseInv, OneSession
  <2>2. /\ s \in Statements /\ driver[c] \in ClientOf /\ toServer[x] \in Seq(MessageOf)
        /\ toProxy[x] \in Seq(ReplyOf) /\ v \in Server
        /\ st' = [st EXCEPT ![x] = s] /\ toProxy' = [toProxy EXCEPT ![x] = toProxy[x]]
    BY <2>1 DEF ExchangeInv, LinksTyped
  <2>3. Attached(c, s, driver[c], toServer[x], toProxy[x], lastTx[x], v)
    <3>1. SessionFits(c)
      BY DEF ExchangeInv
    <3> QED  BY <1>5, <3>1 DEF SessionFits
  <2>4. "ready" \notin Range(driver[c].owed)
    BY <1>1 DEF Range
  <2>5. Neat(s.cache) /\ Ledger(s, toServer[x], toProxy[x], v)
    BY <2>1 DEF CacheInv, LinkLevel, Level
  <2>6. \A e \in Sessions : conn[e] # x => conn'[e] = conn[e]
    BY <1>2
  <2> HIDE DEF x, s, v
  <2>7. toServer[x] = <<>> /\ toProxy[x] = <<>> /\ ~v.skip
    BY <1>1, <2>2, <2>3, <2>4, AttachedIdles
  <2>8. Cached(s) = v.stmts
    BY <2>2, <2>5, <2>7, LedgerEnds
  <2> QED  BY <1>3, <2>1, <2>2, <2>5, <2>6, <2>8, CheckinLevel DEF v
<1> QED  BY <1>4, <1>5

\* A session of session mode takes a connection.
LEMMA StartLevel ==
  ASSUME ExchangeInv, CacheInv, mode' = mode, NEW c \in Sessions, NEW x \in Conns, StartSession(c, x)
  PROVE  CacheInv'
<1>1. Reaches(c, x) /\ Send(c, x, ResetPending(st[x]), <<>>) /\ driver' = driver
  BY DEF StartSession, Reaches
<1>2. StatementsOf(c, x) = ResetPending(st[x])
  BY ProxyAssumption DEF StartSession, StatementsOf
<1>3. Unblamed'
  BY <1>1 DEF CacheInv, Unblamed
<1>4. toServer[x] \in Seq(MessageOf)
  BY DEF ExchangeInv, LinksTyped
<1>5. PICK w2 : w2 = toServer[x] \o <<>>
  OBVIOUS
<1>6. w2 = toServer[x]
  BY <1>4, <1>5, EmptyAdded
<1>7. /\ Neat(ResetPending(st[x]).cache)
      /\ Ledger(ResetPending(st[x]), w2, toProxy[x], srv[x])
  BY <1>1, <1>2, <1>6, CarrierLevel
<1> QED  BY <1>1, <1>3, <1>5, <1>7, SendLevel

\* A connection that is discarded has no statements, and nor has its cache.
LEMMA DiscardLevel ==
  ASSUME ExchangeInv, CacheInv, mode' = mode, Unblamed', NEW x \in Conns, Discard(x),
         \A e \in Sessions : conn[e] # x => conn'[e] = conn[e]
  PROVE  CacheInv'
<1>1. /\ phase' = [phase EXCEPT ![x] = "closed"] /\ toServer' = [toServer EXCEPT ![x] = <<>>]
      /\ srv' = [srv EXCEPT ![x] = NewServer] /\ st' = [st EXCEPT ![x] = NoStatements]
      /\ toProxy' = [toProxy EXCEPT ![x] = <<>>]
  BY DEF Discard
<1>2. PICK e : e = <<>>
  OBVIOUS
<1>3. Level("closed", NoStatements, e, e, NewServer)
  <2>1. Len(<<>>) = 0 /\ 1..0 = {} /\ DOMAIN <<>> = {}
    OBVIOUS
  <2>2. Neat(NoStatements.cache)
    BY <2>1, MaxPreparedAssumption DEF NoStatements, Neat, Distinct
  <2>3. Cached(NoStatements) = NewServer.stmts
    BY <2>1 DEF Cached, Range, NoStatements, NewServer
  <2>4. Spotless(NewServer)
    <3>1. PICK y \in Conns : y = x
      OBVIOUS
    <3>2. Spotless(srv[y])
      BY DEF CacheInv, LinkLevel, Level
    <3> QED  BY <3>2 DEF Spotless, NewServer
  <2> QED  BY <2>2, <2>3, <2>4 DEF Level
<1>4. \A y \in Conns : Held(y)'
  BY <1>1, HeldLeaves
<1> QED  BY <1>1, <1>2, <1>3, <1>4, LevelKeeps

\* A reset that ends leaves the cache as it was.
LEMMA ResetReadsLevel ==
  ASSUME ExchangeInv, CacheInv, mode' = mode, NEW x \in Conns, ResetReads(x)
  PROVE  CacheInv'
<1> DEFINE ph2 == IF Head(toProxy[x]).kind = "ready" THEN "idle" ELSE "resetting"
<1>0. Unblamed' /\ conn' = conn
  BY DEF ResetReads, sessionVars, CacheInv, Unblamed
<1>1. CASE Discard(x)
  BY <1>0, <1>1, DiscardLevel
<1>2. CASE ~Discard(x)
  <2>1. /\ phase[x] = "resetting" /\ toProxy' = [toProxy EXCEPT ![x] = Tail(toProxy[x])]
        /\ phase' = [phase EXCEPT ![x] = IF Head(toProxy[x]).kind = "ready" THEN "idle" ELSE phase[x]]
        /\ UNCHANGED <<st, toServer, srv>>
    BY <1>2 DEF ResetReads
  <2>2. Neat(st[x].cache) /\ Spotless(srv[x]) /\ Cached(st[x]) = srv[x].stmts
    BY <2>1 DEF CacheInv, LinkLevel, Level
  <2>3. ph2 # "lent" /\ phase' = [phase EXCEPT ![x] = ph2]
    BY <2>1
  <2> HIDE DEF ph2
  <2>4. Level(ph2, st[x], toServer[x], Tail(toProxy[x]), srv[x])
    BY <2>2, <2>3 DEF Level
  <2>5. /\ st' = [st EXCEPT ![x] = st[x]] /\ toServer' = [toServer EXCEPT ![x] = toServer[x]]
        /\ srv' = [srv EXCEPT ![x] = srv[x]]
    BY <2>1 DEF ExchangeInv, LinksTyped
  <2>6. \A y \in Conns : Held(y)'
    BY <1>0, <2>3, HeldLeaves
  <2> QED  BY <1>0, <2>1, <2>3, <2>4, <2>5, <2>6, LevelKeeps
<1> QED  BY <1>1, <1>2

\* A connection that is opened has no statements either.
LEMMA OpenLevel ==
  ASSUME ExchangeInv, CacheInv, mode' = mode, NEW x \in Conns, Open(x)
  PROVE  CacheInv'
<1>1. /\ phase[x] = "closed" /\ phase' = [phase EXCEPT ![x] = "idle"]
      /\ UNCHANGED <<conn, driver, st, toServer, toProxy, srv>>
  BY DEF Open, wireVars, sessionVars
<1>2. /\ st' = [st EXCEPT ![x] = st[x]] /\ toServer' = [toServer EXCEPT ![x] = toServer[x]]
      /\ toProxy' = [toProxy EXCEPT ![x] = toProxy[x]] /\ srv' = [srv EXCEPT ![x] = srv[x]]
  BY <1>1 DEF ExchangeInv, LinksTyped
<1>3. LinkLevel(x)
  BY DEF CacheInv
<1>4. Level("idle", st[x], toServer[x], toProxy[x], srv[x])
  BY <1>1, <1>3 DEF LinkLevel, Level
<1>5. Unblamed'
  BY <1>1 DEF CacheInv, Unblamed
<1>6. \A y \in Conns : Held(y)'
  BY <1>1, HeldLeaves
<1> QED  BY <1>1, <1>2, <1>4, <1>5, <1>6, LevelKeeps

\* A connection that the server closes.
LEMMA BreakLevel ==
  ASSUME ExchangeInv, CacheInv, mode' = mode, NEW x \in Conns, Break(x)
  PROVE  CacheInv'
<1>0. Discard(x) /\ Unblamed
  BY DEF Break, CacheInv
<1>1. ASSUME NEW c \in Sessions, conn[c] = x, EndSession(c)  PROVE CacheInv'
  <2>1. /\ driver' = [driver EXCEPT ![c] = NewDriver] /\ conn' = [conn EXCEPT ![c] = NoConn]
        /\ conn \in [Sessions -> Conns \cup {NoConn}]
    BY <1>1 DEF EndSession, ExchangeInv, LeaseInv
  <2>2. ~NewDriver.blamed
    BY DEF NewDriver
  <2>3. Unblamed'
    BY <1>0, <2>1, <2>2, UnblamedKeeps
  <2>4. \A e \in Sessions : conn[e] # x => conn'[e] = conn[e]
    BY <1>1, <2>1
  <2> QED  BY <1>0, <2>3, <2>4, DiscardLevel
<1>2. CASE UNCHANGED sessionVars
  <2>1. Unblamed' /\ conn' = conn
    BY <1>0, <1>2 DEF sessionVars, Unblamed
  <2> QED  BY <1>0, <2>1, DiscardLevel
<1> QED  BY <1>1, <1>2 DEF Break

\* No step puts a cache and its server out of step.
LEMMA CacheStep ==
  ASSUME Careful, StoreTypeOK, ExchangeInv, CacheInv, [Next]_vars
  PROVE  CacheInv'
<1>0. CASE UNCHANGED vars
  <2>1. Unblamed'
    BY <1>0 DEF vars, sessionVars, CacheInv, Unblamed
  <2> QED  BY <1>0, <2>1, LevelSame DEF vars, linkVars, wireVars, sessionVars
<1>1. CASE Next
  <2>0. mode' = mode
    BY <1>1 DEF Next
  <2>1. ASSUME NEW c \in Sessions, Ask(c)  PROVE CacheInv'
    <3>1. CASE (\E s \in Names : CloseStatement(c, s)) \/ Deallocate(c)
      BY <2>0, <3>1, InterceptLevel
    <3>2. ASSUME NEW query \in Query, SimpleQuery(c, query)  PROVE CacheInv'
      BY <2>0, <3>2, SimpleLevel
    <3>3. CASE \/ \E s \in Names : (\E q \in Queries : Parse(c, s, q)) \/ Bind(c, s)
               \/ ClosePortal(c)
               \/ Sync(c)
      BY <2>0, <3>3, ExtendedLevel
    <3> QED  BY <2>1, <3>1, <3>2, <3>3 DEF Ask
  <2>2. ASSUME NEW c \in Sessions, Relay(c)  PROVE CacheInv'
    BY <2>0, <2>2, RelayLevel
  <2>3. ASSUME NEW c \in Sessions, Leave(c)  PROVE CacheInv'
    BY <2>0, <2>3, LeaveLevel
  <2>4. ASSUME NEW c \in Sessions, NEW x \in Conns, StartSession(c, x)  PROVE CacheInv'
    BY <2>0, <2>4, StartLevel
  <2>5. ASSUME NEW x \in Conns, Serve(x)  PROVE CacheInv'
    BY <2>0, <2>5, ServeLevel
  <2>6. ASSUME NEW x \in Conns, ResetReads(x)  PROVE CacheInv'
    BY <2>0, <2>6, ResetReadsLevel
  <2>7. ASSUME NEW x \in Conns, Break(x)  PROVE CacheInv'
    BY <2>0, <2>7, BreakLevel
  <2>8. ASSUME NEW x \in Conns, Open(x)  PROVE CacheInv'
    BY <2>0, <2>8, OpenLevel
  <2> QED  BY <1>1, <2>1, <2>2, <2>3, <2>4, <2>5, <2>6, <2>7, <2>8 DEF Next
<1> QED  BY <1>0, <1>1

\* The invariant of the two theorems.
LEMMA CacheHolds == Careful => (Spec => [](CacheInv /\ ExchangeInv))
<1> SUFFICES ASSUME Careful  PROVE Spec => [](CacheInv /\ ExchangeInv)
  OBVIOUS
<1>1. Init => CacheInv
  <2> SUFFICES ASSUME Init  PROVE CacheInv
    OBVIOUS
  <2>1. mode \in PoolModes /\ Unblamed
    BY DEF Init, Unblamed, NewDriver
  <2>2. Len(<<>>) = 0 /\ 1..0 = {} /\ DOMAIN <<>> = {}
    OBVIOUS
  <2>3. Neat(NoStatements.cache)
    BY <2>2, MaxPreparedAssumption DEF NoStatements, Neat, Distinct
  <2>4. Cached(NoStatements) = NewServer.stmts
    BY <2>2 DEF Cached, Range, NoStatements, NewServer
  <2>5. Spotless(NewServer)
    BY DEF Spotless, NewServer, Careful
  <2>6. \A x \in Conns : Held(x) /\ LinkLevel(x)
    BY <2>3, <2>4, <2>5 DEF Init, LinkLevel, Level, Held
  <2> QED  BY <2>1, <2>6 DEF CacheInv
<1>2. CacheInv /\ ExchangeInv /\ StoreTypeOK /\ [Next]_vars => CacheInv'
  BY CacheStep
<1>3. Spec => []ExchangeInv
  BY CarefulAsks, ExchangeHolds
<1>4. Spec => []StoreTypeOK
  BY StoreImplemented, StoreHolds, PTL DEF StoreInv
<1> QED  BY <1>1, <1>2, <1>3, <1>4, PTL DEF Spec

\* The cache of a connection that waits to be lent is what its server holds.
THEOREM CacheMatchesHolds == Careful => (Spec => []CacheMatches)
<1> SUFFICES ASSUME Careful  PROVE Spec => []CacheMatches
  OBVIOUS
<1>1. CacheInv /\ ExchangeInv => CacheMatches
  <2> SUFFICES ASSUME CacheInv, ExchangeInv, NEW x \in Conns, phase[x] = "idle"
               PROVE  /\ Cached(st[x]) = srv[x].stmts
                      /\ MaxPrepared > 0 => Cardinality(srv[x].stmts) <= MaxPrepared
    BY DEF CacheMatches
  <2>1. Neat(st[x].cache) /\ Cached(st[x]) = srv[x].stmts
    BY DEF CacheInv, LinkLevel, Level
  <2>2. st[x].cache \in Seq(Queries)
    BY RecordParts DEF ExchangeInv, LinksTyped
  <2>3. /\ Cardinality(Range(st[x].cache)) \in Nat
        /\ Cardinality(Range(st[x].cache)) <= Len(st[x].cache)
    BY <2>2, DistinctCounts
  <2>4. Len(st[x].cache) \in Nat
    BY <2>2
  <2>5. MaxPrepared > 0 => Cardinality(Range(st[x].cache)) <= MaxPrepared
    BY <2>1, <2>3, <2>4, MaxPreparedAssumption DEF Neat
  <2> QED  BY <2>1, <2>5 DEF Cached
<1> QED  BY <1>1, CacheHolds, PTL

\* No client sees an error that the pooler is the cause of.
THEOREM NoPoolerErrorHolds == Careful => (Spec => []NoPoolerError)
<1> SUFFICES ASSUME Careful  PROVE Spec => []NoPoolerError
  OBVIOUS
<1>1. CacheInv => NoPoolerError
  BY DEF CacheInv, Unblamed, NoPoolerError
<1> QED  BY <1>1, CacheHolds, PTL
=============================================================================
