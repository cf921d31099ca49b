------------------------- MODULE HttpRequestsProofs -------------------------
(***************************************************************************)
(* A connection of an HTTP server, for all conversations and all the ways  *)
(* reads can cut them: at most one answer leaves it, a first request that  *)
(* is not cut is answered as if it were alone, and every command that is   *)
(* enqueued was posted.                                                    *)
(*                                                                         *)
(* The argument: the buffer is always the tail of what was read            *)
(* (InputIsTail).  A buffer that starts with a request yields that         *)
(* request's line and body, whatever follows (RequestLineFacts,            *)
(* BlankLineFacts, BodyFacts).  The first read to get past the first       *)
(* request line starts with it (FirstReads).  The request line of a POST   *)
(* stands only where a POST starts (PostPlace), and what a handler takes   *)
(* is gone from the buffer (TakenIsGone).                                  *)
(***************************************************************************)
EXTENDS HttpRequests, SequenceTheorems, NaturalsInduction, WellFoundedInduction, TLAPS

----------------------------------------------------------------------------
(* Numbers and minima *)

\* A set of natural numbers has a least element.
LEMMA LeastNumber ==
  ASSUME NEW T \in SUBSET Nat, T # {}
  PROVE  \E m \in T : \A k \in T : m <= k
<1> DEFINE R == OpToRel(<, Nat)
<1>1. IsWellFoundedOn(R, Nat)
  BY NatLessThanWellFounded
<1>2. \A x, y \in Nat : y < x => <<y, x>> \in R
  BY Zenon DEF OpToRel
<1> HIDE DEF R
<1>3. PICK m \in T : \A k \in T : ~(<<k, m>> \in R)
  BY <1>1, WFMin, Zenon
<1>4. \A k \in T : ~(k < m)
  BY <1>2, <1>3, Zenon
<1> QED
  BY <1>4

\* Strong induction up to n, with a set for the property.
LEMMA InductionUpTo ==
  ASSUME NEW n \in Nat, NEW G, \A m \in 0..n : 0..m - 1 \subseteq G => m \in G
  PROVE  0..n \subseteq G
<1> DEFINE T == {m \in 0..n : m \notin G}
<1> SUFFICES ASSUME T # {} PROVE FALSE
  OBVIOUS
<1>1. T \in SUBSET Nat
  OBVIOUS
<1>2. PICK m \in T : \A k \in T : m <= k
  BY <1>1, LeastNumber
<1>3. ASSUME NEW k \in 0..m - 1 PROVE k \in G
  <2>1. k \in 0..n /\ ~(m <= k)
    OBVIOUS
  <2> QED
    BY <1>2, <2>1
<1> QED
  BY <1>3

\* Min returns the least element.
LEMMA MinFacts ==
  ASSUME NEW T \in SUBSET Nat, T # {}
  PROVE  Min(T) \in T /\ \A k \in T : Min(T) <= k
<1>1. \E m \in T : \A k \in T : m <= k
  BY LeastNumber
<1> QED
  BY <1>1, Zenon DEF Min

\* What is least is the minimum.
LEMMA MinIs ==
  ASSUME NEW T \in SUBSET Nat, NEW m \in T, \A k \in T : m <= k
  PROVE  Min(T) = m
<1> DEFINE x == Min(T)
<1>1. x \in T /\ x <= m /\ m <= x
  BY MinFacts
<1> HIDE DEF x
<1>2. x \in Nat /\ m \in Nat
  BY <1>1
<1>3. x = m
  BY <1>1, <1>2
<1> QED
  BY <1>3 DEF x

----------------------------------------------------------------------------
(* The stream *)

\* The function that FlattenSeq defines.
FlatStep(f, es, i) == IF i = 1 THEN es[i] ELSE f[i - 1] \o es[i]
Flat(es) == CHOOSE f : f = [i \in 1..Len(es) |-> FlatStep(f, es, i)]

\* FlattenSeq is the last value of that function.
LEMMA FlattenIsFlat ==
  ASSUME NEW es, Len(es) # 0
  PROVE  FlattenSeq(es) = Flat(es)[Len(es)]
BY Zenon DEF FlattenSeq, Flat, FlatStep

\* The recursion of FlattenSeq defines a function.
LEMMA FlatExists ==
  ASSUME NEW es, Len(es) \in Nat
  PROVE  Flat(es) = [i \in 1..Len(es) |-> FlatStep(Flat(es), es, i)]
<1> DEFINE Good(m) == \E f : f = [i \in 1..m |-> FlatStep(f, es, i)]
           n == Len(es)
           G == {m \in 0..n : Good(m)}
<1>1. ASSUME NEW m \in 0..n, m = 0 \/ Good(m - 1) PROVE Good(m)
  <2>1. \E f : \A i \in 1..m - 1 : f[i] = FlatStep(f, es, i)
    <3>1. CASE m = 0
      BY <3>1
    <3>2. CASE m # 0
      <4>1. PICK f : f = [i \in 1..m - 1 |-> FlatStep(f, es, i)]
        BY <1>1, <3>2
      <4>2. \A i \in 1..m - 1 : f[i] = FlatStep(f, es, i)
        BY <4>1, Zenon
      <4> QED
        BY <4>2, Zenon
    <3> QED
      BY <3>1, <3>2
  <2>2. PICK f : \A i \in 1..m - 1 : f[i] = FlatStep(f, es, i)
    BY <2>1
  <2> DEFINE g == [i \in 1..m |-> FlatStep(f, es, i)]
  <2>3. ASSUME NEW i \in 1..m PROVE FlatStep(f, es, i) = FlatStep(g, es, i)
    <3>1. CASE i = 1
      BY <3>1, Zenon DEF FlatStep
    <3>2. CASE i # 1
      <4>1. i - 1 \in 1..m - 1 /\ i - 1 \in 1..m
        BY <3>2
      <4>2. f[i - 1] = g[i - 1]
        BY <2>2, <4>1, Zenon
      <4> HIDE DEF g
      <4> QED
        BY <3>2, <4>2, Zenon DEF FlatStep
    <3> QED
      BY <3>1, <3>2
  <2>4. g = [i \in 1..m |-> FlatStep(g, es, i)]
    BY <2>3
  <2> QED
    BY <2>4, Zenon
<1> HIDE DEF Good
<1>2. ASSUME NEW m \in 0..n, 0..m - 1 \subseteq G PROVE m \in G
  <2>1. m = 0 \/ m - 1 \in 0..m - 1
    OBVIOUS
  <2> QED
    BY <1>1, <1>2, <2>1
<1>3. 0..n \subseteq G
  <2> HIDE DEF G
  <2> QED
    BY <1>2, InductionUpTo
<1>4. Good(n)
  BY <1>3
<1> QED
  BY <1>4, Zenon DEF Good, Flat

\* A sequence that is one longer flattens to one part more.
LEMMA FlattenStep ==
  ASSUME NEW S, NEW d \in Seq(Seq(S)), NEW es \in Seq(Seq(S)),
         Len(es) = Len(d) + 1, \A i \in 1..Len(d) : d[i] = es[i]
  PROVE  FlattenSeq(es) = FlattenSeq(d) \o es[Len(es)]
<1> DEFINE n == Len(d)
<1>1. n \in Nat /\ Len(es) = n + 1 /\ n + 1 \in Nat /\ n + 1 # 0
  BY LenProperties
<1>2. es[n + 1] \in Seq(S)
  BY <1>1, ElementOfSeq
<1>3. FlattenSeq(es) = Flat(es)[n + 1]
  BY <1>1, FlattenIsFlat
<1>4. \A i \in 1..n + 1 : Flat(es)[i] = FlatStep(Flat(es), es, i)
  BY <1>1, FlatExists, Zenon
<1>5. \A i \in 1..n : Flat(d)[i] = FlatStep(Flat(d), d, i)
  BY <1>1, FlatExists, Zenon
<1>6. CASE n = 0
  <2>1. d = << >>
    BY <1>6, EmptySeq
  <2>2. FlattenSeq(d) = << >>
    BY <1>6, <2>1, Zenon DEF FlattenSeq
  <2>3. n + 1 = 1 /\ 1 \in 1..n + 1
    BY <1>6
  <2>4. Flat(es)[1] = es[1]
    BY <1>4, <2>3, Zenon DEF FlatStep
  <2>5. << >> \o es[n + 1] = es[n + 1]
    BY <1>2, ConcatEmptySeq
  <2> QED
    BY <1>1, <1>3, <2>2, <2>3, <2>4, <2>5
<1>7. CASE n # 0
  <2> DEFINE G == {i \in 0..n : i = 0 \/ Flat(d)[i] = Flat(es)[i]}
  <2>1. ASSUME NEW i \in 0..n, 0..i - 1 \subseteq G PROVE i \in G
    <3>1. CASE i = 0
      BY <3>1
    <3>2. CASE i = 1
      <4>1. 1 \in 1..n /\ 1 \in 1..n + 1
        BY <1>1, <1>7
      <4>2. Flat(d)[1] = d[1] /\ Flat(es)[1] = es[1] /\ d[1] = es[1]
        BY <1>4, <1>5, <4>1, Zenon DEF FlatStep
      <4> QED
        BY <3>2, <4>2
    <3>3. CASE i # 0 /\ i # 1
      <4>1. /\ i \in 1..n /\ i \in 1..n + 1 /\ i # 1
            /\ i - 1 \in 0..i - 1 /\ i - 1 # 0
        BY <1>1, <3>3
      <4>2. Flat(d)[i] = Flat(d)[i - 1] \o d[i] /\ Flat(es)[i] = Flat(es)[i - 1] \o es[i]
        BY <1>4, <1>5, <4>1, Zenon DEF FlatStep
      <4>3. Flat(d)[i - 1] = Flat(es)[i - 1]
        BY <2>1, <4>1
      <4>4. d[i] = es[i]
        BY <4>1
      <4>5. Flat(d)[i] = Flat(es)[i]
        BY <4>2, <4>3, <4>4, Zenon
      <4> QED
        BY <4>5
    <3> QED
      BY <3>1, <3>2, <3>3
  <2>2. 0..n \subseteq G
    <3> HIDE DEF G
    <3> QED
      BY <1>1, <2>1, InductionUpTo
  <2>3. Flat(d)[n] = Flat(es)[n]
    BY <1>1, <1>7, <2>2
  <2>4. n + 1 \in 1..n + 1 /\ n + 1 # 1 /\ n + 1 - 1 = n
    BY <1>1, <1>7
  <2>5. Flat(es)[n + 1] = Flat(es)[n] \o es[n + 1]
    <3> DEFINE j == n + 1
    <3>1. j \in 1..n + 1 /\ j # 1 /\ j - 1 = n
      BY <2>4
    <3> HIDE DEF j
    <3>2. Flat(es)[j] = Flat(es)[j - 1] \o es[j]
      BY <1>4, <3>1, Zenon DEF FlatStep
    <3> QED
      BY <3>1, <3>2, Zenon DEF j
  <2>6. FlattenSeq(d) = Flat(d)[n]
    BY <1>7, FlattenIsFlat
  <2> QED
    <3>1. FlattenSeq(es) = Flat(es)[n] \o es[n + 1]
      BY <1>3, <2>5, Zenon
    <3> QED
      BY <1>1, <2>3, <2>6, <3>1
<1> QED
  BY <1>6, <1>7

\* A request as tokens: the request line, the headers, an empty line, the body.
LEMMA EncodeFacts ==
  ASSUME NEW r \in Requests
  PROVE  /\ Encode(r) \in Seq(Token)
         /\ Len(r.headers) \in Nat /\ Len(r.body) \in Nat
         /\ Len(Encode(r)) = 7 + Len(r.headers) + Len(r.body)
         /\ Encode(r)[1] = Word(r.method) /\ Encode(r)[2] = r.path
         /\ Encode(r)[3] = Word("HTTP/1.1") /\ Encode(r)[4] = CR /\ Encode(r)[5] = LF
         /\ \A i \in 1..Len(r.headers) : Encode(r)[5 + i] = r.headers[i]
         /\ Encode(r)[6 + Len(r.headers)] = CR /\ Encode(r)[7 + Len(r.headers)] = LF
         /\ \A i \in 1..Len(r.body) : Encode(r)[7 + Len(r.headers) + i] = r.body[i]
<1> DEFINE h == r.headers
           b == r.body
           n == Len(h)
           m == Len(b)
           l == <<Word(r.method), r.path, Word("HTTP/1.1"), CR, LF>>
           e == <<CR, LF>>
           x == l \o h
           y == x \o e
           z == y \o b
<1>1. r.method \in Text /\ r.path \in Token /\ h \in Seq(Token) /\ b \in Seq(Token)
  BY DEF Requests
<1>2. n \in Nat /\ m \in Nat
  BY <1>1, LenProperties
<1>3. /\ Word(r.method) \in Token /\ Word("HTTP/1.1") \in Token
      /\ CR \in Token /\ LF \in Token
  <2>1. << >> \in Seq(Nat)
    BY EmptySeq
  <2>2. \A t \in Text : \A d \in Seq(Nat) :
          /\ [kind |-> "word", text |-> t, id |-> d] \in Token
          /\ [kind |-> "cr", text |-> t, id |-> d] \in Token
          /\ [kind |-> "lf", text |-> t, id |-> d] \in Token
    <3> SUFFICES ASSUME NEW t \in Text, NEW d \in Seq(Nat)
                 PROVE  /\ [kind |-> "word", text |-> t, id |-> d] \in Token
                        /\ [kind |-> "cr", text |-> t, id |-> d] \in Token
                        /\ [kind |-> "lf", text |-> t, id |-> d] \in Token
      BY Zenon
    <3> QED
      BY DEF Token
  <2>3. "HTTP/1.1" \in Text /\ "" \in Text
    BY TextAssumption
  <2> QED
    BY <1>1, <2>1, <2>2, <2>3 DEF Word, CR, LF
<1>4. /\ l \in Seq(Token) /\ Len(l) = 5 /\ l[1] = Word(r.method) /\ l[2] = r.path
      /\ l[3] = Word("HTTP/1.1") /\ l[4] = CR /\ l[5] = LF
  BY <1>1, <1>3
<1>5. e \in Seq(Token) /\ Len(e) = 2 /\ e[1] = CR /\ e[2] = LF
  BY <1>3
<1>6. Encode(r) = z
  BY DEF Encode
<1> HIDE DEF h, b, l, e, n, m
<1>7. /\ x \in Seq(Token) /\ Len(x) = 5 + n
      /\ \A i \in 1..5 + n : x[i] = IF i <= 5 THEN l[i] ELSE h[i - 5]
  <2>1. /\ x \in Seq(Token) /\ Len(x) = Len(l) + Len(h)
        /\ \A i \in 1..Len(l) + Len(h) : x[i] = IF i <= Len(l) THEN l[i] ELSE h[i - Len(l)]
    BY <1>1, <1>4, ConcatProperties, Zenon
  <2> QED
    BY <1>4, <2>1, Zenon DEF n
<1> HIDE DEF x
<1>8. /\ y \in Seq(Token) /\ Len(y) = 5 + n + 2
      /\ \A i \in 1..5 + n + 2 : y[i] = IF i <= 5 + n THEN x[i] ELSE e[i - (5 + n)]
  <2>1. /\ y \in Seq(Token) /\ Len(y) = Len(x) + Len(e)
        /\ \A i \in 1..Len(x) + Len(e) : y[i] = IF i <= Len(x) THEN x[i] ELSE e[i - Len(x)]
    BY <1>5, <1>7, ConcatProperties, Zenon
  <2> QED
    BY <1>5, <1>7, <2>1, Zenon
<1> HIDE DEF y
<1>9. /\ z \in Seq(Token) /\ Len(z) = 5 + n + 2 + m
      /\ \A i \in 1..5 + n + 2 + m : z[i] = IF i <= 5 + n + 2 THEN y[i] ELSE b[i - (5 + n + 2)]
  <2>1. /\ z \in Seq(Token) /\ Len(z) = Len(y) + Len(b)
        /\ \A i \in 1..Len(y) + Len(b) : z[i] = IF i <= Len(y) THEN y[i] ELSE b[i - Len(y)]
    BY <1>1, <1>8, ConcatProperties, Zenon
  <2> QED
    BY <1>8, <2>1, Zenon DEF m
<1> HIDE DEF z
<1>10. \A i \in 1..5 : z[i] = l[i]
  BY <1>2, <1>7, <1>8, <1>9
<1>11. ASSUME NEW i \in 1..n PROVE z[5 + i] = h[i]
  <2> DEFINE j == 5 + i
  <2>1. j \in 1..5 + n /\ ~(j <= 5) /\ j - 5 = i /\ j \in 1..5 + n + 2 /\ j <= 5 + n
        /\ j \in 1..5 + n + 2 + m /\ j <= 5 + n + 2
    BY <1>2
  <2> HIDE DEF j
  <2>2. z[j] = y[j] /\ y[j] = x[j] /\ x[j] = h[i]
    BY <1>7, <1>8, <1>9, <2>1, Zenon
  <2> QED
    BY <2>2, Zenon DEF j
<1>12. ASSUME NEW i \in 1..2 PROVE z[5 + n + i] = e[i]
  <2> DEFINE j == 5 + n + i
  <2>1. j \in 1..5 + n + 2 /\ ~(j <= 5 + n) /\ j - (5 + n) = i
        /\ j \in 1..5 + n + 2 + m /\ j <= 5 + n + 2
    BY <1>2
  <2> HIDE DEF j
  <2>2. z[j] = y[j] /\ y[j] = e[i]
    BY <1>8, <1>9, <2>1, Zenon
  <2> QED
    BY <2>2, Zenon DEF j
<1>13. ASSUME NEW i \in 1..m PROVE z[7 + n + i] = b[i]
  <2> DEFINE j == 7 + n + i
  <2>1. j \in 1..5 + n + 2 + m /\ ~(j <= 5 + n + 2) /\ j - (5 + n + 2) = i
    BY <1>2
  <2> HIDE DEF j
  <2>2. z[j] = b[i]
    BY <1>9, <2>1, Zenon
  <2> QED
    BY <2>2, Zenon DEF j
<1>14. Len(z) = 7 + n + m /\ 6 + n = 5 + n + 1 /\ 7 + n = 5 + n + 2
  BY <1>2, <1>9
<1>15. z[6 + n] = CR /\ z[7 + n] = LF
  BY <1>5, <1>12, <1>14
<1>16. z[1] = l[1] /\ z[2] = l[2] /\ z[3] = l[3] /\ z[4] = l[4] /\ z[5] = l[5]
  BY <1>10
<1> QED
  BY <1>2, <1>4, <1>6, <1>9, <1>11, <1>13, <1>14, <1>15, <1>16 DEF h, b, n, m

\* The tokens of the first k requests.
FirstTokens(rs, k) == FlattenSeq([i \in 1..k |-> Encode(rs[i])])

\* No requests have no tokens.
LEMMA NoTokens == ASSUME NEW rs PROVE FirstTokens(rs, 0) = << >>
<1>1. [i \in 1..0 |-> Encode(rs[i])] = << >>
  OBVIOUS
<1>2. Len(<< >>) = 0
  OBVIOUS
<1> QED
  BY <1>1, <1>2, Zenon DEF FirstTokens, FlattenSeq

\* One more request adds its tokens at the end.
LEMMA FirstTokensStep ==
  ASSUME NEW rs \in Seq(Requests), NEW k \in 1..Len(rs)
  PROVE  FirstTokens(rs, k) = FirstTokens(rs, k - 1) \o Encode(rs[k])
<1> DEFINE d == [i \in 1..k - 1 |-> Encode(rs[i])]
           e == [i \in 1..k |-> Encode(rs[i])]
<1>1. k \in Nat /\ k - 1 \in Nat /\ Len(rs) \in Nat
  BY LenProperties
<1>2. \A i \in 1..k : Encode(rs[i]) \in Seq(Token)
  <2> SUFFICES ASSUME NEW i \in 1..k PROVE Encode(rs[i]) \in Seq(Token)
    OBVIOUS
  <2>1. i \in 1..Len(rs)
    BY <1>1
  <2>2. rs[i] \in Requests
    BY <2>1, ElementOfSeq
  <2> QED
    BY <2>2, EncodeFacts
<1>3. d \in Seq(Seq(Token)) /\ Len(d) = k - 1
  <2>1. \A i \in 1..k - 1 : Encode(rs[i]) \in Seq(Token)
    BY <1>1, <1>2
  <2>2. d \in [1..k - 1 -> Seq(Token)]
    BY <2>1
  <2> QED
    BY <1>1, <2>2
<1>4. e \in Seq(Seq(Token)) /\ Len(e) = k
  <2>1. e \in [1..k -> Seq(Token)]
    BY <1>2
  <2> QED
    BY <1>1, <2>1
<1>5. \A i \in 1..Len(d) : d[i] = e[i]
  BY <1>1, <1>3
<1>6. e[k] = Encode(rs[k])
  BY <1>1
<1>7. Len(e) = Len(d) + 1
  BY <1>1, <1>3, <1>4
<1> HIDE DEF d, e
<1>8. FlattenSeq(e) = FlattenSeq(d) \o e[Len(e)]
  BY <1>3, <1>4, <1>5, <1>7, FlattenStep
<1> QED
  BY <1>4, <1>6, <1>8, Zenon DEF FirstTokens, d, e

\* Where request k starts and what lies there, in the tokens of the first n.
LEMMA FirstTokensFacts ==
  ASSUME NEW rs \in Seq(Requests), NEW n \in 0..Len(rs)
  PROVE  /\ FirstTokens(rs, n) \in Seq(Token)
         /\ \A k \in 1..n :
              /\ FirstTokens(rs, k - 1) \in Seq(Token)
              /\ Len(FirstTokens(rs, k - 1)) + Len(Encode(rs[k])) = Len(FirstTokens(rs, k))
              /\ Len(FirstTokens(rs, k)) <= Len(FirstTokens(rs, n))
              /\ \A i \in 1..Len(Encode(rs[k])) :
                   FirstTokens(rs, n)[Len(FirstTokens(rs, k - 1)) + i] = Encode(rs[k])[i]
<1> DEFINE F(k) == FirstTokens(rs, k)
           e(k) == Encode(rs[k])
           Good(m) == /\ F(m) \in Seq(Token)
                      /\ \A k \in 1..m :
                           /\ F(k - 1) \in Seq(Token)
                           /\ Len(F(k - 1)) + Len(e(k)) = Len(F(k))
                           /\ Len(F(k)) <= Len(F(m))
                           /\ \A i \in 1..Len(e(k)) : F(m)[Len(F(k - 1)) + i] = e(k)[i]
           G == {m \in 0..n : Good(m)}
<1>1. n \in Nat /\ Len(rs) \in Nat
  BY LenProperties
<1>2. ASSUME NEW m \in 0..n, 0..m - 1 \subseteq G PROVE Good(m)
  <2>1. CASE m = 0
    <3>1. F(0) = << >> /\ << >> \in Seq(Token) /\ 1..0 = {}
      BY NoTokens
    <3> HIDE DEF F, e
    <3> QED
      BY <2>1, <3>1, Zenon
  <2>2. CASE m # 0
    <3>1. m \in 1..Len(rs) /\ m - 1 \in 0..m - 1 /\ m - 1 \in Nat
      BY <1>1, <2>2
    <3>2. Good(m - 1)
      BY <1>2, <3>1
    <3>3. rs[m] \in Requests
      BY <3>1, ElementOfSeq
    <3>4. e(m) \in Seq(Token)
      BY <3>3, EncodeFacts
    <3>5. F(m) = F(m - 1) \o e(m)
      BY <3>1, FirstTokensStep
    <3> DEFINE s == F(m - 1)
               t == e(m)
               u == F(m)
    <3>6. s \in Seq(Token) /\ t \in Seq(Token) /\ u = s \o t
      BY <3>2, <3>4, <3>5
    <3> HIDE DEF s, t, u
    <3>7. /\ u \in Seq(Token) /\ Len(u) = Len(s) + Len(t) /\ Len(s) \in Nat /\ Len(t) \in Nat
          /\ \A i \in 1..Len(s) + Len(t) : u[i] = IF i <= Len(s) THEN s[i] ELSE t[i - Len(s)]
      BY <3>6, ConcatProperties, LenProperties
    <3>8. ASSUME NEW k \in 1..m
          PROVE  /\ F(k - 1) \in Seq(Token)
                 /\ Len(F(k - 1)) + Len(e(k)) = Len(F(k))
                 /\ Len(F(k)) <= Len(u)
                 /\ \A i \in 1..Len(e(k)) : u[Len(F(k - 1)) + i] = e(k)[i]
      <4>1. CASE k = m
        <5>1. F(k - 1) = s /\ e(k) = t /\ F(k) = u
          BY <4>1 DEF s, t, u
        <5>2. ASSUME NEW i \in 1..Len(t) PROVE u[Len(s) + i] = t[i]
          <6> DEFINE j == Len(s) + i
          <6>1. j \in 1..Len(s) + Len(t) /\ ~(j <= Len(s)) /\ j - Len(s) = i
            BY <3>7
          <6> HIDE DEF j
          <6>2. u[j] = t[i]
            BY <3>7, <6>1, Zenon
          <6> QED
            BY <6>2 DEF j
        <5>3. Len(u) <= Len(u) /\ Len(s) + Len(t) = Len(u)
          BY <3>7
        <5> HIDE DEF F, e
        <5> QED
          BY <3>6, <5>1, <5>2, <5>3, Zenon
      <4>2. CASE k # m
        <5>1. k \in 1..m - 1
          BY <4>2
        <5> DEFINE a == F(k - 1)
                   b == e(k)
                   c == F(k)
        <5>2. /\ a \in Seq(Token) /\ Len(a) + Len(b) = Len(c) /\ Len(c) <= Len(s)
              /\ \A i \in 1..Len(b) : s[Len(a) + i] = b[i]
          BY <3>2, <5>1 DEF s
        <5>3. k \in 1..Len(rs)
          BY <1>1
        <5>4. b \in Seq(Token)
          <6>1. rs[k] \in Requests
            BY <5>3, ElementOfSeq
          <6> QED
            BY <6>1, EncodeFacts
        <5> HIDE DEF a, b, c
        <5>5. Len(a) \in Nat /\ Len(b) \in Nat
          BY <5>2, <5>4, LenProperties
        <5>6. ASSUME NEW i \in 1..Len(b) PROVE u[Len(a) + i] = b[i]
          <6> DEFINE j == Len(a) + i
          <6>1. j \in 1..Len(s) + Len(t) /\ j <= Len(s)
            BY <3>7, <5>2, <5>5
          <6>2. s[j] = b[i]
            BY <5>2
          <6> HIDE DEF j
          <6>3. u[j] = s[j]
            BY <3>7, <6>1, Zenon
          <6> QED
            BY <6>2, <6>3 DEF j
        <5>7. Len(c) <= Len(u)
          BY <3>7, <5>2, <5>5
        <5> HIDE DEF F, e
        <5> QED
          BY <5>2, <5>6, <5>7, Zenon DEF a, b, c
      <4> QED
        BY <4>1, <4>2
    <3> QED
      BY <3>7, <3>8 DEF u
  <2> QED
    BY <2>1, <2>2
<1>3. \A m \in 0..n : 0..m - 1 \subseteq G => m \in G
  <2> HIDE DEF Good
  <2> QED
    BY <1>2
<1>4. 0..n \subseteq G
  <2> HIDE DEF G
  <2> QED
    BY <1>1, <1>3, InductionUpTo
<1>5. Good(n)
  <2> HIDE DEF Good
  <2>1. n \in 0..n
    BY <1>1
  <2> QED
    BY <1>4, <2>1
<1> QED
  BY <1>5

----------------------------------------------------------------------------
(* Reading a request *)

\* The kinds tell tokens apart.
LEMMA Kinds ==
  /\ CR.kind = "cr" /\ LF.kind = "lf" /\ CR # LF
  /\ \A w : Word(w).kind = "word" /\ Word(w) # CR /\ Word(w) # LF
  /\ \A v, w : Word(v) = Word(w) => v = w
<1>1. CR.kind = "cr" /\ LF.kind = "lf" /\ \A w : Word(w).kind = "word" /\ Word(w).text = w
  BY DEF CR, LF, Word
<1> QED
  BY <1>1

\* b holds the tokens of s from offset a on, as far as both go.
Follows(b, s, a) == \A i \in 1..Len(b) : a + i <= Len(s) => b[i] = s[a + i]

\* A buffer that starts with request r has r's request line ...
LEMMA RequestLineFacts ==
  ASSUME NEW r \in Requests, NEW b \in Seq(Token), Len(b) >= 5, Follows(b, Encode(r), 0)
  PROVE  /\ CRLFs(b) \in SUBSET Nat /\ CRLFs(b) # {} /\ Min(CRLFs(b)) = 4
         /\ Method(b) = Word(r.method) /\ Path(b) = r.path
<1> DEFINE n == Len(r.headers)
           m == Len(r.body)
           e == Encode(r)
<1>1. /\ n \in Nat /\ m \in Nat /\ Len(e) = 7 + n + m
      /\ e[1] = Word(r.method) /\ e[2] = r.path
      /\ e[3] = Word("HTTP/1.1") /\ e[4] = CR /\ e[5] = LF
  BY EncodeFacts
<1>2. Len(b) \in Nat /\ \A i \in 1..Len(b) : i <= Len(e) => b[i] = e[i]
  <2>1. \A i \in 1..Len(b) : 0 + i = i
    BY LenProperties
  <2> QED
    BY <2>1, LenProperties DEF Follows
<1> HIDE DEF e, n, m
<1>3. /\ b[1] = Word(r.method) /\ b[2] = r.path
      /\ b[3] = Word("HTTP/1.1") /\ b[4] = CR /\ b[5] = LF
  BY <1>1, <1>2
<1>4. b[1] # CR /\ b[2] # CR /\ b[3] # CR
  <2>1. r.path.kind = "word"
    BY DEF Requests
  <2> QED
    BY <1>3, <2>1, Kinds
<1> DEFINE C == CRLFs(b)
<1>5. C \in SUBSET Nat /\ 4 \in C
  BY <1>2, <1>3 DEF CRLFs
<1>6. \A k \in C : 4 <= k
  BY <1>2, <1>4 DEF CRLFs
<1> HIDE DEF C
<1>7. Min(C) = 4
  BY <1>5, <1>6, MinIs
<1>8. /\ SubSeq(b, 1, 3) \in Seq(Token) /\ Len(SubSeq(b, 1, 3)) = 3
      /\ SubSeq(b, 1, 3)[1] = b[1] /\ SubSeq(b, 1, 3)[2] = b[2]
  <2>1. 1 \in Int /\ 3 \in Int /\ \A i \in 1..3 : b[i] \in Token
    BY <1>2, ElementOfSeq
  <2> DEFINE q == SubSeq(b, 1, 3)
  <2>2. /\ q \in Seq(Token) /\ Len(q) = IF 1 <= 3 THEN 3 - 1 + 1 ELSE 0
        /\ \A i \in 1..3 - 1 + 1 : q[i] = b[1 + i - 1]
    BY <2>1, SubSeqProperties
  <2> HIDE DEF q
  <2>3. Len(q) = 3 /\ q[1] = b[1 + 1 - 1] /\ q[2] = b[1 + 2 - 1]
    BY <2>2
  <2> QED
    BY <2>2, <2>3 DEF q
<1>9. RequestLine(b) = SubSeq(b, 1, 3)
  <2>1. 4 - 1 = 3
    OBVIOUS
  <2> QED
    BY <1>7, <2>1, Zenon DEF RequestLine, C
<1>10. Method(b) = Word(r.method) /\ Path(b) = r.path
  <2> DEFINE q == SubSeq(b, 1, 3)
  <2>1. RequestLine(b) = q /\ Len(q) = 3 /\ q[1] = Word(r.method) /\ q[2] = r.path
    BY <1>3, <1>8, <1>9
  <2> HIDE DEF q
  <2>2. Len(q) >= 1 /\ Len(q) >= 2
    BY <2>1
  <2> QED
    BY <2>1, <2>2, Zenon DEF Method, Path
<1> QED
  BY <1>5, <1>7, <1>10 DEF C

\* ... and ends its headers where r does, if it goes that far.
LEMMA BlankLineFacts ==
  ASSUME NEW r \in Requests, NEW b \in Seq(Token), Follows(b, Encode(r), 0)
  PROVE  /\ BlankLines(b) # {} <=> Len(b) >= 7 + Len(r.headers)
         /\ BlankLines(b) # {} => Min(BlankLines(b)) = 6 + Len(r.headers)
<1> DEFINE h == r.headers
           n == Len(h)
           m == Len(r.body)
           e == Encode(r)
<1>1. /\ n \in Nat /\ m \in Nat /\ Len(e) = 7 + n + m
      /\ e[1] = Word(r.method) /\ e[2] = r.path
      /\ e[3] = Word("HTTP/1.1") /\ e[4] = CR /\ e[5] = LF
      /\ \A i \in 1..n : e[5 + i] = h[i]
      /\ e[6 + n] = CR /\ e[7 + n] = LF
  BY EncodeFacts
<1>2. Len(b) \in Nat /\ \A i \in 1..Len(b) : i <= Len(e) => b[i] = e[i]
  <2>1. \A i \in 1..Len(b) : 0 + i = i
    BY LenProperties
  <2> QED
    BY <2>1, LenProperties DEF Follows
<1>3. e[1] # CR /\ e[2] # CR /\ e[3] # CR /\ CR # LF
  <2>1. r.path.kind = "word"
    BY DEF Requests
  <2> QED
    BY <1>1, <2>1, Kinds
<1>4. h \in Seq(Token) /\ HeaderLines(h)
  BY DEF Requests
<1>5. /\ n # 0 => h[n - 1] = CR /\ h[n] = LF /\ ~(h[1] = CR /\ h[2] = LF) /\ n >= 2
      /\ ~ \E i \in 1..n - 1 : /\ h[i] = CR /\ h[i + 1] = LF
                               /\ i - 2 \in 1..n - 1 /\ h[i - 2] = CR /\ h[i - 2 + 1] = LF
  <2>1. h # << >> => 1 \notin CRLFs(h) /\ n - 1 \in CRLFs(h)
    BY <1>4 DEF HeaderLines
  <2>2. n # 0 => h # << >>
    BY <1>4
  <2>3. BlankLines(h) = {}
    BY <1>4 DEF HeaderLines
  <2>4. n # 0 => n - 1 \in 1..n - 1 /\ h[n - 1] = CR /\ h[n - 1 + 1] = LF
    BY <2>1, <2>2 DEF CRLFs
  <2>5. n # 0 => n >= 2 /\ n - 1 + 1 = n /\ 1 \in 1..n - 1
    BY <1>1, <2>4
  <2>6. n # 0 => ~(h[1] = CR /\ h[1 + 1] = LF)
    BY <2>1, <2>2, <2>5 DEF CRLFs
  <2>7. 1 + 1 = 2
    OBVIOUS
  <2> HIDE DEF n
  <2>8. ~ \E i \in 1..n - 1 : /\ h[i] = CR /\ h[i + 1] = LF
                              /\ i - 2 \in 1..n - 1 /\ h[i - 2] = CR /\ h[i - 2 + 1] = LF
    BY <2>3, Zenon DEF BlankLines, CRLFs, n
  <2> QED
    BY <2>4, <2>5, <2>6, <2>7, <2>8
<1> HIDE DEF e, n, m, h
<1>6. n \in Nat
  BY <1>1
<1>7. Len(b) \in Nat
  BY <1>2
<1> DEFINE C == CRLFs(b)
           B == BlankLines(b)
<1>8. \A i : i \in C <=> i \in 1..Len(b) - 1 /\ b[i] = CR /\ b[i + 1] = LF
  BY DEF CRLFs
<1>9. \A i : i \in B <=> i \in C /\ i - 2 \in C
  BY DEF BlankLines
<1> HIDE DEF C, B
<1>10. ASSUME NEW i \in B PROVE i >= 6 + n
  <2>1. i \in 1..Len(b) - 1 /\ b[i] = CR /\ b[i + 1] = LF /\ i \in Nat /\ i + 1 \in 1..Len(b)
    BY <1>2, <1>8, <1>9
  <2>2. i - 2 \in 1..Len(b) - 1 /\ b[i - 2] = CR /\ b[i - 2 + 1] = LF /\ i - 2 + 1 = i - 1
    BY <1>8, <1>9, <2>1
  <2> SUFFICES ASSUME i < 6 + n PROVE FALSE
    BY <1>1, <2>1
  <2>3. /\ e[i] = CR /\ e[i - 2] = CR /\ i >= 3
        /\ i < 6 + n => e[i + 1] = LF /\ e[i - 1] = LF
    <3>1. i \in 1..Len(b) /\ i - 2 \in 1..Len(b) /\ i - 1 \in 1..Len(b) /\ i + 1 \in 1..Len(b)
          /\ i <= Len(e) /\ i - 2 <= Len(e) /\ i - 1 <= Len(e) /\ i + 1 <= Len(e) /\ i >= 3
      BY <1>1, <1>2, <2>1, <2>2
    <3> QED
      BY <1>2, <2>1, <2>2, <3>1
  <2>4. i # 3 /\ i # 4 /\ i # 5
    BY <1>1, <1>3, <2>3
  <2>5. i \in 6..5 + n
    BY <1>1, <2>1, <2>3, <2>4
  <2> DEFINE j == i - 5
  <2>6. j \in 1..n /\ 5 + j = i /\ n # 0 /\ j \in Nat
    BY <1>1, <2>5
  <2>7. h[j] = CR
    BY <1>1, <2>3, <2>6
  <2>8. j # n
    BY <1>3, <1>5, <2>6, <2>7
  <2>9. h[j + 1] = LF
    <3>1. j + 1 \in 1..n /\ 5 + (j + 1) = i + 1
      BY <1>1, <2>6, <2>8
    <3> QED
      BY <1>1, <2>3, <3>1
  <2>10. j # 1
    BY <1>5, <2>6, <2>7, <2>9
  <2>11. j # 2
    <3>1. j = 2 => i - 2 = 5
      BY <2>6
    <3> QED
      BY <1>1, <1>3, <2>3, <3>1
  <2>12. j - 2 \in 1..n /\ 5 + (j - 2) = i - 2 /\ j - 1 \in 1..n /\ 5 + (j - 1) = i - 1
         /\ j - 2 + 1 = j - 1 /\ j \in 1..n - 1 /\ j - 2 \in 1..n - 1
    <3> HIDE DEF j
    <3>1. j \in 3..n - 1
      BY <1>6, <2>6, <2>8, <2>10, <2>11
    <3>2. 5 + j = i
      BY <2>6
    <3> QED
      BY <1>6, <3>1, <3>2
  <2>13. h[j - 2] = CR /\ h[j - 1] = LF
    BY <1>1, <2>3, <2>12
  <2>14. h[j - 2 + 1] = LF
    BY <2>12, <2>13
  <2> HIDE DEF j
  <2> QED
    BY <1>5, <2>7, <2>9, <2>12, <2>13, <2>14
<1>11. ASSUME Len(b) >= 7 + n PROVE 6 + n \in B
  <2>1. /\ b[6 + n] = CR /\ b[7 + n] = LF /\ b[4] = CR /\ b[5] = LF
        /\ \A i \in 1..n : b[5 + i] = h[i]
    <3>1. /\ 6 + n \in 1..Len(b) /\ 7 + n \in 1..Len(b) /\ 4 \in 1..Len(b) /\ 5 \in 1..Len(b)
          /\ 6 + n <= Len(e) /\ 7 + n <= Len(e) /\ 4 <= Len(e) /\ 5 <= Len(e)
      BY <1>1, <1>2, <1>11
    <3>2. b[6 + n] = e[6 + n] /\ b[7 + n] = e[7 + n] /\ b[4] = e[4] /\ b[5] = e[5]
      BY <1>2, <3>1
    <3>3. ASSUME NEW i \in 1..n PROVE b[5 + i] = h[i]
      <4>1. 5 + i \in 1..Len(b) /\ 5 + i <= Len(e)
        BY <1>1, <1>2, <1>11
      <4>2. b[5 + i] = e[5 + i]
        BY <1>2, <4>1
      <4> QED
        BY <1>1, <4>2
    <3> QED
      BY <1>1, <3>2, <3>3
  <2> DEFINE k == 6 + n
  <2>2. k \in 1..Len(b) - 1 /\ k + 1 = 7 + n /\ k - 2 \in 1..Len(b) - 1 /\ k - 2 + 1 = 5 + n
        /\ k - 2 = 4 + n
    <3>1. PICK l \in Nat : l = Len(b)
      BY <1>7
    <3>2. l >= 7 + n
      BY <1>11, <3>1
    <3>3. k \in 1..l - 1 /\ k + 1 = 7 + n /\ k - 2 \in 1..l - 1 /\ k - 2 + 1 = 5 + n
          /\ k - 2 = 4 + n
      BY <1>6, <3>2
    <3> QED
      BY <3>1, <3>3
  <2>3. b[4 + n] = CR /\ b[5 + n] = LF
    <3>1. CASE n = 0
      BY <2>1, <3>1
    <3>2. CASE n # 0
      <4>1. n - 1 \in 1..n /\ n \in 1..n /\ 5 + (n - 1) = 4 + n
        BY <1>1, <1>5, <3>2
      <4> QED
        BY <1>5, <2>1, <3>2, <4>1
    <3> QED
      BY <3>1, <3>2
  <2>4. b[k] = CR /\ b[k + 1] = LF /\ b[k - 2] = CR /\ b[k - 2 + 1] = LF
    BY <2>1, <2>2, <2>3
  <2> HIDE DEF k
  <2>5. k \in B
    BY <1>8, <1>9, <2>2, <2>4
  <2> QED
    BY <2>5 DEF k
<1>12. B \in SUBSET Nat /\ \A i \in B : i <= Len(b) - 1
  BY <1>2, <1>8, <1>9
<1>13. B # {} <=> Len(b) >= 7 + n
  <2>1. ASSUME NEW i \in B PROVE Len(b) >= 7 + n
    <3>1. i \in Nat /\ i >= 6 + n /\ i <= Len(b) - 1
      BY <1>10, <1>12
    <3> QED
      BY <1>1, <1>2, <3>1
  <2> QED
    BY <1>11, <2>1
<1>14. B # {} => Min(B) = 6 + n
  BY <1>10, <1>11, <1>12, <1>13, MinIs
<1> QED
  BY <1>13, <1>14 DEF B, n, h

\* What lies behind the empty line.
LEMMA BodyFacts ==
  ASSUME NEW r \in Requests, NEW b \in Seq(Token), Follows(b, Encode(r), 0),
         BlankLines(b) # {}
  PROVE  /\ Len(Body(b)) = Len(b) - (7 + Len(r.headers)) /\ Body(b) \in Seq(Token)
         /\ \A i \in 1..Len(Body(b)) : Body(b)[i] = b[7 + Len(r.headers) + i]
<1> DEFINE n == Len(r.headers)
           a == 8 + n
           c == Len(b)
           q == SubSeq(b, a, c)
<1>1. n \in Nat /\ c \in Nat /\ c >= 7 + n /\ Min(BlankLines(b)) = 6 + n
  BY BlankLineFacts, EncodeFacts, LenProperties
<1>2. Body(b) = q
  <2>1. (6 + n) + 2 = a
    BY <1>1
  <2> QED
    BY <1>1, <2>1, Zenon DEF Body, From
<1>3. a \in Int /\ c \in Int /\ \A i \in a..c : b[i] \in Token
  BY <1>1, ElementOfSeq
<1> HIDE DEF n, c
<1>4. /\ q \in Seq(Token) /\ Len(q) = IF a <= c THEN c - a + 1 ELSE 0
      /\ \A i \in 1..c - a + 1 : q[i] = b[a + i - 1]
  <2> HIDE DEF a
  <2> QED
    BY <1>3, SubSeqProperties
<1> HIDE DEF q
<1>5. Len(q) = c - (7 + n) /\ c - a + 1 = c - (7 + n)
  BY <1>1, <1>4
<1>6. ASSUME NEW i \in 1..Len(q) PROVE q[i] = b[7 + n + i]
  <2>1. i \in 1..c - a + 1 /\ a + i - 1 = 7 + n + i
    BY <1>1, <1>5
  <2>2. q[i] = b[a + i - 1]
    BY <1>4, <2>1
  <2> QED
    BY <2>1, <2>2
<1> QED
  BY <1>2, <1>4, <1>5, <1>6 DEF n, c

----------------------------------------------------------------------------
(* The strings of a body *)

\* Max returns the greatest element of a bounded set.
LEMMA MaxFacts ==
  ASSUME NEW n \in Nat, NEW T \in SUBSET (0..n), T # {}
  PROVE  Max(T) \in T
<1> DEFINE U == {k \in 0..n : n - k \in T}
<1>1. U \in SUBSET Nat /\ U # {}
  <2>1. PICK t \in T : TRUE
    OBVIOUS
  <2>2. n - t \in 0..n /\ n - (n - t) = t
    OBVIOUS
  <2> QED
    BY <2>2
<1>2. PICK m \in U : \A k \in U : m <= k
  BY <1>1, LeastNumber
<1>3. n - m \in T
  OBVIOUS
<1>4. ASSUME NEW y \in T PROVE n - m >= y
  <2>1. n - y \in 0..n /\ n - (n - y) = y
    OBVIOUS
  <2>2. m <= n - y
    BY <1>2, <2>1
  <2> QED
    BY <2>2
<1>5. \E x \in T : \A y \in T : x >= y
  BY <1>3, <1>4
<1> QED
  BY <1>5, Zenon DEF Max

\* extractJsonStr finds the string behind the first key.
LEMMA JsonValue ==
  ASSUME NEW d \in Seq(Token), NEW key, NEW k \in 1..Len(d) - 1,
         d[k].kind = "str", d[k].text = key, d[k + 1].kind = "str",
         \A i \in 1..k - 1 : ~(d[i].kind = "str" /\ d[i].text = key)
  PROVE  KeyPlaces(d, key) # {} /\ ExtractJsonStr(d, key) = d[k + 1].text
<1> DEFINE K == KeyPlaces(d, key)
           J == {j \in DOMAIN d : j > k /\ d[j].kind = "str"}
<1>1. Len(d) \in Nat /\ DOMAIN d = 1..Len(d) /\ k \in Nat
  BY LenProperties
<1>2. \A i : i \in K <=> /\ i \in 1..Len(d) /\ d[i].kind = "str" /\ d[i].text = key
                         /\ \E j \in 1..Len(d) : d[j].kind = "str" /\ j > i
  BY <1>1, Zenon DEF KeyPlaces
<1>3. K \in SUBSET Nat
  BY <1>1, <1>2
<1>4. k \in 1..Len(d) /\ k + 1 \in 1..Len(d) /\ k + 1 > k
  BY <1>1
<1>5. k \in K
  BY <1>2, <1>4
<1>6. \A i \in K : k <= i
  BY <1>1, <1>2
<1> HIDE DEF K
<1>7. Min(K) = k
  BY <1>3, <1>5, <1>6, MinIs
<1>8. J \in SUBSET Nat /\ k + 1 \in J /\ \A j \in J : k + 1 <= j
  BY <1>1, <1>4
<1>9. Min(J) = k + 1
  <2> DEFINE x == k + 1
  <2> HIDE DEF J, x
  <2>1. J \in SUBSET Nat /\ x \in J /\ \A j \in J : x <= j
    BY <1>8 DEF x
  <2> QED
    BY <2>1, MinIs DEF x
<1>10. ExtractJsonStr(d, key) = NextStr(d, k)
  BY <1>5, <1>7, Zenon DEF ExtractJsonStr, K
<1>11. NextStr(d, k) = d[k + 1].text
  BY <1>9, Zenon DEF NextStr
<1> QED
  BY <1>5, <1>10, <1>11 DEF K

\* Where the first key with a string behind it stands.
LEMMA FirstKey ==
  ASSUME NEW d \in Seq(Token), NEW key, KeyPlaces(d, key) # {}
  PROVE  \E k \in 1..Len(d) - 1 :
           /\ d[k].kind = "str" /\ d[k].text = key
           /\ \A i \in 1..k - 1 : ~(d[i].kind = "str" /\ d[i].text = key)
           /\ \E j \in k + 1..Len(d) : d[j].kind = "str"
<1> DEFINE K == KeyPlaces(d, key)
<1>1. Len(d) \in Nat /\ DOMAIN d = 1..Len(d)
  BY LenProperties
<1>2. \A i : i \in K <=> /\ i \in 1..Len(d) /\ d[i].kind = "str" /\ d[i].text = key
                         /\ \E j \in 1..Len(d) : d[j].kind = "str" /\ j > i
  BY <1>1, Zenon DEF KeyPlaces
<1>3. K \in SUBSET Nat /\ K # {}
  BY <1>1, <1>2
<1> HIDE DEF K
<1>4. PICK k \in K : \A i \in K : k <= i
  BY <1>3, LeastNumber
<1>5. k \in 1..Len(d) /\ d[k].kind = "str" /\ d[k].text = key
  BY <1>2, <1>4
<1>6. PICK j \in 1..Len(d) : d[j].kind = "str" /\ j > k
  BY <1>2, <1>4
<1>7. k \in 1..Len(d) - 1 /\ j \in k + 1..Len(d)
  BY <1>1, <1>5, <1>6
<1>8. ASSUME NEW i \in 1..k - 1, d[i].kind = "str" /\ d[i].text = key PROVE FALSE
  <2>1. i \in 1..Len(d) /\ k > i /\ ~(k <= i)
    BY <1>1, <1>5
  <2>2. i \in K
    BY <1>2, <1>5, <1>8, <2>1
  <2> QED
    BY <1>4, <2>1, <2>2
<1> QED
  BY <1>5, <1>6, <1>7, <1>8

\* The value of a key is in a sequence of strings what it is in every longer
\* sequence that starts with them.
LEMMA JsonPrefix ==
  ASSUME NEW c \in Seq(Token), NEW d \in Seq(Token), NEW key,
         Len(c) <= Len(d), \A i \in 1..Len(c) : c[i] = d[i] /\ c[i].kind = "str",
         KeyPlaces(c, key) # {}
  PROVE  ExtractJsonStr(d, key) = ExtractJsonStr(c, key)
<1>1. Len(c) \in Nat /\ Len(d) \in Nat
  BY LenProperties
<1>2. PICK k \in 1..Len(c) - 1 :
           /\ c[k].kind = "str" /\ c[k].text = key
           /\ \A i \in 1..k - 1 : ~(c[i].kind = "str" /\ c[i].text = key)
  BY FirstKey
<1>3. k \in 1..Len(c) /\ k + 1 \in 1..Len(c) /\ k \in 1..Len(d) - 1
  BY <1>1
<1>4. \A i \in 1..k - 1 : i \in 1..Len(c)
  BY <1>1
<1>5. /\ d[k].kind = "str" /\ d[k].text = key /\ d[k + 1].kind = "str" /\ c[k + 1].kind = "str"
      /\ d[k + 1] = c[k + 1]
      /\ \A i \in 1..k - 1 : ~(d[i].kind = "str" /\ d[i].text = key)
  BY <1>2, <1>3, <1>4
<1>6. ExtractJsonStr(c, key) = c[k + 1].text
  BY <1>2, <1>5, JsonValue
<1>7. ExtractJsonStr(d, key) = d[k + 1].text
  BY <1>3, <1>5, JsonValue
<1> QED
  BY <1>5, <1>6, <1>7

\* What extractJsonStr returns is a text, empty when it finds no key.
LEMMA JsonText ==
  ASSUME NEW d \in Seq(Token), NEW key
  PROVE  /\ ExtractJsonStr(d, key) \in Text
         /\ KeyPlaces(d, key) = {} => ExtractJsonStr(d, key) = ""
<1>1. CASE KeyPlaces(d, key) = {}
  <2>1. ExtractJsonStr(d, key) = ""
    BY <1>1, Zenon DEF ExtractJsonStr
  <2> QED
    BY <2>1, TextAssumption
<1>2. CASE KeyPlaces(d, key) # {}
  <2> DEFINE m == Min(KeyPlaces(d, key))
             J == {j \in DOMAIN d : j > m /\ d[j].kind = "str"}
  <2>1. Len(d) \in Nat /\ DOMAIN d = 1..Len(d)
    BY LenProperties
  <2>2. KeyPlaces(d, key) \in SUBSET Nat
    BY <2>1 DEF KeyPlaces
  <2>3. m \in KeyPlaces(d, key)
    BY <1>2, <2>2, MinFacts
  <2>4. \E j \in DOMAIN d : d[j].kind = "str" /\ j > m
    BY <2>3, Zenon DEF KeyPlaces
  <2>5. ExtractJsonStr(d, key) = d[Min(J)].text
    BY <1>2, Zenon DEF ExtractJsonStr, NextStr
  <2> HIDE DEF m
  <2>6. J \in SUBSET Nat /\ J # {}
    BY <2>1, <2>4
  <2>7. Min(J) \in J
    <3> HIDE DEF J
    <3> QED
      BY <2>6, MinFacts
  <2>8. Min(J) \in 1..Len(d)
    BY <2>1, <2>7
  <2>9. d[Min(J)] \in Token
    <3> HIDE DEF J
    <3> QED
      BY <2>8, ElementOfSeq
  <2>10. d[Min(J)].text \in Text
    BY <2>9 DEF Token
  <2> QED
    BY <1>2, <2>5, <2>10
<1> QED
  BY <1>1, <1>2

\* Posted returns a command.
LEMMA PostedType == ASSUME NEW d \in Seq(Token) PROVE Posted(d) \in Commands
<1> DEFINE p == ExtractJsonStr(d, "params")
           q == IF p = "" THEN "{}" ELSE p
<1>1. /\ ExtractJsonStr(d, "device_id") \in Text /\ ExtractJsonStr(d, "command") \in Text
      /\ p \in Text
  BY JsonText
<1>2. q \in Text
  BY <1>1, TextAssumption
<1>3. Posted(d) = [device |-> ExtractJsonStr(d, "device_id"),
                   command |-> ExtractJsonStr(d, "command"), params |-> q]
  BY Zenon DEF Posted
<1> HIDE DEF q
<1> QED
  BY <1>1, <1>2, <1>3 DEF Commands

----------------------------------------------------------------------------
(* What is read of the stream *)

\* The stream starts with the first request.
LEMMA StreamFacts ==
  ASSUME requests \in Conversations
  PROVE  /\ requests \in Seq(Requests) /\ Len(requests) \in Nat \ {0}
         /\ Stream = FirstTokens(requests, Len(requests)) /\ Stream \in Seq(Token)
         /\ requests[1] \in Requests /\ FirstEnd <= Len(Stream)
         /\ \A i \in 1..FirstEnd : Stream[i] = Encode(requests[1])[i]
<1> DEFINE rs == requests
           n == Len(rs)
           e == Encode(rs[1])
           s == FirstTokens(rs, n)
<1>1. rs \in Seq(Requests) /\ rs # << >>
  BY ConversationAssumption
<1>2. n \in Nat \ {0} /\ DOMAIN rs = 1..n
  BY <1>1, EmptySeq, LenProperties
<1>3. Stream = s
  BY <1>2, Zenon DEF Stream, FirstTokens
<1>4. rs[1] \in Requests
  BY <1>1, <1>2, ElementOfSeq
<1>5. e \in Seq(Token) /\ Len(e) \in Nat
  BY <1>4, EncodeFacts, LenProperties
<1>6. n \in 0..Len(rs) /\ 1 \in 1..n /\ 1 - 1 = 0
  BY <1>2
<1>7. /\ s \in Seq(Token) /\ Len(FirstTokens(rs, 0)) + Len(e) = Len(FirstTokens(rs, 1))
      /\ Len(FirstTokens(rs, 1)) <= Len(s)
      /\ \A i \in 1..Len(e) : s[Len(FirstTokens(rs, 0)) + i] = e[i]
  <2> HIDE DEF n
  <2>1. /\ s \in Seq(Token)
        /\ \A k \in 1..n :
             /\ FirstTokens(rs, k - 1) \in Seq(Token)
             /\ Len(FirstTokens(rs, k - 1)) + Len(Encode(rs[k])) = Len(FirstTokens(rs, k))
             /\ Len(FirstTokens(rs, k)) <= Len(s)
             /\ \A i \in 1..Len(Encode(rs[k])) :
                  s[Len(FirstTokens(rs, k - 1)) + i] = Encode(rs[k])[i]
    BY <1>1, <1>6, FirstTokensFacts
  <2> HIDE DEF s
  <2>2. /\ Len(FirstTokens(rs, 1 - 1)) + Len(Encode(rs[1])) = Len(FirstTokens(rs, 1))
        /\ Len(FirstTokens(rs, 1)) <= Len(s)
        /\ \A i \in 1..Len(Encode(rs[1])) :
             s[Len(FirstTokens(rs, 1 - 1)) + i] = Encode(rs[1])[i]
    BY <1>6, <2>1, Zenon
  <2> QED
    BY <1>6, <2>1, <2>2, Zenon
<1>8. Len(FirstTokens(rs, 0)) = 0
  BY NoTokens
<1>9. Len(e) <= Len(s) /\ \A i \in 1..Len(e) : s[i] = e[i]
  <2>1. \A i \in 1..Len(e) : 0 + i = i
    BY <1>5
  <2>2. 0 + Len(e) = Len(e)
    BY <1>5
  <2> HIDE DEF e, s
  <2> QED
    BY <1>7, <1>8, <2>1, <2>2
<1> QED
  BY <1>1, <1>2, <1>3, <1>4, <1>7, <1>9 DEF FirstEnd

\* Its first line ends behind five tokens.
LEMMA FirstLine ==
  ASSUME requests \in Conversations
  PROVE  /\ FirstLineEnd = 5 /\ FirstEnd \in Nat /\ FirstEnd >= 7
         /\ FirstEnd = 7 + Len(requests[1].headers) + Len(requests[1].body)
<1> DEFINE r == requests[1]
           n == Len(r.headers)
           m == Len(r.body)
           s == Stream
<1>1. /\ s \in Seq(Token) /\ r \in Requests /\ FirstEnd <= Len(s)
      /\ \A i \in 1..FirstEnd : s[i] = Encode(r)[i]
  BY StreamFacts
<1>2. n \in Nat /\ m \in Nat /\ Len(Encode(r)) = 7 + n + m
  BY <1>1, EncodeFacts
<1>3. FirstEnd = 7 + n + m
  BY <1>2 DEF FirstEnd
<1> HIDE DEF n, m
<1>4. FirstEnd \in Nat /\ FirstEnd >= 7 /\ Len(s) \in Nat
  BY <1>1, <1>2, <1>3, LenProperties
<1>5. Follows(s, Encode(r), 0)
  <2>1. ASSUME NEW i \in 1..Len(s), 0 + i <= Len(Encode(r)) PROVE s[i] = Encode(r)[0 + i]
    <3>1. 0 + i = i /\ i \in 1..FirstEnd
      BY <1>2, <1>3, <2>1
    <3> QED
      BY <1>1, <3>1
  <2> QED
    BY <2>1 DEF Follows
<1>6. Len(s) >= 5
  BY <1>1, <1>4
<1>7. Min(CRLFs(s)) = 4
  <2> HIDE DEF s, r
  <2> QED
    BY <1>1, <1>5, <1>6, RequestLineFacts
<1>8. FirstLineEnd = 5
  BY <1>7 DEF FirstLineEnd
<1> QED
  BY <1>3, <1>4, <1>8 DEF n, m

\* A read appends what the stream holds next.
LEMMA ReadFacts ==
  ASSUME TypeOK, InputIsTail, NEW end \in received + 1..Len(Stream), NEW b,
         b = input \o SubSeq(Stream, received + 1, end)
  PROVE  /\ b \in Seq(Token) /\ TailOf(b, end) /\ Len(b) = Len(input) + (end - received)
         /\ end \in Nat /\ end > received /\ end <= Len(Stream)
<1> DEFINE s == Stream
           a == received
           t == SubSeq(s, a + 1, end)
           k == Len(input)
<1>1. s \in Seq(Token) /\ a \in Nat /\ input \in Seq(Token)
  BY StreamFacts DEF TypeOK
<1>2. Len(s) \in Nat /\ k \in Nat
  BY <1>1, LenProperties
<1>3. k <= a /\ a <= Len(s) /\ \A i \in 1..k : input[i] = s[a - k + i]
  BY DEF InputIsTail, TailOf
<1>4. a + 1 \in Int /\ end \in Int /\ \A i \in a + 1..end : s[i] \in Token
  BY <1>1, <1>2, ElementOfSeq
<1>5. /\ t \in Seq(Token) /\ Len(t) = IF a + 1 <= end THEN end - (a + 1) + 1 ELSE 0
      /\ \A i \in 1..end - (a + 1) + 1 : t[i] = s[a + 1 + i - 1]
  <2> DEFINE c == a + 1
  <2>1. c \in Int /\ end \in Int /\ \A i \in c..end : s[i] \in Token
    BY <1>4
  <2> HIDE DEF c, s
  <2>2. /\ SubSeq(s, c, end) \in Seq(Token)
        /\ Len(SubSeq(s, c, end)) = IF c <= end THEN end - c + 1 ELSE 0
        /\ \A i \in 1..end - c + 1 : SubSeq(s, c, end)[i] = s[c + i - 1]
    BY <2>1, SubSeqProperties
  <2> QED
    BY <2>2 DEF c
<1> HIDE DEF t, s
<1>6. Len(t) = end - a /\ end \in Nat /\ a < end /\ end <= Len(s)
  BY <1>1, <1>2, <1>5 DEF s
<1>7. /\ b \in Seq(Token) /\ Len(b) = k + Len(t)
      /\ \A i \in 1..k + Len(t) : b[i] = IF i <= k THEN input[i] ELSE t[i - k]
  <2>1. b = input \o t
    BY DEF t, s
  <2> QED
    <3>1. /\ input \o t \in Seq(Token) /\ Len(input \o t) = Len(input) + Len(t)
          /\ \A i \in 1..Len(input) + Len(t) :
               (input \o t)[i] = IF i <= Len(input) THEN input[i] ELSE t[i - Len(input)]
      BY <1>1, <1>5, ConcatProperties, Zenon
    <3> QED
      BY <2>1, <3>1, Zenon
<1> HIDE DEF k
<1>8. Len(b) = k + (end - a) /\ Len(b) \in Nat
  BY <1>6, <1>7, LenProperties
<1>9. ASSUME NEW i \in 1..Len(b) PROVE b[i] = s[end - Len(b) + i]
  <2>1. end - Len(b) + i = a - k + i
    <3> DEFINE l == Len(b)
    <3>1. l \in Nat /\ l = k + (end - a) /\ i \in 1..l
      BY <1>8, Zenon
    <3> HIDE DEF l, a
    <3>2. end - l + i = a - k + i
      BY <1>1, <1>2, <1>6, <3>1
    <3> QED
      BY <3>2 DEF l
  <2>2. CASE i <= k
    <3>1. i \in 1..k /\ i \in 1..k + Len(t)
      BY <1>2, <1>7, <2>2
    <3>2. b[i] = input[i]
      BY <1>7, <2>2, <3>1
    <3> QED
      BY <1>3, <2>1, <3>1, <3>2
  <2>3. CASE ~(i <= k)
    <3> DEFINE j == i - k
    <3>1. i \in 1..k + Len(t) /\ j \in 1..end - (a + 1) + 1 /\ a + 1 + j - 1 = a - k + i
      BY <1>1, <1>2, <1>6, <1>7, <2>3
    <3>2. b[i] = t[j]
      BY <1>7, <2>3, <3>1
    <3> HIDE DEF j
    <3>3. t[j] = s[a + 1 + j - 1]
      BY <1>5, <3>1
    <3> QED
      BY <2>1, <3>1, <3>2, <3>3
  <2> QED
    BY <2>2, <2>3
<1>10. Len(b) <= end /\ end <= Len(s) /\ Len(b) = k + (end - a)
  BY <1>1, <1>2, <1>3, <1>6, <1>7
<1> QED
  BY <1>6, <1>7, <1>9, <1>10 DEF TailOf, s, k

\* Retrieving from the front leaves a shorter tail.
LEMMA TailShorter ==
  ASSUME TypeOK, NEW end \in Nat, NEW b \in Seq(Token), TailOf(b, end),
         NEW k \in 1..Len(b) + 1
  PROVE  /\ From(b, k) \in Seq(Token) /\ TailOf(From(b, k), end)
         /\ Len(From(b, k)) <= Len(b)
<1> DEFINE n == Len(b)
           q == SubSeq(b, k, n)
<1>1. n \in Nat /\ k \in Int /\ n \in Int /\ \A i \in k..n : b[i] \in Token
  BY LenProperties, ElementOfSeq
<1>2. /\ q \in Seq(Token) /\ Len(q) = IF k <= n THEN n - k + 1 ELSE 0
      /\ \A i \in 1..n - k + 1 : q[i] = b[k + i - 1]
  <2> HIDE DEF n
  <2> QED
    BY <1>1, SubSeqProperties
<1>3. From(b, k) = q
  BY DEF From
<1> HIDE DEF q
<1>4. n <= end /\ end <= Len(Stream) /\ \A i \in 1..n : b[i] = Stream[end - n + i]
  BY DEF TailOf
<1> HIDE DEF n
<1>5. k \in 1..n + 1
  BY DEF n
<1>6. Len(q) = n - k + 1 /\ Len(q) <= end /\ Len(q) <= n
  BY <1>1, <1>2, <1>4, <1>5
<1>7. ASSUME NEW i \in 1..Len(q) PROVE q[i] = Stream[end - Len(q) + i]
  <2> DEFINE j == k + i - 1
  <2>1. i \in 1..n - k + 1 /\ j \in 1..n /\ end - n + j = end - Len(q) + i
    BY <1>1, <1>5, <1>6
  <2>2. q[i] = b[j]
    BY <1>2, <2>1
  <2> HIDE DEF j
  <2>3. b[j] = Stream[end - n + j]
    BY <1>4, <2>1
  <2> QED
    BY <2>1, <2>2, <2>3
<1> QED
  BY <1>2, <1>3, <1>4, <1>6, <1>7 DEF TailOf, n

\* What an early return leaves in the buffer.
LEMMA UnfinishedFacts ==
  ASSUME TypeOK, NEW end \in Nat, NEW b \in Seq(Token), TailOf(b, end)
  PROVE  /\ Unfinished(b) \in Seq(Token) /\ TailOf(Unfinished(b), end)
         /\ Len(Unfinished(b)) <= Len(b) /\ Len(Unfinished(b)) \in Nat
<1>1. CASE CRLFs(b) = {}
  BY <1>1, LenProperties DEF Unfinished
<1>2. CASE CRLFs(b) # {}
  <2> DEFINE C == CRLFs(b)
             k == Max(C) + 2
  <2>1. Len(b) \in Nat
    BY LenProperties
  <2>2. C \in SUBSET (0..Len(b)) /\ \A i \in C : i \in 1..Len(b) - 1
    BY <2>1 DEF CRLFs
  <2>3. Max(C) \in C
    <3> HIDE DEF C
    <3>1. C # {}
      BY <1>2 DEF C
    <3> QED
      BY <2>1, <2>2, <3>1, MaxFacts
  <2> HIDE DEF C
  <2>4. k \in 1..Len(b) + 1
    <3> DEFINE x == Max(C)
    <3>1. x \in 1..Len(b) - 1
      BY <2>2, <2>3
    <3> HIDE DEF x
    <3>2. x + 2 \in 1..Len(b) + 1
      BY <2>1, <3>1
    <3> QED
      BY <3>2 DEF x
  <2>5. Unfinished(b) = From(b, k)
    BY <1>2, Zenon DEF Unfinished, C
  <2> HIDE DEF k
  <2> QED
    BY <2>4, <2>5, TailShorter, LenProperties
<1> QED
  BY <1>1, <1>2

\* What the handlers use as the body.
LEMMA BodyType ==
  ASSUME NEW b \in Seq(Token), BlankLines(b) # {}
  PROVE  Body(b) \in Seq(Token)
<1> DEFINE B == BlankLines(b)
           k == Min(B) + 2
           n == Len(b)
<1>1. n \in Nat /\ B \in SUBSET Nat
  BY LenProperties DEF BlankLines, CRLFs
<1>2. Min(B) \in B
  <2> HIDE DEF B
  <2>1. B # {}
    BY DEF B
  <2> QED
    BY <1>1, <2>1, MinFacts
<1>3. Min(B) \in Nat
  BY <1>1, <1>2
<1>4. k \in Int /\ n \in Int /\ \A i \in k..n : b[i] \in Token
  BY <1>1, <1>3, ElementOfSeq
<1>5. Body(b) = SubSeq(b, k, n)
  BY Zenon DEF Body, From
<1> HIDE DEF k, n
<1> QED
  BY <1>4, <1>5, SubSeqProperties

\* The buffer after everything was retrieved.
LEMMA NoTail ==
  ASSUME NEW end \in Nat, end <= Len(Stream)
  PROVE  << >> \in Seq(Token) /\ Len(<< >>) = 0 /\ TailOf(<< >>, end)
<1>1. << >> \in Seq(Token) /\ Len(<< >>) = 0 /\ 1..0 = {}
  OBVIOUS
<1>2. 0 <= end
  OBVIOUS
<1> QED
  BY <1>1, <1>2 DEF TailOf

----------------------------------------------------------------------------
(* Types, the buffer, and one answer per connection *)

\* What the API's routes enqueue: nothing or the command of a body.
LEMMA RouteFacts ==
  ASSUME NEW m, NEW p, NEW d
  PROVE  ApiRoute(m, p, d).commands =
           IF <<m, p>> = PostLine /\ ~Missing(Posted(d)) THEN <<Posted(d)>> ELSE << >>
<1>1. <<m, p>> = PostLine <=> m = Word("POST") /\ p = Word("/api/v1/commands")
  BY DEF PostLine
<1>2. CASE <<m, p>> = PostLine
  <2>1. Word("POST") # Word("GET")
    BY Kinds
  <2>2. ApiRoute(m, p, d) = HandlePostCommand(d)
    BY <1>1, <1>2, <2>1, Zenon DEF ApiRoute
  <2>3. CASE Missing(Posted(d))
    <3>1. HandlePostCommand(d) = [reply |-> Reply(400, "missing", << >>), commands |-> << >>]
      BY <2>3, Zenon DEF HandlePostCommand
    <3> QED
      BY <1>2, <2>2, <2>3, <3>1
  <2>4. CASE ~Missing(Posted(d))
    <3>1. HandlePostCommand(d) = [reply |-> Reply(200, Posted(d).device, << >>),
                                  commands |-> <<Posted(d)>>]
      BY <2>4, Zenon DEF HandlePostCommand
    <3> QED
      BY <1>2, <2>2, <2>4, <3>1
  <2> QED
    BY <2>3, <2>4
<1>3. CASE <<m, p>> # PostLine
  <2>1. CASE m = Word("GET")
    <3>1. ApiRoute(m, p, d) = [reply |-> HandleGet(p), commands |-> << >>]
      BY <1>1, <1>3, <2>1, Zenon DEF ApiRoute
    <3> QED
      BY <1>3, <3>1
  <2>2. CASE m # Word("GET")
    <3> DEFINE x == Reply(404, "not found", << >>)
    <3>1. ApiRoute(m, p, d) = [reply |-> x, commands |-> << >>]
      BY <1>1, <1>3, <2>2, Zenon DEF ApiRoute
    <3> HIDE DEF x
    <3> QED
      BY <1>3, <3>1
  <2> QED
    BY <2>1, <2>2
<1> QED
  BY <1>2, <1>3

\* A function on 1..n is a sequence of length n.
LEMMA FunctionIsSeq ==
  ASSUME NEW S, NEW n \in Nat, NEW f \in [1..n -> S]
  PROVE  f \in Seq(S) /\ Len(f) = n
<1>1. f \in Seq(S)
  BY SeqDef
<1>2. DOMAIN f = 1..n /\ DOMAIN f = 1..Len(f) /\ Len(f) \in Nat
  BY <1>1, LenProperties
<1> QED
  BY <1>1, <1>2

\* A response: head, body and FIN of one reply.
Response(reply) == [i \in 1..3 |-> Part(<<"head", "body", "fin">>[i], reply)]

\* Its parts are in that order and all of one reply.
LEMMA ResponseFacts ==
  ASSUME NEW reply
  PROVE  /\ << >> \o Response(reply) = Response(reply) /\ Len(Response(reply)) = 3
         /\ \A i \in 1..3 : Response(reply)[i].of = reply
         /\ [i \in 1..3 |-> Response(reply)[i].part] = <<"head", "body", "fin">>
<1> DEFINE S == {Part(<<"head", "body", "fin">>[i], reply) : i \in 1..3}
           q == Response(reply)
<1>1. q \in [1..3 -> S] /\ \A i \in 1..3 : q[i] = Part(<<"head", "body", "fin">>[i], reply)
  BY Zenon DEF Response
<1> HIDE DEF q
<1>2. q \in Seq(S) /\ Len(q) = 3
  <2> HIDE DEF S
  <2> QED
    BY <1>1, FunctionIsSeq
<1>3. \A i \in 1..3 : q[i].part = <<"head", "body", "fin">>[i] /\ q[i].of = reply
  BY <1>1 DEF Part
<1>4. [i \in 1..3 |-> q[i].part] = [i \in 1..3 |-> <<"head", "body", "fin">>[i]]
  BY <1>3, Zenon
<1>5. [i \in 1..3 |-> <<"head", "body", "fin">>[i]] = <<"head", "body", "fin">>
  OBVIOUS
<1>6. << >> \o q = q
  BY <1>2, ConcatEmptySeq
<1> QED
  BY <1>2, <1>3, <1>4, <1>5, <1>6, Zenon DEF q

\* sendHttpResponse in a state where at most one answer was sent.
LEMMA SendFacts ==
  ASSUME OneAnswer, TypeOK, state # "terminated", NEW reply, SendHttpResponse(reply)
  PROVE  /\ OneAnswer' /\ state' = "disconnecting"
         /\ state # "connected" => output' = output
         /\ state = "connected" => Len(output') = 3 /\ \A i \in 1..3 : output'[i].of = reply
<1>1. CASE state = "connected"
  <2> DEFINE q == Response(reply)
  <2>1. output = << >>
    BY <1>1 DEF OneAnswer
  <2>2. output' = << >> \o q /\ state' = "disconnecting"
    BY <1>1, <2>1, Zenon DEF SendHttpResponse, Response
  <2>3. /\ << >> \o q = q /\ Len(q) = 3 /\ \A i \in 1..3 : q[i].of = reply
        /\ [i \in 1..3 |-> q[i].part] = <<"head", "body", "fin">>
    BY ResponseFacts
  <2> HIDE DEF q
  <2>4. output' = q
    BY <2>2, <2>3
  <2>5. q[1].of = q[2].of
    BY <2>3
  <2>6. state' # "connected"
    BY <2>2
  <2>7. OneAnswer'
    BY <2>3, <2>4, <2>5, <2>6, Zenon DEF OneAnswer
  <2> QED
    BY <1>1, <2>2, <2>3, <2>4, <2>7
<1>2. CASE state # "connected"
  <2>1. output' = output /\ state' = state
    BY <1>2, Zenon DEF SendHttpResponse
  <2>2. state = "disconnecting"
    BY <1>2 DEF TypeOK
  <2>3. OneAnswer'
    BY <2>1, Zenon DEF OneAnswer
  <2> QED
    BY <1>2, <2>1, <2>2, <2>3
<1> QED
  BY <1>1, <1>2

\* What a handler does with a whole header, and to whom.
LEMMA HandlerFacts ==
  ASSUME TypeOK, OneAnswer, state # "terminated", NEW b,
         ApiHandlesRequest(b) \/ DashboardHandlesRequest(b)
  PROVE  /\ BlankLines(b) # {} /\ input' = << >> /\ OneAnswer'
         /\ state' \in {"disconnecting", "terminated"}
         /\ state # "connected" => output' = output
         /\ server = "api" /\ Throws(Method(b), Path(b)) =>
              state' = "terminated" /\ output' = output /\ enqueued' = enqueued
         /\ server = "api" /\ ~Throws(Method(b), Path(b)) =>
              /\ enqueued' = enqueued \o ApiRoute(Method(b), Path(b), Body(b)).commands
              /\ state = "connected" =>
                   /\ Len(output') = 3
                   /\ \A i \in 1..3 :
                        output'[i].of = ApiRoute(Method(b), Path(b), Body(b)).reply
         /\ server = "dashboard" =>
              /\ enqueued' = enqueued
              /\ state = "connected" =>
                   Len(output') = 3 /\ \A i \in 1..3 : output'[i].of = DashboardRoute(Path(b))
<1>1. CASE ApiHandlesRequest(b)
  <2> DEFINE R == ApiRoute(Method(b), Path(b), Body(b))
  <2>1. /\ server = "api" /\ BlankLines(b) # {} /\ input' = << >>
        /\ Throws(Method(b), Path(b)) =>
             state' = "terminated" /\ output' = output /\ enqueued' = enqueued
        /\ ~Throws(Method(b), Path(b)) =>
             SendHttpResponse(R.reply) /\ enqueued' = enqueued \o R.commands
    BY <1>1, Zenon DEF ApiHandlesRequest
  <2>2. CASE Throws(Method(b), Path(b))
    <3>1. state' = "terminated" /\ output' = output
      BY <2>1, <2>2
    <3>2. OneAnswer'
      BY <3>1 DEF OneAnswer
    <3> QED
      BY <2>1, <2>2, <3>2
  <2>3. CASE ~Throws(Method(b), Path(b))
    <3>1. PICK reply : reply = R.reply
      OBVIOUS
    <3>2. SendHttpResponse(reply)
      BY <2>1, <2>3, <3>1, Zenon
    <3>3. /\ OneAnswer' /\ state' = "disconnecting"
          /\ state # "connected" => output' = output
          /\ state = "connected" => Len(output') = 3 /\ \A i \in 1..3 : output'[i].of = reply
      BY <3>2, SendFacts
    <3> HIDE DEF R
    <3>4. server # "dashboard"
      BY <2>1
    <3> QED
      BY <2>1, <2>3, <3>1, <3>3, <3>4, Zenon DEF R
  <2> QED
    BY <2>2, <2>3
<1>2. CASE DashboardHandlesRequest(b)
  <2>1. /\ server = "dashboard" /\ BlankLines(b) # {} /\ input' = << >>
        /\ SendHttpResponse(DashboardRoute(Path(b))) /\ enqueued' = enqueued
    BY <1>2, Zenon DEF DashboardHandlesRequest
  <2>2. PICK reply : reply = DashboardRoute(Path(b))
    OBVIOUS
  <2>3. SendHttpResponse(reply)
    BY <2>1, <2>2, Zenon
  <2>4. /\ OneAnswer' /\ state' = "disconnecting"
        /\ state # "connected" => output' = output
        /\ state = "connected" => Len(output') = 3 /\ \A i \in 1..3 : output'[i].of = reply
    BY <2>3, SendFacts
  <2>5. server # "api"
    BY <2>1
  <2> QED
    BY <2>1, <2>2, <2>4, <2>5, Zenon
<1> QED
  BY <1>1, <1>2

\* The parts of HandleRead.
LEMMA ReadParts ==
  ASSUME TypeOK, InputIsTail, NEW end \in received + 1..Len(Stream), HandleRead(end)
  PROVE  \E b \in Seq(Token) :
           /\ state # "terminated" /\ received' = end
           /\ split' = (split \/ end \in FirstLineEnd..FirstEnd - 1)
           /\ covered' = (IF covered = 0 /\ end >= FirstEnd THEN end ELSE covered)
           /\ \/ ApiHandlesRequest(b) \/ DashboardHandlesRequest(b) \/ NoWholeHeader(b)
           /\ server' = server /\ requests' = requests
           /\ TailOf(b, end) /\ Len(b) = Len(input) + (end - received)
           /\ end \in Nat /\ end > received /\ end <= Len(Stream)
<1>1. PICK b : b = input \o SubSeq(Stream, received + 1, end)
  OBVIOUS
<1>2. /\ state # "terminated" /\ received' = end
      /\ split' = (split \/ end \in FirstLineEnd..FirstEnd - 1)
      /\ covered' = (IF covered = 0 /\ end >= FirstEnd THEN end ELSE covered)
      /\ \/ ApiHandlesRequest(b) \/ DashboardHandlesRequest(b) \/ NoWholeHeader(b)
      /\ server' = server /\ requests' = requests
  BY <1>1, Zenon DEF HandleRead
<1>3. /\ b \in Seq(Token) /\ TailOf(b, end) /\ Len(b) = Len(input) + (end - received)
      /\ end \in Nat /\ end > received /\ end <= Len(Stream)
  BY <1>1, ReadFacts
<1> QED
  BY <1>2, <1>3, Zenon

\* A read keeps types and buffer, and answers once.
LEMMA ReadKeeps ==
  ASSUME TypeOK, InputIsTail, OneAnswer, NEW end \in received + 1..Len(Stream),
         HandleRead(end)
  PROVE  TypeOK' /\ InputIsTail' /\ OneAnswer'
<1>1. PICK b \in Seq(Token) :
           /\ state # "terminated" /\ received' = end
           /\ split' = (split \/ end \in FirstLineEnd..FirstEnd - 1)
           /\ covered' = (IF covered = 0 /\ end >= FirstEnd THEN end ELSE covered)
           /\ \/ ApiHandlesRequest(b) \/ DashboardHandlesRequest(b) \/ NoWholeHeader(b)
           /\ server' = server /\ requests' = requests
           /\ TailOf(b, end) /\ Len(b) = Len(input) + (end - received)
           /\ end \in Nat /\ end > received /\ end <= Len(Stream)
  BY ReadParts
<1>2. Stream' = Stream
  BY <1>1, Zenon DEF Stream
<1>3. /\ input' \in Seq(Token) /\ TailOf(input', end) /\ OneAnswer'
      /\ state' \in {"connected", "disconnecting", "terminated"}
      /\ enqueued' \in Seq(Commands)
  <2>1. CASE NoWholeHeader(b)
    <3>1. input' = Unfinished(b) /\ state' = state /\ output' = output /\ enqueued' = enqueued
      BY <2>1, Zenon DEF NoWholeHeader
    <3>2. Unfinished(b) \in Seq(Token) /\ TailOf(Unfinished(b), end)
      BY <1>1, UnfinishedFacts
    <3>3. OneAnswer'
      BY <3>1, Zenon DEF OneAnswer
    <3> QED
      BY <3>1, <3>2, <3>3 DEF TypeOK
  <2>2. CASE ApiHandlesRequest(b) \/ DashboardHandlesRequest(b)
    <3> DEFINE R == ApiRoute(Method(b), Path(b), Body(b))
    <3>1. /\ BlankLines(b) # {} /\ input' = << >> /\ OneAnswer'
          /\ state' \in {"disconnecting", "terminated"}
          /\ server = "api" /\ Throws(Method(b), Path(b)) => enqueued' = enqueued
          /\ server = "api" /\ ~Throws(Method(b), Path(b)) => enqueued' = enqueued \o R.commands
          /\ server = "dashboard" => enqueued' = enqueued
      BY <1>1, <2>2, HandlerFacts
    <3>2. R.commands \in Seq(Commands)
      <4>1. Body(b) \in Seq(Token)
        BY <3>1, BodyType
      <4>2. Posted(Body(b)) \in Commands
        BY <4>1, PostedType
      <4>3. <<Posted(Body(b))>> \in Seq(Commands) /\ << >> \in Seq(Commands)
        BY <4>2
      <4>4. R.commands = << >> \/ R.commands = <<Posted(Body(b))>>
        BY RouteFacts
      <4> QED
        BY <4>3, <4>4, Zenon
    <3>3. enqueued \in Seq(Commands) /\ server \in {"api", "dashboard"}
      BY DEF TypeOK
    <3> HIDE DEF R
    <3>4. enqueued \o R.commands \in Seq(Commands)
      BY <3>2, <3>3, ConcatProperties
    <3>5. enqueued' \in Seq(Commands)
      BY <3>1, <3>3, <3>4
    <3>6. << >> \in Seq(Token) /\ TailOf(<< >>, end)
      BY <1>1, NoTail
    <3> QED
      BY <3>1, <3>5, <3>6
  <2> QED
    BY <1>1, <2>1, <2>2
<1>4. InputIsTail'
  BY <1>1, <1>2, <1>3, Zenon DEF InputIsTail, TailOf
<1>5. covered' \in Nat /\ split' \in BOOLEAN
  BY <1>1 DEF TypeOK
<1>6. TypeOK'
  BY <1>1, <1>3, <1>5 DEF TypeOK
<1> QED
  BY <1>3, <1>4, <1>6

\* A read enqueues nothing, or the command that the buffer's body posts.
LEMMA EnqueueFacts ==
  ASSUME TypeOK, OneAnswer, state # "terminated", NEW b \in Seq(Token),
         ApiHandlesRequest(b) \/ DashboardHandlesRequest(b)
  PROVE  /\ Posted(Body(b)) \in Commands
         /\ \/ enqueued' = enqueued
            \/ /\ server = "api" /\ <<Method(b), Path(b)>> = PostLine
               /\ ~Missing(Posted(Body(b)))
               /\ enqueued' = Append(enqueued, Posted(Body(b)))
<1> DEFINE R == ApiRoute(Method(b), Path(b), Body(b))
           c == Posted(Body(b))
<1>1. /\ BlankLines(b) # {}
      /\ server = "api" /\ Throws(Method(b), Path(b)) => enqueued' = enqueued
      /\ server = "api" /\ ~Throws(Method(b), Path(b)) => enqueued' = enqueued \o R.commands
      /\ server = "dashboard" => enqueued' = enqueued
  BY HandlerFacts
<1>2. Body(b) \in Seq(Token)
  BY <1>1, BodyType
<1>3. c \in Commands
  BY <1>2, PostedType
<1>4. enqueued \in Seq(Commands) /\ server \in {"api", "dashboard"}
  BY DEF TypeOK
<1>5. R.commands = IF <<Method(b), Path(b)>> = PostLine /\ ~Missing(c) THEN <<c>> ELSE << >>
  BY RouteFacts
<1>6. enqueued \o << >> = enqueued
  BY <1>4, ConcatEmptySeq
<1> HIDE DEF c, R
<1>7. enqueued \o <<c>> = Append(enqueued, c)
  BY <1>3, <1>4, AppendIsConcat
<1>8. \/ enqueued' = enqueued
      \/ /\ server = "api" /\ <<Method(b), Path(b)>> = PostLine /\ ~Missing(c)
         /\ enqueued' = Append(enqueued, c)
  <2>1. CASE server = "api" /\ ~Throws(Method(b), Path(b))
    BY <1>1, <1>5, <1>6, <1>7, <2>1, Zenon
  <2> QED
    BY <1>1, <1>4, <2>1
<1> QED
  BY <1>3, <1>8 DEF c

\* A buffer of all that was read starts with the first request.
LEMMA FirstBuffer ==
  ASSUME requests \in Conversations, NEW b \in Seq(Token), NEW end \in Nat,
         TailOf(b, end), Len(b) = end
  PROVE  Follows(b, Encode(requests[1]), 0)
<1> DEFINE e == Encode(requests[1])
<1>1. \A i \in 1..FirstEnd : Stream[i] = e[i]
  BY StreamFacts
<1>2. FirstEnd \in Nat /\ FirstEnd = Len(e)
  BY FirstLine DEF FirstEnd
<1>3. \A i \in 1..end : b[i] = Stream[end - end + i]
  BY DEF TailOf
<1> HIDE DEF e
<1>4. ASSUME NEW i \in 1..Len(b), 0 + i <= Len(e) PROVE b[i] = e[0 + i]
  <2>1. i \in 1..end /\ 0 + i = i /\ end - end + i = i /\ i \in 1..FirstEnd
    BY <1>2, <1>4
  <2> QED
    BY <1>1, <1>3, <2>1
<1> QED
  BY <1>4 DEF Follows, e

\* A buffer that ends inside the first request line has no CRLF.
LEMMA NoLineYet ==
  ASSUME NEW r \in Requests, NEW b \in Seq(Token), Follows(b, Encode(r), 0), Len(b) <= 4
  PROVE  Unfinished(b) = b
<1> DEFINE e == Encode(r)
<1>1. /\ Len(e) >= 7 /\ Len(e) \in Nat
      /\ e[1] = Word(r.method) /\ e[2] = r.path /\ e[3] = Word("HTTP/1.1")
  <2> DEFINE n == Len(r.headers)
             m == Len(r.body)
  <2>1. n \in Nat /\ m \in Nat /\ Len(e) = 7 + n + m
    BY EncodeFacts
  <2> HIDE DEF n, m, e
  <2>2. Len(e) >= 7 /\ Len(e) \in Nat
    BY <2>1
  <2>3. e[1] = Word(r.method) /\ e[2] = r.path /\ e[3] = Word("HTTP/1.1")
    BY EncodeFacts DEF e
  <2> QED
    BY <2>2, <2>3
<1>2. e[1] # CR /\ e[2] # CR /\ e[3] # CR
  <2>1. r.path.kind = "word"
    BY DEF Requests
  <2> QED
    BY <1>1, <2>1, Kinds
<1> HIDE DEF e
<1>3. Len(b) \in Nat
  BY LenProperties
<1>4. ASSUME NEW i \in CRLFs(b) PROVE FALSE
  <2>1. i \in 1..Len(b) /\ i \in 1..3 /\ b[i] = CR
    BY <1>3 DEF CRLFs
  <2>2. 0 + i = i /\ 0 + i <= Len(e)
    BY <1>1, <2>1
  <2>3. b[i] = e[0 + i]
    BY <2>1, <2>2 DEF Follows, e
  <2>4. b[i] = e[i]
    BY <2>2, <2>3
  <2> QED
    BY <1>2, <2>1, <2>4
<1> QED
  BY <1>4, Zenon DEF Unfinished

\* The body a handler sees starts as the request's body does.
LEMMA BodyFollows ==
  ASSUME NEW r \in Requests, NEW b \in Seq(Token), Follows(b, Encode(r), 0),
         BlankLines(b) # {}
  PROVE  /\ Body(b) \in Seq(Token) /\ Len(Body(b)) \in Nat
         /\ Len(Body(b)) = Len(b) - (7 + Len(r.headers))
         /\ \A i \in 1..Len(Body(b)) : i <= Len(r.body) => Body(b)[i] = r.body[i]
<1> DEFINE c == r.body
           d == Body(b)
           n == Len(r.headers)
           m == Len(c)
           e == Encode(r)
           l == Len(d)
           k == Len(b)
<1>1. n \in Nat /\ m \in Nat /\ Len(e) = 7 + n + m /\ \A i \in 1..m : e[7 + n + i] = c[i]
  BY EncodeFacts
<1>2. l = k - (7 + n) /\ d \in Seq(Token) /\ \A i \in 1..l : d[i] = b[7 + n + i]
  BY BodyFacts
<1>3. l \in Nat /\ k \in Nat
  BY <1>2, LenProperties
<1>4. \A i \in 1..k : 0 + i <= Len(e) => b[i] = e[0 + i]
  BY DEF Follows
<1> HIDE DEF c, d, n, m, e, l, k
<1>5. ASSUME NEW i \in 1..l, i <= m PROVE d[i] = c[i]
  <2> DEFINE j == 7 + n + i
  <2>1. i \in 1..m /\ j \in 1..k /\ 0 + j = j /\ 0 + j <= Len(e)
    BY <1>1, <1>2, <1>3, <1>5
  <2>2. d[i] = b[j] /\ e[j] = c[i]
    BY <1>1, <1>2, <2>1
  <2> HIDE DEF j
  <2>3. b[j] = e[0 + j]
    BY <1>4, <2>1
  <2> QED
    BY <2>1, <2>2, <2>3
<1> QED
  BY <1>2, <1>3, <1>5 DEF c, d, n, m, l, k

\* No key is left out.
HasKeys(body) == \A key \in Keys : ExtractJsonStr(body, key) # ""

\* What the first request posts is in the buffer of its last read: as it is if
\* it is alone or has all keys.
LEMMA FirstPosted ==
  ASSUME NEW r \in Requests, NEW b \in Seq(Token), Follows(b, Encode(r), 0),
         Len(b) >= Len(Encode(r)), BlankLines(b) # {},
         Len(b) = Len(Encode(r)) \/ HasKeys(r.body)
  PROVE  Posted(Body(b)) = Posted(r.body)
<1> DEFINE c == r.body
           d == Body(b)
           n == Len(r.headers)
           m == Len(c)
           l == Len(d)
           k == Len(b)
           z == Len(Encode(r))
<1>1. c \in Seq(Token) /\ \A i \in 1..m : c[i].kind = "str"
  BY DEF Requests, JsonStrings
<1>2. n \in Nat /\ m \in Nat /\ z = 7 + n + m
  BY EncodeFacts
<1>3. /\ d \in Seq(Token) /\ l \in Nat /\ l = k - (7 + n)
      /\ \A i \in 1..l : i <= m => d[i] = c[i]
  BY BodyFollows
<1>4. k \in Nat /\ k >= z
  BY LenProperties
<1> HIDE DEF c, d, n, m, l, k, z
<1>5. m <= l /\ (k = z => l = m)
  BY <1>2, <1>3, <1>4
<1>6. \A i \in 1..m : c[i] = d[i]
  <2> SUFFICES ASSUME NEW i \in 1..m PROVE c[i] = d[i]
    OBVIOUS
  <2>1. i \in 1..l /\ i <= m
    BY <1>2, <1>3, <1>5
  <2> QED
    BY <1>3, <2>1
<1>7. CASE k = z
  <2>1. Len(d) = Len(c) /\ \A i \in 1..Len(c) : c[i] = d[i]
    BY <1>5, <1>6, <1>7, Zenon DEF m, l
  <2>2. c = d
    BY <1>1, <1>3, <2>1, SeqEqual
  <2> QED
    BY <2>2, Zenon DEF c, d
<1>8. CASE HasKeys(c)
  <2>1. ASSUME NEW key \in Keys PROVE ExtractJsonStr(d, key) = ExtractJsonStr(c, key)
    <3>1. KeyPlaces(c, key) # {}
      BY <1>1, <1>8, JsonText, Zenon DEF HasKeys
    <3>2. Len(c) <= Len(d) /\ \A i \in 1..Len(c) : c[i] = d[i] /\ c[i].kind = "str"
      BY <1>1, <1>5, <1>6, Zenon DEF m, l
    <3> QED
      BY <1>1, <1>3, <3>1, <3>2, JsonPrefix
  <2>2. "device_id" \in Keys /\ "command" \in Keys /\ "params" \in Keys
    BY DEF Keys
  <2>3. Posted(d) = Posted(c)
    BY <2>1, <2>2, Zenon DEF Posted
  <2> QED
    BY <2>3 DEF c, d
<1> QED
  BY <1>7, <1>8 DEF c, k, z

----------------------------------------------------------------------------
(* The first request *)

\* The read that completes the first request answers it.
LEMMA FirstAnswered ==
  ASSUME TypeOK, OneAnswer, state = "connected", output = << >>, enqueued = << >>,
         NEW r \in Requests, NEW b \in Seq(Token), Follows(b, Encode(r), 0),
         Len(b) >= Len(Encode(r)),
         ApiHandlesRequest(b) \/ DashboardHandlesRequest(b) \/ NoWholeHeader(b),
         server' = server
  PROVE  /\ state' # "connected"
         /\ Len(b) = Len(Encode(r)) \/ (IsPost(r) => HasKeys(r.body)) => AnsweredAlone(r)'
<1> DEFINE M == Word(r.method)
           P == r.path
           B == Body(b)
<1>1. Len(b) >= 7 + Len(r.headers) /\ Len(b) >= 5
  <2> DEFINE n == Len(r.headers)
             m == Len(r.body)
             k == Len(b)
  <2>1. n \in Nat /\ m \in Nat /\ Len(Encode(r)) = 7 + n + m /\ k \in Nat
    BY EncodeFacts, LenProperties
  <2>2. k >= 7 + n + m
    BY <2>1
  <2> HIDE DEF n, m, k
  <2>3. k >= 7 + n /\ k >= 5
    BY <2>1, <2>2
  <2> QED
    BY <2>3 DEF n, k
<1>2. BlankLines(b) # {}
  BY <1>1, BlankLineFacts
<1>3. Method(b) = M /\ Path(b) = P
  BY <1>1, RequestLineFacts
<1>4. ApiHandlesRequest(b) \/ DashboardHandlesRequest(b)
  BY <1>2 DEF NoWholeHeader
<1>5. /\ state' \in {"disconnecting", "terminated"}
      /\ server = "api" /\ Throws(M, P) =>
           state' = "terminated" /\ output' = output /\ enqueued' = enqueued
      /\ server = "api" /\ ~Throws(M, P) =>
           /\ enqueued' = enqueued \o ApiRoute(M, P, B).commands
           /\ Len(output') = 3 /\ \A i \in 1..3 : output'[i].of = ApiRoute(M, P, B).reply
      /\ server = "dashboard" =>
           Len(output') = 3 /\ \A i \in 1..3 : output'[i].of = DashboardRoute(P)
  <2>1. state # "terminated" /\ state = "connected"
    OBVIOUS
  <2>2. /\ state' \in {"disconnecting", "terminated"}
        /\ server = "api" /\ Throws(Method(b), Path(b)) =>
              state' = "terminated" /\ output' = output /\ enqueued' = enqueued
        /\ server = "api" /\ ~Throws(Method(b), Path(b)) =>
              /\ enqueued' = enqueued \o ApiRoute(Method(b), Path(b), Body(b)).commands
              /\ state = "connected" =>
                   /\ Len(output') = 3
                   /\ \A i \in 1..3 :
                        output'[i].of = ApiRoute(Method(b), Path(b), Body(b)).reply
        /\ server = "dashboard" =>
              /\ enqueued' = enqueued
              /\ state = "connected" =>
                   Len(output') = 3 /\ \A i \in 1..3 : output'[i].of = DashboardRoute(Path(b))
    BY <1>4, <2>1, HandlerFacts, Zenon
  <2> QED
    BY <1>3, <2>1, <2>2, Zenon
<1>6. state' # "connected"
  BY <1>5
<1>7. ASSUME Len(b) = Len(Encode(r)) \/ (IsPost(r) => HasKeys(r.body))
      PROVE  AnsweredAlone(r)'
  <2>1. CASE server = "dashboard"
    <3>1. server' # "api" /\ server' = "dashboard"
      BY <2>1
    <3>2. AnswerTo(r)' = DashboardRoute(P)
      BY <3>1, Zenon DEF AnswerTo
    <3>3. Len(output') = 3 /\ \A i \in 1..3 : output'[i].of = DashboardRoute(P)
      BY <1>5, <2>1
    <3> QED
      BY <3>1, <3>2, <3>3, Zenon DEF AnsweredAlone
  <2>2. CASE server = "api" /\ Throws(M, P)
    <3>1. server' = "api" /\ state' = "terminated" /\ output' = << >>
      BY <1>5, <2>2
    <3> QED
      BY <2>2, <3>1, Zenon DEF AnsweredAlone
  <2>3. CASE server = "api" /\ ~Throws(M, P)
    <3>1. /\ server' = "api" /\ enqueued' = << >> \o ApiRoute(M, P, B).commands
          /\ Len(output') = 3 /\ \A i \in 1..3 : output'[i].of = ApiRoute(M, P, B).reply
      BY <1>5, <2>3
    <3>2. AnswerTo(r)' = ApiRoute(M, P, r.body).reply
      BY <3>1, Zenon DEF AnswerTo
    <3>3. CASE IsPost(r)
      <4>1. Posted(B) = Posted(r.body)
        BY <1>1, <1>2, <1>7, <3>3, FirstPosted
      <4>2. HandlePostCommand(B) = HandlePostCommand(r.body)
        BY <4>1, Zenon DEF HandlePostCommand
      <4>3. <<M, P>> = PostLine
        BY <3>3 DEF IsPost
      <4>4. M = Word("POST") /\ P = Word("/api/v1/commands") /\ Word("POST") # Word("GET")
        BY <4>3, Kinds DEF PostLine
      <4>5. ApiRoute(M, P, B) = HandlePostCommand(B)
            /\ ApiRoute(M, P, r.body) = HandlePostCommand(r.body)
        BY <4>4, Zenon DEF ApiRoute
      <4>6. ApiRoute(M, P, B) = ApiRoute(M, P, r.body)
        BY <4>2, <4>5, Zenon
      <4>7. ASSUME ~Missing(Posted(r.body))
            PROVE  enqueued' # << >> /\ enqueued'[1] = Posted(r.body)
        <5> DEFINE c == Posted(r.body)
        <5>1. ApiRoute(M, P, B).commands = <<c>>
          BY <4>1, <4>3, <4>7, RouteFacts, ZenonT(60)
        <5> HIDE DEF c
        <5>2. << >> \o <<c>> = <<c>> /\ <<c>> # << >> /\ <<c>>[1] = c
          OBVIOUS
        <5> QED
          BY <3>1, <5>1, <5>2, Zenon DEF c
      <4> QED
        BY <2>3, <3>1, <3>2, <4>6, <4>7, Zenon DEF AnsweredAlone
    <3>4. CASE ~IsPost(r)
      <4>1. ~(M = Word("POST") /\ P = Word("/api/v1/commands"))
        BY <3>4, Zenon DEF IsPost, PostLine
      <4>2. ApiRoute(M, P, B) = ApiRoute(M, P, r.body)
        BY <4>1, Zenon DEF ApiRoute
      <4> QED
        BY <2>3, <3>1, <3>2, <3>4, <4>2, Zenon DEF AnsweredAlone
    <3> QED
      BY <3>3, <3>4
  <2> QED
    BY <2>1, <2>2, <2>3 DEF TypeOK
<1> QED
  BY <1>6, <1>7

\* Every read keeps what FirstReads and WholeRequestAnswered say.
LEMMA FirstStep ==
  ASSUME TypeOK, InputIsTail, OneAnswer, FirstReads, WholeRequestAnswered,
         NEW end \in received + 1..Len(Stream), HandleRead(end)
  PROVE  FirstReads' /\ WholeRequestAnswered'
<1>1. PICK b \in Seq(Token) :
           /\ state # "terminated" /\ received' = end
           /\ split' = (split \/ end \in FirstLineEnd..FirstEnd - 1)
           /\ covered' = (IF covered = 0 /\ end >= FirstEnd THEN end ELSE covered)
           /\ \/ ApiHandlesRequest(b) \/ DashboardHandlesRequest(b) \/ NoWholeHeader(b)
           /\ server' = server /\ requests' = requests
           /\ TailOf(b, end) /\ Len(b) = Len(input) + (end - received)
           /\ end \in Nat /\ end > received /\ end <= Len(Stream)
  BY ReadParts
<1>2. requests \in Conversations /\ received \in Nat /\ covered \in Nat
  BY DEF TypeOK
<1>3. PICK r \in Requests : r = requests[1]
  BY <1>2, StreamFacts
<1>4. requests'[1] = r /\ FirstEnd' = FirstEnd /\ FirstLineEnd' = FirstLineEnd
  BY <1>1, <1>3, Zenon DEF FirstEnd, FirstLineEnd, Stream
<1>5. FirstLineEnd = 5 /\ FirstEnd \in Nat /\ FirstEnd >= 7 /\ FirstEnd = Len(Encode(r))
  BY <1>2, <1>3, FirstLine DEF FirstEnd
<1>6. SelfContained' <=> covered' = FirstEnd \/ (IsPost(r) => HasKeys(r.body))
  BY <1>4, Zenon DEF SelfContained, HasKeys
<1>7. SelfContained <=> covered = FirstEnd \/ (IsPost(r) => HasKeys(r.body))
  BY <1>3, Zenon DEF SelfContained, HasKeys
<1>8. CASE split'
  BY <1>8, Zenon DEF FirstReads, WholeRequestAnswered
<1>9. CASE ~split' /\ covered # 0
  <2>1. ~split /\ covered' = covered /\ state # "connected"
    BY <1>1, <1>9 DEF FirstReads
  <2>2. state' # "connected" /\ output' = output
        /\ (enqueued # << >> => enqueued' # << >> /\ enqueued'[1] = enqueued[1])
    <3>1. CASE NoWholeHeader(b)
      BY <2>1, <3>1 DEF NoWholeHeader
    <3>2. CASE ApiHandlesRequest(b) \/ DashboardHandlesRequest(b)
      <4>1. state' \in {"disconnecting", "terminated"} /\ output' = output
        BY <1>1, <2>1, <3>2, HandlerFacts
      <4>2. PICK c \in Commands : enqueued' = enqueued \/ enqueued' = Append(enqueued, c)
        BY <1>1, <3>2, EnqueueFacts
      <4>3. enqueued \in Seq(Commands)
        BY DEF TypeOK
      <4>4. ASSUME enqueued # << >> PROVE enqueued' # << >> /\ enqueued'[1] = enqueued[1]
        <5>1. Len(enqueued) \in Nat \ {0}
          BY <4>3, <4>4, EmptySeq
        <5>2. /\ Append(enqueued, c) # << >>
              /\ Append(enqueued, c)[1] = enqueued[1]
          BY <4>3, <5>1, AppendProperties
        <5> QED
          BY <4>2, <4>4, <5>2
      <4> QED
        BY <4>1, <4>4
    <3> QED
      BY <1>1, <3>1, <3>2
  <2>3. FirstReads'
    BY <1>9, <2>1, <2>2, Zenon DEF FirstReads
  <2>4. ASSUME SelfContained' PROVE AnsweredAlone(r)'
    <3>1. AnsweredAlone(r)
      BY <1>3, <1>6, <1>7, <1>9, <2>1, <2>4 DEF WholeRequestAnswered
    <3>2. ~(server = "api" /\ Throws(Word(r.method), r.path))
      BY <1>1, <3>1, Zenon DEF AnsweredAlone
    <3>3. /\ Len(output) = 3
          /\ \A i \in 1 .. 3 : output[i].of = AnswerTo(r)
          /\ server = "api" /\ IsPost(r) /\ ~Missing(Posted(r.body)) =>
               enqueued # << >> /\ enqueued[1] = Posted(r.body)
      BY <3>1, <3>2, Zenon DEF AnsweredAlone
    <3>4. AnswerTo(r)' = AnswerTo(r)
      BY <1>1, Zenon DEF AnswerTo
    <3> QED
      BY <1>1, <2>2, <3>2, <3>3, <3>4, Zenon DEF AnsweredAlone
  <2>5. WholeRequestAnswered'
    BY <1>4, <2>4, Zenon DEF WholeRequestAnswered
  <2> QED
    BY <2>3, <2>5
<1>10. CASE ~split' /\ covered = 0
  <2>1. /\ ~split /\ received < FirstLineEnd /\ Len(input) = received
        /\ state = "connected" /\ output = << >> /\ enqueued = << >>
    BY <1>1, <1>10 DEF FirstReads
  <2>2. Len(b) = end
    BY <1>1, <1>2, <2>1
  <2>3. Follows(b, Encode(r), 0)
    BY <1>1, <1>2, <1>3, <2>2, FirstBuffer
  <2>4. CASE end >= FirstEnd
    <3>1. covered' = end /\ end # 0 /\ Len(b) >= Len(Encode(r))
      BY <1>1, <1>5, <1>10, <2>2, <2>4
    <3>2. /\ state' # "connected"
          /\ Len(b) = Len(Encode(r)) \/ (IsPost(r) => HasKeys(r.body)) => AnsweredAlone(r)'
      BY <1>1, <2>1, <2>3, <3>1, FirstAnswered
    <3>3. FirstReads'
      BY <1>10, <3>1, <3>2, Zenon DEF FirstReads
    <3>4. ASSUME SelfContained' PROVE AnsweredAlone(r)'
      BY <1>5, <1>6, <2>2, <3>1, <3>2, <3>4, Zenon
    <3>5. WholeRequestAnswered'
      BY <1>4, <3>4, Zenon DEF WholeRequestAnswered
    <3> QED
      BY <3>3, <3>5
  <2>5. CASE ~(end >= FirstEnd)
    <3>1. covered' = 0
      BY <1>1, <1>10, <2>5
    <3>2. ~(end \in FirstLineEnd..FirstEnd - 1)
      BY <1>1, <1>10, Zenon
    <3>3. covered' = 0 /\ end <= 4 /\ end < FirstLineEnd
      BY <1>1, <1>5, <2>5, <3>1, <3>2
    <3>4. Unfinished(b) = b
      BY <2>2, <2>3, <3>3, NoLineYet
    <3>5. BlankLines(b) = {}
      <4>1. Len(r.headers) \in Nat
        BY EncodeFacts
      <4>2. ~(Len(b) >= 7 + Len(r.headers))
        BY <1>1, <2>2, <3>3, <4>1
      <4> QED
        BY <2>3, <4>2, BlankLineFacts
    <3>6. NoWholeHeader(b)
      BY <1>1, <3>5 DEF ApiHandlesRequest, DashboardHandlesRequest
    <3>7. input' = b /\ state' = state /\ output' = output /\ enqueued' = enqueued
      BY <3>4, <3>6 DEF NoWholeHeader
    <3>8. /\ received' < FirstLineEnd' /\ Len(input') = received'
          /\ state' = "connected" /\ output' = << >> /\ enqueued' = << >>
      BY <1>1, <1>4, <2>1, <2>2, <3>3, <3>7
    <3>9. FirstReads'
      BY <3>3, <3>8, Zenon DEF FirstReads
    <3>10. WholeRequestAnswered'
      BY <3>3, Zenon DEF WholeRequestAnswered
    <3> QED
      BY <3>9, <3>10
  <2> QED
    BY <2>4, <2>5
<1> QED
  BY <1>8, <1>9, <1>10

----------------------------------------------------------------------------
(* Where commands come from *)

\* Every token of the stream belongs to a request.
LEMMA Located ==
  ASSUME NEW rs \in Seq(Requests), NEW q \in 1..Len(FirstTokens(rs, Len(rs)))
  PROVE  \E k \in 1..Len(rs) : \E i \in 1..Len(Encode(rs[k])) :
           q = Len(FirstTokens(rs, k - 1)) + i
<1> DEFINE n == Len(rs)
           F(k) == Len(FirstTokens(rs, k))
           T == {k \in 0..n : q <= F(k)}
<1>1. n \in Nat /\ n \in 0..n
  BY LenProperties
<1>2. \A k \in 0..n : F(k) \in Nat
  <2> SUFFICES ASSUME NEW k \in 0..n PROVE F(k) \in Nat
    OBVIOUS
  <2>1. FirstTokens(rs, k) \in Seq(Token)
    BY FirstTokensFacts
  <2> QED
    BY <2>1, LenProperties
<1>3. \A k \in 1..n : F(k - 1) + Len(Encode(rs[k])) = F(k)
  BY <1>1, FirstTokensFacts
<1>4. F(0) = 0
  BY NoTokens
<1>5. q \in 1..F(n)
  OBVIOUS
<1> HIDE DEF n, F
<1>6. T \in SUBSET Nat /\ n \in T
  BY <1>1, <1>2, <1>5
<1>7. PICK k \in T : \A j \in T : k <= j
  <2> HIDE DEF T
  <2> QED
    BY <1>6, LeastNumber
<1>8. k \in 1..n /\ k - 1 \in 0..n /\ k - 1 \notin T
  BY <1>1, <1>2, <1>4, <1>5, <1>7
<1>9. q > F(k - 1) /\ q <= F(k) /\ q \in Nat
  BY <1>1, <1>2, <1>5, <1>7, <1>8
<1>10. F(k - 1) + Len(Encode(rs[k])) = F(k) /\ F(k - 1) \in Nat /\ F(k) \in Nat
  BY <1>1, <1>2, <1>3, <1>8
<1>11. Len(Encode(rs[k])) \in Nat
  <2>1. rs[k] \in Requests
    BY <1>8, ElementOfSeq DEF n
  <2> QED
    BY <2>1, EncodeFacts, LenProperties
<1> DEFINE i == q - F(k - 1)
<1>12. i \in 1..Len(Encode(rs[k])) /\ q = F(k - 1) + i
  BY <1>9, <1>10, <1>11
<1> HIDE DEF i
<1> QED
  BY <1>8, <1>12 DEF n, F

\* Requests lie one behind the other.
LEMMA StartsGrow ==
  ASSUME NEW rs \in Seq(Requests), NEW j \in 0..Len(rs), NEW k \in 0..Len(rs), j <= k
  PROVE  /\ Len(FirstTokens(rs, j)) \in Nat /\ Len(FirstTokens(rs, k)) \in Nat
         /\ Len(FirstTokens(rs, j)) <= Len(FirstTokens(rs, k))
<1>1. FirstTokens(rs, j) \in Seq(Token) /\ FirstTokens(rs, k) \in Seq(Token)
  BY FirstTokensFacts
<1>2. Len(FirstTokens(rs, j)) \in Nat /\ Len(FirstTokens(rs, k)) \in Nat
  BY <1>1, LenProperties
<1>3. CASE j = 0
  <2>1. Len(FirstTokens(rs, j)) = 0
    BY <1>3, NoTokens
  <2> QED
    BY <1>2, <2>1
<1>4. CASE j # 0
  <2>1. j \in 1..k
    BY <1>4
  <2>2. Len(FirstTokens(rs, j)) <= Len(FirstTokens(rs, k))
    BY <2>1, FirstTokensFacts
  <2> QED
    BY <1>2, <2>2
<1> QED
  BY <1>3, <1>4

\* What the stream holds of request k.
LEMMA RequestTokens ==
  ASSUME NEW rs \in Seq(Requests), NEW k \in 1..Len(rs)
  PROVE  /\ rs[k] \in Requests
         /\ Len(FirstTokens(rs, k - 1)) \in Nat /\ Len(Encode(rs[k])) \in Nat
         /\ Len(FirstTokens(rs, k)) = Len(FirstTokens(rs, k - 1)) + Len(Encode(rs[k]))
         /\ Len(FirstTokens(rs, k)) <= Len(FirstTokens(rs, Len(rs)))
         /\ \A i \in 1..Len(Encode(rs[k])) :
              FirstTokens(rs, Len(rs))[Len(FirstTokens(rs, k - 1)) + i] = Encode(rs[k])[i]
<1> DEFINE n == Len(rs)
<1>1. n \in Nat /\ n \in 0..n
  BY LenProperties
<1>2. rs[k] \in Requests
  BY ElementOfSeq
<1>3. Len(Encode(rs[k])) \in Nat
  BY <1>2, EncodeFacts, LenProperties
<1>4. /\ FirstTokens(rs, k - 1) \in Seq(Token)
      /\ Len(FirstTokens(rs, k - 1)) + Len(Encode(rs[k])) = Len(FirstTokens(rs, k))
      /\ Len(FirstTokens(rs, k)) <= Len(FirstTokens(rs, n))
      /\ \A i \in 1..Len(Encode(rs[k])) :
           FirstTokens(rs, n)[Len(FirstTokens(rs, k - 1)) + i] = Encode(rs[k])[i]
  BY <1>1, FirstTokensFacts
<1>5. Len(FirstTokens(rs, k - 1)) \in Nat
  BY <1>4, LenProperties
<1> QED
  BY <1>2, <1>3, <1>4, <1>5

\* The places of a request that may hold a word, and those that may hold a string.
LEMMA TokenPlaces ==
  ASSUME NEW r \in Requests, NEW i \in 1..Len(Encode(r))
  PROVE  /\ Encode(r)[i].kind = "word" => i \in 1..3 \cup 6..5 + Len(r.headers)
         /\ Encode(r)[i].kind = "str" =>
              i \in 6..5 + Len(r.headers)
                    \cup 8 + Len(r.headers)..7 + Len(r.headers) + Len(r.body)
<1> DEFINE e == Encode(r)
           n == Len(r.headers)
           m == Len(r.body)
<1>1. /\ n \in Nat /\ m \in Nat /\ Len(e) = 7 + n + m
      /\ e[1] = Word(r.method) /\ e[2] = r.path /\ e[3] = Word("HTTP/1.1")
      /\ e[4] = CR /\ e[5] = LF /\ e[6 + n] = CR /\ e[7 + n] = LF
      /\ \A x \in 1..m : e[7 + n + x] = r.body[x]
  BY EncodeFacts
<1>2. r.path.kind = "word" /\ \A x \in 1..m : r.body[x].kind = "str"
  BY DEF Requests, JsonStrings
<1> HIDE DEF e, n, m
<1>3. /\ e[1].kind = "word" /\ e[2].kind = "word" /\ e[3].kind = "word"
      /\ e[4].kind = "cr" /\ e[5].kind = "lf" /\ e[6 + n].kind = "cr" /\ e[7 + n].kind = "lf"
  BY <1>1, <1>2, Kinds
<1>4. i \in 1..7 + n + m
  BY <1>1 DEF e
<1>5. ASSUME i \in 8 + n..7 + n + m PROVE e[i].kind = "str"
  <2>1. i - (7 + n) \in 1..m /\ 7 + n + (i - (7 + n)) = i
    BY <1>1, <1>5
  <2> QED
    BY <1>1, <1>2, <2>1
<1>6. i \in 1..3 \/ i = 4 \/ i = 5 \/ i \in 6..5 + n \/ i = 6 + n \/ i = 7 + n
      \/ i \in 8 + n..7 + n + m
  BY <1>1, <1>4
<1>7. i \in 1..3 => i = 1 \/ i = 2 \/ i = 3
  BY <1>6
<1>8. e[i].kind = "word" => i \in 1..3 \cup 6..5 + n
  BY <1>3, <1>5, <1>6
<1>9. e[i].kind = "str" => i \in 6..5 + n \cup 8 + n..7 + n + m
  BY <1>3, <1>6, <1>7
<1> QED
  BY <1>8, <1>9 DEF e, n, m

\* The request line of a POST stands in the stream where a POST starts, and
\* nowhere else.
LEMMA PostPlace ==
  ASSUME NEW rs \in Seq(Requests), NEW s, s = FirstTokens(rs, Len(rs)),
         NEW q \in 1..Len(s), <<s[q], s[q + 1]>> = PostLine
  PROVE  \E k \in 1..Len(rs) : q = Len(FirstTokens(rs, k - 1)) + 1 /\ IsPost(rs[k])
<1>1. PICK k \in 1..Len(rs) : \E i \in 1..Len(Encode(rs[k])) :
           q = Len(FirstTokens(rs, k - 1)) + i
  BY Located
<1>2. PICK i \in 1..Len(Encode(rs[k])) : q = Len(FirstTokens(rs, k - 1)) + i
  BY <1>1
<1> DEFINE r == rs[k]
           e == Encode(r)
           a == Len(FirstTokens(rs, k - 1))
           n == Len(r.headers)
           m == Len(r.body)
<1>3. r \in Requests /\ a \in Nat /\ \A j \in 1..Len(e) : s[a + j] = e[j]
  BY <1>1, RequestTokens
<1>4. /\ n \in Nat /\ m \in Nat /\ Len(e) = 7 + n + m
      /\ e[1] = Word(r.method) /\ e[2] = r.path
      /\ e[3] = Word("HTTP/1.1") /\ e[4] = CR
      /\ \A j \in 1..n : e[5 + j] = r.headers[j]
      /\ e[6 + n] = CR
  BY <1>3, EncodeFacts
<1>5. s[q] = Word("POST") /\ s[q + 1] = Word("/api/v1/commands")
  BY DEF PostLine
<1>6. \A j \in 1..n - 1 : <<r.headers[j], r.headers[j + 1]>> # PostLine
  BY <1>3 DEF Requests, HeaderLines
<1>7. q = a + i /\ i \in 1..Len(e)
  BY <1>2
<1>8. e[i].kind = "word" => i \in 1..3 \cup 6..5 + n
  BY <1>3, TokenPlaces
<1>9. IsPost(r) <=> <<Word(r.method), r.path>> = PostLine
  BY DEF IsPost
<1> HIDE DEF r, e, a, n, m
<1>10. s[q] = e[i]
  BY <1>3, <1>7
<1>11. i \in 1..3 \cup 6..5 + n
  BY <1>5, <1>8, <1>10, Kinds
<1>12. i + 1 \in 1..Len(e) /\ q + 1 = a + (i + 1)
  BY <1>3, <1>4, <1>7, <1>11
<1>13. s[q + 1] = e[i + 1]
  BY <1>3, <1>12
<1>14. i # 2
  <2>1. i = 2 => i + 1 = 3
    OBVIOUS
  <2>2. Word("HTTP/1.1") # Word("/api/v1/commands")
    BY Kinds
  <2> QED
    BY <1>4, <1>5, <1>13, <2>1, <2>2
<1>15. i # 3
  <2>1. i = 3 => i + 1 = 4
    OBVIOUS
  <2> QED
    BY <1>4, <1>5, <1>13, <2>1, Kinds
<1>16. i \notin 6..5 + n
  <2> SUFFICES ASSUME i \in 6..5 + n PROVE FALSE
    OBVIOUS
  <2> DEFINE j == i - 5
  <2>1. j \in 1..n /\ 5 + j = i /\ 5 + (j + 1) = i + 1
    BY <1>4
  <2>2. CASE j = n
    <3>1. i + 1 = 6 + n
      BY <1>4, <2>1, <2>2
    <3> QED
      BY <1>4, <1>5, <1>13, <3>1, Kinds
  <2>3. CASE j # n
    <3>1. j \in 1..n - 1 /\ j + 1 \in 1..n
      BY <1>4, <2>1, <2>3
    <3>2. e[5 + j] = r.headers[j] /\ e[5 + (j + 1)] = r.headers[j + 1]
      BY <1>4, <2>1, <3>1
    <3> HIDE DEF j
    <3>3. <<r.headers[j], r.headers[j + 1]>> = PostLine
      BY <1>10, <1>13, <2>1, <3>2
    <3> QED
      BY <1>6, <3>1, <3>3
  <2> QED
    BY <2>2, <2>3
<1>17. i = 1
  BY <1>11, <1>14, <1>15, <1>16
<1>18. e[1] = s[q] /\ e[2] = s[q + 1]
  <2>1. i + 1 = 2
    BY <1>17
  <2> QED
    BY <1>10, <1>13, <1>17, <2>1
<1>19. IsPost(r)
  BY <1>4, <1>9, <1>18
<1> QED
  BY <1>7, <1>17, <1>19 DEF a, r

\* A buffer whose handler takes a POST starts with the request line of one.
LEMMA PostBuffer ==
  ASSUME NEW b \in Seq(Token), BlankLines(b) # {}, <<Method(b), Path(b)>> = PostLine
  PROVE  Len(b) >= 2 /\ <<b[1], b[2]>> = PostLine
<1> DEFINE C == CRLFs(b)
           x == Min(C)
           q == RequestLine(b)
           k == x - 1
<1>1. Len(b) \in Nat /\ C \in SUBSET Nat /\ C # {} /\ \A i \in C : i \in 1..Len(b) - 1
  BY LenProperties DEF BlankLines, CRLFs
<1>2. Method(b) = Word("POST") /\ Path(b) = Word("/api/v1/commands")
  BY DEF PostLine
<1>3. x \in 1..Len(b) - 1
  <2> HIDE DEF C
  <2>1. Min(C) \in C
    BY <1>1, MinFacts
  <2> QED
    BY <1>1, <2>1
<1>4. q = SubSeq(b, 1, k)
  BY Zenon DEF RequestLine
<1>5. Method(b) = IF Len(q) >= 1 THEN q[1] ELSE Word("")
  BY Zenon DEF Method
<1>6. Path(b) = IF Len(q) >= 2 THEN q[2] ELSE Word("")
  BY Zenon DEF Path
<1>7. Word("") # Word("/api/v1/commands")
  <2>1. "" # "/api/v1/commands"
    OBVIOUS
  <2> QED
    BY <2>1, Kinds, Zenon
<1> HIDE DEF x, q
<1>8. k \in Nat /\ k < Len(b) /\ 1 \in Int /\ k \in Int /\ \A i \in 1..k : b[i] \in Token
  BY <1>1, <1>3, ElementOfSeq
<1> HIDE DEF k
<1>9. /\ Len(SubSeq(b, 1, k)) = IF 1 <= k THEN k - 1 + 1 ELSE 0
      /\ \A i \in 1..k - 1 + 1 : SubSeq(b, 1, k)[i] = b[1 + i - 1]
  BY <1>8, SubSeqProperties
<1>10. Len(q) >= 2 /\ q[2] = Path(b)
  BY <1>2, <1>6, <1>7, Zenon
<1>11. k >= 2
  BY <1>4, <1>8, <1>9, <1>10
<1>12. Len(q) >= 1
  BY <1>4, <1>8, <1>9, <1>11
<1>13. q[1] = Method(b)
  BY <1>5, <1>12, Zenon
<1>14. q[1] = b[1 + 1 - 1] /\ q[2] = b[1 + 2 - 1]
  BY <1>4, <1>8, <1>9, <1>11
<1>15. q[1] = b[1] /\ q[2] = b[2]
  BY <1>14
<1>16. Len(b) >= 2
  BY <1>1, <1>8, <1>11
<1> QED
  BY <1>10, <1>13, <1>15, <1>16

\* The POST at the start of the buffer: which request it is.
LEMMA PostInBuffer ==
  ASSUME requests \in Conversations, NEW end \in Nat, NEW b \in Seq(Token), TailOf(b, end),
         BlankLines(b) # {}, <<Method(b), Path(b)>> = PostLine
  PROVE  \E k \in 1..Len(requests) :
           /\ IsPost(requests[k]) /\ Len(FirstTokens(requests, k - 1)) = end - Len(b)
           /\ Follows(b, Encode(requests[k]), 0)
           /\ Len(b) >= 2 /\ Len(b) \in Nat
<1> DEFINE s == Stream
           n == Len(b)
           q == end - n + 1
<1>1. /\ requests \in Seq(Requests) /\ s = FirstTokens(requests, Len(requests))
      /\ s \in Seq(Token)
  BY StreamFacts
<1>2. n >= 2 /\ <<b[1], b[2]>> = PostLine /\ n \in Nat
  BY PostBuffer, LenProperties
<1>3. n <= end /\ end <= Len(s) /\ \A i \in 1..n : b[i] = s[end - n + i]
  BY DEF TailOf
<1>4. Len(s) \in Nat
  BY <1>1, LenProperties
<1> HIDE DEF s, n
<1>5. q \in 1..Len(s) /\ 1 \in 1..n /\ 2 \in 1..n /\ q + 1 = end - n + 2
  BY <1>2, <1>3, <1>4
<1>6. b[1] = s[q] /\ b[2] = s[q + 1]
  BY <1>3, <1>5
<1>7. <<s[q], s[q + 1]>> = PostLine
  BY <1>2, <1>6
<1> HIDE DEF q
<1>8. PICK rs : rs = requests
  OBVIOUS
<1>9. PICK t : t = s
  OBVIOUS
<1>10. rs \in Seq(Requests) /\ t = FirstTokens(rs, Len(rs)) /\ q \in 1..Len(t)
       /\ <<t[q], t[q + 1]>> = PostLine
  BY <1>1, <1>5, <1>7, <1>8, <1>9
<1>11. PICK k \in 1..Len(rs) : q = Len(FirstTokens(rs, k - 1)) + 1 /\ IsPost(rs[k])
  BY <1>10, PostPlace
<1> DEFINE a == Len(FirstTokens(rs, k - 1))
           e == Encode(rs[k])
<1>12. a \in Nat /\ Len(e) \in Nat /\ \A i \in 1..Len(e) : t[a + i] = e[i]
  BY <1>10, <1>11, RequestTokens
<1>13. q = a + 1
  BY <1>11
<1> HIDE DEF a, e
<1>14. a = end - n
  BY <1>2, <1>12, <1>13 DEF q
<1>15. ASSUME NEW i \in 1..n, 0 + i <= Len(e) PROVE b[i] = e[0 + i]
  <2>1. i \in 1..Len(e) /\ 0 + i = i /\ end - n + i = a + i
    BY <1>2, <1>12, <1>14, <1>15
  <2> QED
    BY <1>3, <1>9, <1>12, <2>1
<1>16. Follows(b, e, 0)
  BY <1>15 DEF Follows, n
<1> QED
  BY <1>2, <1>8, <1>11, <1>14, <1>16 DEF a, e, n

\* A key of the request that is in the buffer too has one value in both.
LEMMA OwnValue ==
  ASSUME NEW r \in Requests, NEW b \in Seq(Token), Follows(b, Encode(r), 0),
         BlankLines(b) # {}, NEW key,
         KeyPlaces(r.body, key) # {}, KeyPlaces(Body(b), key) # {}
  PROVE  ExtractJsonStr(Body(b), key) = ExtractJsonStr(r.body, key)
<1> DEFINE c == r.body
           d == Body(b)
<1>1. c \in Seq(Token) /\ \A i \in 1..Len(c) : c[i].kind = "str"
  BY DEF Requests, JsonStrings
<1>2. d \in Seq(Token) /\ \A i \in 1..Len(d) : i <= Len(c) => d[i] = c[i]
  BY BodyFollows
<1>3. KeyPlaces(c, key) # {} /\ KeyPlaces(d, key) # {}
  OBVIOUS
<1> HIDE DEF c, d
<1>4. Len(c) \in Nat /\ Len(d) \in Nat
  BY <1>1, <1>2, LenProperties
<1>5. CASE Len(c) <= Len(d)
  <2>1. \A i \in 1..Len(c) : c[i] = d[i] /\ c[i].kind = "str"
    BY <1>1, <1>2, <1>4, <1>5
  <2> QED
    BY <1>1, <1>2, <1>3, <1>5, <2>1, JsonPrefix DEF c, d
<1>6. CASE Len(d) <= Len(c)
  <2>1. \A i \in 1..Len(d) : d[i] = c[i] /\ d[i].kind = "str"
    BY <1>1, <1>2, <1>4, <1>6
  <2>2. ExtractJsonStr(c, key) = ExtractJsonStr(d, key)
    BY <1>1, <1>2, <1>3, <1>6, <2>1, JsonPrefix
  <2> QED
    BY <2>2 DEF c, d
<1> QED
  BY <1>4, <1>5, <1>6

\* Where the stream holds the body of request k.
LEMMA BodyTokens ==
  ASSUME NEW rs \in Seq(Requests), NEW s, s = FirstTokens(rs, Len(rs)), NEW k \in 1..Len(rs)
  PROVE  /\ rs[k].body \in Seq(Token) /\ Len(rs[k].body) \in Nat /\ Len(rs[k].headers) \in Nat
         /\ Len(FirstTokens(rs, k - 1)) \in Nat
         /\ Len(FirstTokens(rs, k)) =
              Len(FirstTokens(rs, k - 1)) + (7 + Len(rs[k].headers)) + Len(rs[k].body)
         /\ \A y \in 1..Len(rs[k].body) :
              /\ rs[k].body[y].kind = "str"
              /\ s[Len(FirstTokens(rs, k - 1)) + (7 + Len(rs[k].headers)) + y] = rs[k].body[y]
<1> DEFINE r == rs[k]
           e == Encode(r)
           a == Len(FirstTokens(rs, k - 1))
           z == Len(FirstTokens(rs, k))
           n == Len(r.headers)
           m == Len(r.body)
<1>1. /\ r \in Requests /\ a \in Nat /\ z = a + Len(e)
      /\ \A j \in 1..Len(e) : s[a + j] = e[j]
  BY RequestTokens
<1>2. /\ n \in Nat /\ m \in Nat /\ Len(e) = 7 + n + m
      /\ \A i \in 1..m : e[7 + n + i] = r.body[i]
  BY <1>1, EncodeFacts
<1>3. r.body \in Seq(Token) /\ \A y \in 1..m : r.body[y].kind = "str"
  BY <1>1 DEF Requests, JsonStrings
<1> HIDE DEF r, e, a, z, n, m
<1>4. ASSUME NEW y \in 1..m PROVE s[a + (7 + n) + y] = r.body[y]
  <2>1. 7 + n + y \in 1..Len(e) /\ a + (7 + n + y) = a + (7 + n) + y
    BY <1>1, <1>2
  <2> QED
    BY <1>1, <1>2, <2>1
<1>5. z = a + (7 + n) + m
  BY <1>1, <1>2
<1> QED
  BY <1>1, <1>2, <1>3, <1>4, <1>5 DEF r, a, z, n, m

\* Place q of the stream is in the body of a request, and not its end.
InBody(rs, q) ==
  \E j \in 1..Len(rs) : \E x \in 1..Len(rs[j].body) - 1 :
    q = Len(FirstTokens(rs, j - 1)) + (7 + Len(rs[j].headers)) + x

\* A quoted key in the stream is a key in the body of some request.
LEMMA KeyInStream ==
  ASSUME NEW rs \in Seq(Requests), NEW s, s = FirstTokens(rs, Len(rs)), NEW q \in 1..Len(s),
         s[q].kind = "str", s[q].text \in Keys
  PROVE  InBody(rs, q)
<1>1. PICK j \in 1..Len(rs) : \E i \in 1..Len(Encode(rs[j])) :
           q = Len(FirstTokens(rs, j - 1)) + i
  BY Located
<1>2. PICK i \in 1..Len(Encode(rs[j])) : q = Len(FirstTokens(rs, j - 1)) + i
  BY <1>1
<1> DEFINE r == rs[j]
           e == Encode(r)
           a == Len(FirstTokens(rs, j - 1))
           n == Len(r.headers)
           m == Len(r.body)
<1>3. r \in Requests /\ a \in Nat /\ \A x \in 1..Len(e) : s[a + x] = e[x]
  BY <1>1, RequestTokens
<1>4. /\ n \in Nat /\ m \in Nat /\ Len(e) = 7 + n + m
      /\ \A x \in 1..n : e[5 + x] = r.headers[x]
      /\ \A x \in 1..m : e[7 + n + x] = r.body[x]
  BY <1>3, EncodeFacts
<1>5. e[i].kind = "str" => i \in 6..5 + n \cup 8 + n..7 + n + m
  BY <1>3, TokenPlaces
<1>6. \A x \in 1..n : r.headers[x].kind = "str" => r.headers[x].text \notin Keys
  BY <1>3 DEF Requests, HeaderLines
<1>7. m # 0 => r.body[m].text \notin Keys
  <2>1. r.body \in Seq(Token)
    BY <1>3 DEF Requests
  <2>2. m # 0 => r.body # << >>
    BY <2>1, EmptySeq
  <2> QED
    BY <1>3, <2>2 DEF Requests, JsonStrings
<1>8. q = a + i /\ i \in 1..Len(e)
  BY <1>2
<1> HIDE DEF r, e, a, n, m
<1>9. s[q] = e[i]
  BY <1>3, <1>8
<1>10. i \notin 6..5 + n
  <2> SUFFICES ASSUME i \in 6..5 + n PROVE FALSE
    OBVIOUS
  <2>1. i - 5 \in 1..n /\ 5 + (i - 5) = i
    BY <1>4
  <2>2. e[i] = r.headers[i - 5]
    BY <1>4, <2>1
  <2> QED
    BY <1>6, <1>9, <2>1, <2>2
<1> DEFINE x == i - (7 + n)
<1>11. x \in 1..m /\ 7 + n + x = i
  BY <1>4, <1>5, <1>9, <1>10
<1> HIDE DEF x
<1>12. r.body[x] = s[q]
  BY <1>4, <1>9, <1>11
<1>13. x # m
  BY <1>4, <1>7, <1>11, <1>12
<1>14. x \in 1..m - 1 /\ q = a + (7 + n) + x
  BY <1>3, <1>4, <1>8, <1>11, <1>13
<1> QED
  BY <1>14 DEF InBody, r, a, n, m

\* A body that ends with a value and where extractJsonStr does not find a key
\* does not have it.
LEMMA NoKey ==
  ASSUME NEW r \in Requests, NEW key \in Keys, KeyPlaces(r.body, key) = {}
  PROVE  \A i \in 1..Len(r.body) : r.body[i].text # key
<1> DEFINE c == r.body
           n == Len(c)
<1>1. c \in Seq(Token) /\ \A i \in 1..n : c[i].kind = "str"
  BY DEF Requests, JsonStrings
<1>2. n \in Nat /\ DOMAIN c = 1..n
  BY <1>1, LenProperties
<1>3. n # 0 => c[n].text \notin Keys
  <2>1. n # 0 => c # << >>
    BY <1>1, EmptySeq
  <2> QED
    BY <2>1 DEF Requests, JsonStrings
<1> HIDE DEF c, n
<1>4. ASSUME NEW i \in 1..n, c[i].text = key PROVE FALSE
  <2>1. i # n
    BY <1>2, <1>4, <1>3
  <2>2. i \in 1..n /\ i + 1 \in 1..n /\ i + 1 > i
    BY <1>2, <2>1
  <2>3. c[i].kind = "str" /\ c[i + 1].kind = "str"
    BY <1>1, <2>2
  <2>4. i \in KeyPlaces(c, key)
    BY <1>2, <1>4, <2>2, <2>3, Zenon DEF KeyPlaces
  <2> QED
    BY <2>4 DEF c
<1> QED
  BY <1>4 DEF c, n

\* A request behind request k gives key the value v.
LaterHas(rs, k, key, v) == \E j \in k + 1..Len(rs) : ExtractJsonStr(rs[j].body, key) = v

\* A key that the request at the start of the buffer leaves out is taken from
\* the first later request that has it.
LEMMA LaterValue ==
  ASSUME NEW rs \in Seq(Requests), NEW s, s = FirstTokens(rs, Len(rs)), NEW k \in 1..Len(rs),
         NEW b \in Seq(Token),
         Len(FirstTokens(rs, k - 1)) + Len(b) <= Len(s),
         \A i \in 1..Len(b) : b[i] = s[Len(FirstTokens(rs, k - 1)) + i],
         Follows(b, Encode(rs[k]), 0), BlankLines(b) # {},
         NEW key \in Keys, KeyPlaces(rs[k].body, key) = {}, KeyPlaces(Body(b), key) # {}
  PROVE  LaterHas(rs, k, key, ExtractJsonStr(Body(b), key))
<1> DEFINE a == Len(FirstTokens(rs, k - 1))
           z == Len(FirstTokens(rs, k))
           n == Len(rs[k].headers)
           c == rs[k].body
           m == Len(c)
           d == Body(b)
           l == Len(d)
           p == a + (7 + n)
<1>1. /\ c \in Seq(Token) /\ m \in Nat /\ n \in Nat /\ a \in Nat /\ z = a + (7 + n) + m
      /\ rs[k] \in Requests
  BY BodyTokens, RequestTokens
<1>2. /\ d \in Seq(Token) /\ l \in Nat /\ l = Len(b) - (7 + n)
      /\ \A i \in 1..l : i <= m => d[i] = c[i]
      /\ \A i \in 1..l : d[i] = b[7 + n + i]
  BY <1>1, BodyFollows, BodyFacts
<1>3. Len(b) \in Nat /\ a + Len(b) <= Len(s) /\ \A i \in 1..Len(b) : b[i] = s[a + i]
  BY LenProperties
<1>4. \A i \in 1..m : c[i].text # key
  BY <1>1, NoKey
<1>5. PICK x \in 1..l - 1 :
           /\ d[x].kind = "str" /\ d[x].text = key
           /\ \A i \in 1..x - 1 : ~(d[i].kind = "str" /\ d[i].text = key)
  <2>1. KeyPlaces(d, key) # {}
    OBVIOUS
  <2> HIDE DEF d
  <2> QED
    <3>1. PICK t \in Seq(Token) : t = d
      BY <1>2
    <3>2. \E x \in 1..Len(t) - 1 :
           /\ t[x].kind = "str" /\ t[x].text = key
           /\ \A i \in 1..x - 1 : ~(t[i].kind = "str" /\ t[i].text = key)
      BY <2>1, <3>1, FirstKey
    <3> QED
      BY <3>1, <3>2, Zenon
<1>6. Len(s) \in Nat
  <2>1. Len(rs) \in 0..Len(rs)
    BY LenProperties
  <2>2. s \in Seq(Token)
    BY <2>1, FirstTokensFacts
  <2> QED
    BY <2>2, LenProperties
<1>7. \A j \in 1..Len(rs) : j <= k => Len(FirstTokens(rs, j)) <= z
  BY LenProperties, StartsGrow
<1> HIDE DEF a, z, n, c, m, d, l
<1>8. \A i \in 1..l : p + i \in 1..Len(s) /\ d[i] = s[p + i]
  <2> SUFFICES ASSUME NEW i \in 1..l PROVE p + i \in 1..Len(s) /\ d[i] = s[p + i]
    OBVIOUS
  <2>1. 7 + n + i \in 1..Len(b) /\ a + (7 + n + i) = p + i /\ p + i \in 1..Len(s)
    BY <1>1, <1>2, <1>3, <1>6
  <2> QED
    BY <1>2, <1>3, <2>1
<1>9. x > m /\ x \in 1..l /\ x + 1 \in 1..l /\ x \in Nat
  <2>1. x \in 1..l /\ x + 1 \in 1..l /\ x \in Nat
    BY <1>2, <1>5
  <2>2. x <= m => c[x].text = key /\ x \in 1..m
    BY <1>1, <1>2, <1>5, <2>1, SMTT(30)
  <2> QED
    BY <1>1, <1>4, <2>1, <2>2
<1> DEFINE q == p + x
<1>10. q \in 1..Len(s) /\ s[q] = d[x] /\ s[p + (x + 1)] = d[x + 1]
  BY <1>8, <1>9
<1>11. q > z /\ q \in Nat /\ p \in Nat /\ q = z - m + x
  BY <1>1, <1>9
<1> HIDE DEF q, p
<1>12. s[q].kind = "str" /\ s[q].text = key /\ s[q].text \in Keys
  BY <1>5, <1>10
<1>13. PICK j \in 1..Len(rs) : \E y \in 1..Len(rs[j].body) - 1 :
            q = Len(FirstTokens(rs, j - 1)) + (7 + Len(rs[j].headers)) + y
  <2>1. InBody(rs, q)
    BY <1>10, <1>12, KeyInStream
  <2> QED
    BY <2>1, Zenon DEF InBody
<1> DEFINE w == rs[j].body
           v == Len(w)
           o == Len(FirstTokens(rs, j - 1)) + (7 + Len(rs[j].headers))
           u == Len(FirstTokens(rs, j))
<1>14. PICK y \in 1..v - 1 : q = o + y
  BY <1>13
<1>15. /\ w \in Seq(Token) /\ v \in Nat /\ o \in Nat /\ u = o + v
       /\ \A i \in 1..v : w[i].kind = "str" /\ s[o + i] = w[i]
  <2> DEFINE f == Len(FirstTokens(rs, j - 1))
             h == Len(rs[j].headers)
  <2>1. /\ w \in Seq(Token) /\ v \in Nat /\ h \in Nat /\ f \in Nat
        /\ u = f + (7 + h) + v
        /\ \A i \in 1..v : w[i].kind = "str" /\ s[f + (7 + h) + i] = w[i]
    BY BodyTokens, ZenonT(60)
  <2>2. f + (7 + h) \in Nat
    <3>1. f \in Nat /\ h \in Nat
      BY <2>1
    <3> HIDE DEF f, h, w, v, o, u
    <3> QED
      BY <3>1
  <2> QED
    BY <2>1, <2>2
<1>16. j <= k => u <= z
  BY <1>7
<1>17. z \in Nat /\ k \in Nat /\ j \in Nat /\ Len(rs) \in Nat
  BY <1>1, LenProperties
<1>18. j >= k + 1 => o >= z
  <2> SUFFICES ASSUME j >= k + 1 PROVE o >= z
    OBVIOUS
  <2>1. k \in 0..Len(rs) /\ j - 1 \in 0..Len(rs) /\ k <= j - 1
    BY <1>17
  <2>2. z <= Len(FirstTokens(rs, j - 1)) /\ Len(FirstTokens(rs, j - 1)) \in Nat
    BY <2>1, StartsGrow DEF z
  <2> DEFINE f == Len(FirstTokens(rs, j - 1))
             h == Len(rs[j].headers)
  <2>3. h \in Nat
    BY BodyTokens
  <2>4. z <= f /\ f \in Nat /\ o = f + (7 + h)
    BY <2>2
  <2> HIDE DEF f, h, o
  <2> QED
    BY <1>17, <2>3, <2>4
<1> HIDE DEF w, v, o, u
<1>19. j \in k + 1..Len(rs)
  <2>1. ~(j <= k)
    BY <1>11, <1>14, <1>15, <1>16, <1>17
  <2> QED
    BY <1>17, <2>1
<1>20. o >= z /\ y \in 1..v /\ y + 1 \in 1..v
  BY <1>15, <1>17, <1>18, <1>19
<1>21. w[y] = s[q] /\ w[y + 1] = d[x + 1]
  <2>1. o + (y + 1) = p + (x + 1)
    BY <1>9, <1>11, <1>14, <1>15 DEF q
  <2>2. w[y] = s[o + y] /\ w[y + 1] = s[o + (y + 1)]
    BY <1>15, <1>20
  <2> QED
    BY <1>10, <1>14, <2>1, <2>2
<1>22. ASSUME NEW i \in 1..y - 1, w[i].kind = "str" /\ w[i].text = key PROVE FALSE
  <2> DEFINE g == x - (y - i)
  <2>1. i \in 1..v /\ p + g = o + i
    BY <1>9, <1>11, <1>14, <1>15, <1>20 DEF q
  <2>2. g \in 1..x - 1 /\ g \in 1..l
    <3>1. p + m = z
      BY <1>1 DEF p
    <3>2. p + x = o + y
      BY <1>14 DEF q
    <3>3. x - y >= m
      BY <1>1, <1>9, <1>11, <1>15, <1>17, <1>20, <3>1, <3>2
    <3>4. g >= 1 /\ g < x
      BY <1>1, <1>9, <1>20, <3>3
    <3> QED
      BY <1>2, <1>9, <1>20, <3>4
  <2>3. w[i] = s[o + i]
    BY <1>15, <2>1
  <2> HIDE DEF g
  <2>4. d[g] = s[p + g]
    BY <1>8, <2>2
  <2>5. d[g] = w[i]
    BY <2>1, <2>3, <2>4
  <2> QED
    BY <1>5, <1>22, <2>2, <2>5
<1>23. ExtractJsonStr(w, key) = w[y + 1].text
  <2>1. w[y].kind = "str" /\ w[y].text = key /\ w[y + 1].kind = "str"
    BY <1>12, <1>15, <1>20, <1>21
  <2>2. \A i \in 1..y - 1 : ~(w[i].kind = "str" /\ w[i].text = key)
    BY <1>22
  <2>3. y \in 1..Len(w) - 1
    BY <1>14 DEF v
  <2> QED
    BY <1>15, <2>1, <2>2, <2>3, JsonValue, ZenonT(60)
<1>24. ExtractJsonStr(d, key) = d[x + 1].text
  <2>1. d[x + 1].kind = "str"
    BY <1>15, <1>20, <1>21
  <2>2. x \in 1..Len(d) - 1
    BY <1>5 DEF l
  <2> QED
    BY <1>2, <1>5, <2>1, <2>2, JsonValue, ZenonT(60)
<1>25. ExtractJsonStr(w, key) = ExtractJsonStr(d, key)
  BY <1>21, <1>23, <1>24
<1> QED
  BY <1>19, <1>25 DEF LaterHas, w, d

\* What handlePostCommand makes of a value of params.
Params(t) == IF t = "" THEN "{}" ELSE t

\* The parts of the command that a body posts.
LEMMA PostedParts ==
  ASSUME NEW d \in Seq(Token)
  PROVE  /\ Posted(d) = [device |-> ExtractJsonStr(d, "device_id"),
                         command |-> ExtractJsonStr(d, "command"),
                         params |-> Params(ExtractJsonStr(d, "params"))]
         /\ Posted(d).params = Params(ExtractJsonStr(d, "params"))
         /\ KeyPlaces(d, "params") = {} => Params(ExtractJsonStr(d, "params")) = "{}"
         /\ ~Missing(Posted(d)) =>
              KeyPlaces(d, "device_id") # {} /\ KeyPlaces(d, "command") # {}
<1>1. Posted(d) = [device |-> ExtractJsonStr(d, "device_id"),
                   command |-> ExtractJsonStr(d, "command"),
                   params |-> Params(ExtractJsonStr(d, "params"))]
  BY Zenon DEF Posted, Params
<1>2. KeyPlaces(d, "params") = {} => Params(ExtractJsonStr(d, "params")) = "{}"
  BY JsonText, Zenon DEF Params
<1>3. /\ Posted(d).device = ExtractJsonStr(d, "device_id")
      /\ Posted(d).command = ExtractJsonStr(d, "command")
      /\ Posted(d).params = Params(ExtractJsonStr(d, "params"))
  BY <1>1
<1>4. KeyPlaces(d, "device_id") = {} => Missing(Posted(d))
  BY <1>3, JsonText, Zenon DEF Missing
<1>5. KeyPlaces(d, "command") = {} => Missing(Posted(d))
  BY <1>3, JsonText, Zenon DEF Missing
<1> QED
  BY <1>1, <1>2, <1>3, <1>4, <1>5

\* What a handler takes from a buffer was posted by the request it starts with.
LEMMA PostTaken ==
  ASSUME requests \in Conversations, CompletePosts, NEW end \in Nat, NEW b \in Seq(Token),
         TailOf(b, end), BlankLines(b) # {}, <<Method(b), Path(b)>> = PostLine,
         ~Missing(Posted(Body(b)))
  PROVE  \E k \in DOMAIN requests :
           /\ TakenFrom(Posted(Body(b)), k) /\ StartOf(k) = end - Len(b)
           /\ Len(b) >= 2 /\ Len(b) \in Nat
<1>1. PICK k \in 1..Len(requests) :
           /\ IsPost(requests[k]) /\ Len(FirstTokens(requests, k - 1)) = end - Len(b)
           /\ Follows(b, Encode(requests[k]), 0)
           /\ Len(b) >= 2 /\ Len(b) \in Nat
  BY PostInBuffer
<1>2. PICK rs \in Seq(Requests) : rs = requests /\ Stream = FirstTokens(rs, Len(rs))
  BY StreamFacts
<1> DEFINE r == rs[k]
           c == r.body
           d == Body(b)
<1>3. r \in Requests /\ k \in 1..Len(rs) /\ DOMAIN rs = 1..Len(rs) /\ Follows(b, Encode(r), 0)
  BY <1>1, <1>2, ElementOfSeq, LenProperties
<1>4. c \in Seq(Token)
  BY <1>3 DEF Requests
<1>5. d \in Seq(Token)
  BY BodyType
<1>6. ~Missing(Posted(c)) /\ IsPost(r)
  <2>1. r \in ToSet(requests)
    BY <1>2, <1>3 DEF ToSet
  <2> QED
    BY <1>1, <1>2, <2>1, Zenon DEF CompletePosts
<1>7. KeyPlaces(c, "device_id") # {} /\ KeyPlaces(c, "command") # {}
  BY <1>4, <1>6, PostedParts
<1>8. KeyPlaces(d, "device_id") # {} /\ KeyPlaces(d, "command") # {}
  BY <1>5, PostedParts
<1>9. /\ ExtractJsonStr(d, "device_id") = ExtractJsonStr(c, "device_id")
      /\ ExtractJsonStr(d, "command") = ExtractJsonStr(c, "command")
  BY <1>3, <1>7, <1>8, OwnValue
<1> DEFINE D == ExtractJsonStr(c, "device_id")
           C == ExtractJsonStr(c, "command")
           p == Params(ExtractJsonStr(d, "params"))
           o == Params(ExtractJsonStr(c, "params"))
           x == Posted(d)
           own == Posted(c)
<1>10. x = [device |-> D, command |-> C, params |-> p]
  BY <1>5, <1>9, PostedParts, Zenon
<1>11. own = [device |-> D, command |-> C, params |-> o]
  BY <1>4, PostedParts, Zenon
<1> DEFINE later == {Posted(rs[j].body).params : j \in k + 1..Len(rs)}
<1>12. p = "{}" \/ p = o \/ (o = "{}" /\ p \in later)
  <2>1. CASE KeyPlaces(d, "params") = {}
    BY <1>5, <2>1, PostedParts
  <2>2. CASE KeyPlaces(d, "params") # {} /\ KeyPlaces(c, "params") # {}
    BY <1>3, <2>2, OwnValue
  <2>3. CASE KeyPlaces(d, "params") # {} /\ KeyPlaces(c, "params") = {}
    <3>1. o = "{}"
      BY <1>4, <2>3, PostedParts
    <3>2. PICK s : s = Stream
      OBVIOUS
    <3>3. /\ Len(FirstTokens(rs, k - 1)) = end - Len(b) /\ Len(b) \in Nat
          /\ Len(b) <= end /\ end <= Len(s) /\ \A i \in 1..Len(b) : b[i] = s[end - Len(b) + i]
      BY <1>1, <1>2, <3>2 DEF TailOf
    <3>4. /\ Len(FirstTokens(rs, k - 1)) + Len(b) <= Len(s)
          /\ \A i \in 1..Len(b) : b[i] = s[Len(FirstTokens(rs, k - 1)) + i]
      <4> DEFINE a == Len(FirstTokens(rs, k - 1))
                 l == Len(b)
      <4>1. a = end - l /\ l \in Nat /\ end <= Len(s)
        BY <3>3
      <4> HIDE DEF a, l
      <4>2. a + l = end
        BY <4>1
      <4>3. a + l <= Len(s)
        BY <4>1, <4>2
      <4> QED
        BY <3>3, <4>3 DEF a, l
    <3>5. s = FirstTokens(rs, Len(rs)) /\ "params" \in Keys
      BY <1>2, <3>2 DEF Keys
    <3>6. PICK j \in k + 1..Len(rs) :
               ExtractJsonStr(rs[j].body, "params") = ExtractJsonStr(Body(b), "params")
      <4>1. PICK key \in Keys : key = "params"
        BY <3>5
      <4>2. KeyPlaces(rs[k].body, key) = {} /\ KeyPlaces(Body(b), key) # {}
        BY <2>3, <4>1
      <4>3. LaterHas(rs, k, key, ExtractJsonStr(Body(b), key))
        BY <1>3, <3>4, <3>5, <4>2, LaterValue
      <4> QED
        BY <4>1, <4>3, Zenon DEF LaterHas
    <3>7. rs[j].body \in Seq(Token)
      <4>1. j \in 1..Len(rs)
        BY <1>3, LenProperties
      <4>2. rs[j] \in Requests
        BY <4>1, ElementOfSeq
      <4> QED
        BY <4>2 DEF Requests
    <3>8. Posted(rs[j].body).params = Params(ExtractJsonStr(rs[j].body, "params"))
      <4>1. PICK w \in Seq(Token) : w = rs[j].body
        BY <3>7
      <4>2. Posted(w).params = Params(ExtractJsonStr(w, "params"))
        BY PostedParts, Zenon
      <4> QED
        BY <4>1, <4>2, Zenon
    <3>9. p = Posted(rs[j].body).params
      BY <3>6, <3>8, Zenon
    <3> HIDE DEF p
    <3> QED
      BY <3>1, <3>6, <3>9, Zenon
  <2> QED
    BY <2>1, <2>2, <2>3
<1> HIDE DEF D, C, p, o, x, own, later
<1>13. own.params = o /\ x = [own EXCEPT !.params = p]
  BY <1>10, <1>11
<1>14. p \in {own.params, "{}"} \cup IF own.params = "{}" THEN later ELSE {}
  BY <1>12, <1>13, Zenon
<1>15. TakenFrom(x, k)
  BY <1>2, <1>6, <1>13, <1>14, Zenon DEF TakenFrom, own, later
<1>16. StartOf(k) = Len(FirstTokens(requests, k - 1))
  BY Zenon DEF StartOf, FirstTokens
<1> QED
  BY <1>1, <1>2, <1>3, <1>15, <1>16 DEF x

\* Of two requests that start at different places the first in the stream was
\* the first sent.
LEMMA StartsOrdered ==
  ASSUME requests \in Conversations, NEW j \in DOMAIN requests, NEW k \in DOMAIN requests
  PROVE  /\ StartOf(j) \in Nat /\ StartOf(k) \in Nat
         /\ StartOf(j) < StartOf(k) => j < k
<1>1. PICK rs \in Seq(Requests) : rs = requests
  BY StreamFacts
<1>2. Len(rs) \in Nat /\ j \in 1..Len(rs) /\ k \in 1..Len(rs)
  BY <1>1, LenProperties
<1>3. /\ StartOf(j) = Len(FirstTokens(rs, j - 1))
      /\ StartOf(k) = Len(FirstTokens(rs, k - 1))
  BY <1>1, Zenon DEF StartOf, FirstTokens
<1>4. j - 1 \in 0..Len(rs) /\ k - 1 \in 0..Len(rs) /\ (k <= j => k - 1 <= j - 1)
  BY <1>2
<1>5. StartOf(j) \in Nat /\ StartOf(k) \in Nat
  <2>1. j - 1 <= j - 1 /\ k - 1 <= k - 1
    BY <1>2
  <2> QED
    BY <1>3, <1>4, <2>1, StartsGrow
<1>6. k <= j => StartOf(k) <= StartOf(j)
  BY <1>3, <1>4, StartsGrow
<1> QED
  BY <1>2, <1>5, <1>6

\* TakenFrom for the requests rs.
TakenOf(rs, c, k) ==
  LET own == Posted(rs[k].body)
      later == {Posted(rs[j].body).params : j \in k + 1..Len(rs)}
  IN  /\ IsPost(rs[k])
      /\ \E p \in {own.params, "{}"} \cup IF own.params = "{}" THEN later ELSE {} :
           c = [own EXCEPT !.params = p]

\* Where a command was taken from depends on the requests only.
LEMMA TakenStays ==
  ASSUME requests' = requests, NEW f,
         \A i \in DOMAIN enqueued' : TakenFrom(enqueued'[i], f[i])
  PROVE  \A i \in DOMAIN enqueued' : TakenFrom(enqueued[i], f[i])'
<1>1. \A c, k : TakenFrom(c, k) <=> TakenOf(requests, c, k)
  BY Zenon DEF TakenFrom, TakenOf
<1>2. ASSUME NEW i \in DOMAIN enqueued'
      PROVE  TakenFrom(enqueued[i], f[i])' <=> TakenOf(requests', enqueued'[i], f[i])
  BY Zenon DEF TakenFrom, TakenOf
<1> QED
  BY <1>1, <1>2, Zenon

\* The commands taken so far, when a step adds none.
LEMMA TakenKept ==
  ASSUME requests \in Conversations, requests' = requests, enqueued' = enqueued,
         NEW y \in Int, NEW z \in Int, y <= z, TakenBefore(y)
  PROVE  TakenBefore(z)'
<1>1. PICK f \in [DOMAIN enqueued -> DOMAIN requests] :
         TakenInOrder(f) /\ \A i \in DOMAIN enqueued : StartOf(f[i]) < y
  BY Zenon DEF TakenBefore
<1>2. TakenInOrder(f)'
  <2>1. \A i \in DOMAIN enqueued' : TakenFrom(enqueued'[i], f[i])
    BY <1>1, Zenon DEF TakenInOrder
  <2>2. \A i \in DOMAIN enqueued' : TakenFrom(enqueued[i], f[i])'
    BY <2>1, TakenStays
  <2> QED
    BY <1>1, <2>2, Zenon DEF TakenInOrder
<1>3. ASSUME NEW i \in DOMAIN enqueued PROVE StartOf(f[i]) < z
  <2>1. f[i] \in DOMAIN requests
    BY <1>1
  <2>2. StartOf(f[i]) \in Nat /\ StartOf(f[i]) < y
    BY <1>1, <2>1, StartsOrdered
  <2> QED
    BY <2>2
<1>4. \A x : StartOf(x)' = StartOf(x)
  BY Zenon DEF StartOf
<1> QED
  BY <1>1, <1>2, <1>3, <1>4, Zenon DEF TakenBefore

\* The commands taken so far, and one more.
LEMMA OneMoreTaken ==
  ASSUME requests \in Conversations, enqueued \in Seq(Commands), NEW c \in Commands,
         NEW k \in DOMAIN requests, TakenFrom(c, k), TakenBefore(StartOf(k)),
         enqueued' = Append(enqueued, c), requests' = requests,
         NEW z \in Nat, StartOf(k) < z
  PROVE  TakenBefore(z)'
<1> DEFINE n == Len(enqueued)
<1>1. PICK f \in [DOMAIN enqueued -> DOMAIN requests] :
         TakenInOrder(f) /\ \A i \in DOMAIN enqueued : StartOf(f[i]) < StartOf(k)
  BY Zenon DEF TakenBefore
<1>2. PICK g : g = [i \in 1..n + 1 |-> IF i = n + 1 THEN k ELSE f[i]]
  OBVIOUS
<1>3. n \in Nat /\ DOMAIN enqueued = 1..n
  BY LenProperties
<1>4. /\ Append(enqueued, c) \in Seq(Commands) /\ Len(Append(enqueued, c)) = n + 1
      /\ \A i \in 1..n : Append(enqueued, c)[i] = enqueued[i]
      /\ Append(enqueued, c)[n + 1] = c
  BY AppendProperties
<1>5. DOMAIN Append(enqueued, c) = 1..n + 1
  BY <1>4, LenProperties
<1>6. /\ DOMAIN enqueued' = 1..n + 1 /\ enqueued'[n + 1] = c
      /\ \A i \in 1..n : enqueued'[i] = enqueued[i]
  BY <1>4, <1>5
<1>7. /\ \A i \in 1..n : f[i] \in DOMAIN requests /\ StartOf(f[i]) < StartOf(k)
                         /\ TakenFrom(enqueued[i], f[i])
      /\ \A i, j \in 1..n : i < j => f[i] < f[j]
  BY <1>3, <1>1, Zenon DEF TakenInOrder
<1> HIDE DEF n
<1>8. g = [i \in 1..n + 1 |-> IF i = n + 1 THEN k ELSE f[i]]
  BY <1>2 DEF n
<1>9. g[n + 1] = k /\ \A i \in 1..n : g[i] = f[i]
  BY <1>3, <1>8
<1>10. \A i \in 1..n + 1 : i \in 1..n \/ i = n + 1
  BY <1>3
<1>11. \A i \in 1..n + 1 : g[i] \in DOMAIN requests
  BY <1>7, <1>9, <1>10, Zenon
<1>12. g \in [1..n + 1 -> DOMAIN requests]
  BY <1>8, <1>11, Zenon
<1>13. \A i \in 1..n : f[i] < k
  BY <1>7, StartsOrdered
<1>14. ASSUME NEW i \in 1..n + 1, NEW j \in 1..n + 1, i < j PROVE g[i] < g[j]
  <2>1. i \in 1..n
    BY <1>3, <1>14
  <2>2. CASE j = n + 1
    BY <1>9, <1>13, <2>1, <2>2, Zenon
  <2>3. CASE j # n + 1
    <3>1. j \in 1..n
      BY <1>10, <2>3
    <3> QED
      BY <1>7, <1>9, <1>14, <2>1, <3>1, Zenon
  <2> QED
    BY <2>2, <2>3
<1>15. \A i \in 1..n + 1 : TakenFrom(enqueued'[i], g[i])
  BY <1>6, <1>7, <1>9, <1>10, Zenon
<1>16. TakenInOrder(g)'
  <2>1. \A i \in DOMAIN enqueued' : TakenFrom(enqueued[i], g[i])'
    BY <1>6, <1>15, TakenStays
  <2> QED
    BY <1>6, <1>14, <2>1, Zenon DEF TakenInOrder
<1>17. ASSUME NEW i \in 1..n + 1 PROVE StartOf(g[i]) < z
  <2>1. CASE i = n + 1
    BY <1>9, <2>1
  <2>2. CASE i \in 1..n
    <3>1. StartOf(f[i]) \in Nat /\ StartOf(k) \in Nat /\ StartOf(f[i]) < StartOf(k)
      BY <1>7, <2>2, StartsOrdered
    <3>2. StartOf(f[i]) < z
      BY <3>1
    <3> QED
      BY <1>9, <2>2, <3>2, Zenon
  <2> QED
    BY <1>10, <2>1, <2>2
<1>18. \A x : StartOf(x)' = StartOf(x)
  BY Zenon DEF StartOf
<1> QED
  BY <1>6, <1>12, <1>16, <1>17, <1>18, Zenon DEF TakenBefore

\* Every read keeps what TakenIsGone says.
LEMMA TakenStep ==
  ASSUME TypeOK, InputIsTail, OneAnswer, TakenIsGone,
         NEW end \in received + 1..Len(Stream), HandleRead(end)
  PROVE  TakenIsGone'
<1>1. PICK b \in Seq(Token) :
           /\ state # "terminated" /\ received' = end
           /\ split' = (split \/ end \in FirstLineEnd..FirstEnd - 1)
           /\ covered' = (IF covered = 0 /\ end >= FirstEnd THEN end ELSE covered)
           /\ \/ ApiHandlesRequest(b) \/ DashboardHandlesRequest(b) \/ NoWholeHeader(b)
           /\ server' = server /\ requests' = requests
           /\ TailOf(b, end) /\ Len(b) = Len(input) + (end - received)
           /\ end \in Nat /\ end > received /\ end <= Len(Stream)
  BY ReadParts
<1>2. requests \in Conversations /\ received \in Nat /\ enqueued \in Seq(Commands)
      /\ input \in Seq(Token)
  BY DEF TypeOK
<1>3. Len(input) \in Nat /\ Len(b) \in Nat
  BY <1>2, LenProperties
<1>4. Len(input) <= received /\ Len(b) <= end
  BY <1>1 DEF InputIsTail, TailOf
<1> SUFFICES ASSUME CompletePosts' PROVE TakenBefore(received - Len(input))'
  BY Zenon DEF TakenIsGone
<1>5. CompletePosts
  BY <1>1, Zenon DEF CompletePosts
<1>6. TakenBefore(received - Len(input))
  BY <1>5, Zenon DEF TakenIsGone
<1>7. received - Len(input) = end - Len(b) /\ end - Len(b) \in Nat
  <2> DEFINE l == Len(input)
             m == Len(b)
  <2>1. l \in Nat /\ m \in Nat /\ m = l + (end - received) /\ m <= end
        /\ received \in Nat /\ end \in Nat
    BY <1>1, <1>2, <1>3, <1>4
  <2> HIDE DEF l, m
  <2>2. received - l = end - m /\ end - m \in Nat
    BY <2>1
  <2> QED
    BY <2>2 DEF l, m
<1>8. Len(input') \in Nat /\ Len(input') <= Len(b) /\
      (ApiHandlesRequest(b) \/ DashboardHandlesRequest(b) => Len(input') = 0)
  <2>1. CASE NoWholeHeader(b) /\ ~(ApiHandlesRequest(b) \/ DashboardHandlesRequest(b))
    <3>1. input' = Unfinished(b)
      BY <2>1 DEF NoWholeHeader
    <3>2. Len(Unfinished(b)) <= Len(b) /\ Len(Unfinished(b)) \in Nat
      BY <1>1, UnfinishedFacts
    <3> QED
      BY <2>1, <3>1, <3>2
  <2>2. CASE ApiHandlesRequest(b) \/ DashboardHandlesRequest(b)
    <3>1. input' = << >>
      BY <1>1, <2>2, HandlerFacts
    <3>2. Len(<< >>) = 0
      OBVIOUS
    <3> QED
      BY <1>3, <3>1, <3>2
  <2> QED
    BY <1>1, <2>1, <2>2
<1>9. received' - Len(input') >= received - Len(input)
  BY <1>1, <1>3, <1>7, <1>8
<1>10. CASE enqueued' = enqueued
  <2>1. received - Len(input) \in Int
    BY <1>2, <1>3
  <2>2. PICK y \in Int : y = received - Len(input)
    BY <2>1, Zenon
  <2>3. PICK z \in Int : z = received' - Len(input')
    BY <1>1, <1>8
  <2>4. TakenBefore(z)'
    BY <1>1, <1>2, <1>6, <1>9, <1>10, <2>2, <2>3, TakenKept
  <2> QED
    BY <2>3, <2>4, Zenon DEF TakenBefore
<1>11. CASE enqueued' # enqueued
  <2>1. ApiHandlesRequest(b) \/ DashboardHandlesRequest(b)
    BY <1>1, <1>11 DEF NoWholeHeader
  <2> DEFINE c == Posted(Body(b))
  <2>2. /\ BlankLines(b) # {} /\ c \in Commands
        /\ <<Method(b), Path(b)>> = PostLine /\ ~Missing(c)
        /\ enqueued' = Append(enqueued, c)
    BY <1>1, <1>11, <2>1, EnqueueFacts, HandlerFacts
  <2>3. PICK k \in DOMAIN requests :
           /\ TakenFrom(c, k) /\ StartOf(k) = end - Len(b)
           /\ Len(b) >= 2 /\ Len(b) \in Nat
    BY <1>1, <1>2, <1>5, <2>2, PostTaken
  <2>4. TakenBefore(StartOf(k))
    BY <1>6, <1>7, <2>3
  <2>5. StartOf(k) < end
    <3>1. PICK y : y = StartOf(k)
      OBVIOUS
    <3>2. PICK l \in Nat : l = Len(b)
      BY <2>3
    <3>3. y = end - l /\ l >= 2
      BY <2>3, <3>1, <3>2
    <3>4. y < end
      BY <1>1, <3>3
    <3> QED
      BY <3>1, <3>4
  <2>6. PICK x \in Commands : x = c
    BY <2>2
  <2>7. TakenFrom(x, k) /\ enqueued' = Append(enqueued, x)
    BY <2>2, <2>3, <2>6, Zenon
  <2>8. TakenBefore(end)'
    BY <1>1, <1>2, <2>4, <2>5, <2>7, OneMoreTaken
  <2>9. received' - Len(input') = end
    BY <1>1, <1>8, <2>1
  <2> QED
    BY <2>8, <2>9, Zenon DEF TakenBefore
<1> QED
  BY <1>10, <1>11

----------------------------------------------------------------------------
(* The invariant *)

\* Types, the buffer, the answer, the first request and the commands.
HttpInv ==
  TypeOK /\ InputIsTail /\ OneAnswer /\ FirstReads /\ WholeRequestAnswered /\ TakenIsGone

\* It holds when a connection is made.
LEMMA HttpInit == Init => HttpInv
<1> SUFFICES ASSUME Init PROVE HttpInv
  OBVIOUS
<1>1. /\ server \in {"api", "dashboard"} /\ requests \in Conversations
      /\ received = 0 /\ split = FALSE /\ covered = 0 /\ input = << >>
      /\ state = "connected" /\ output = << >> /\ enqueued = << >>
  BY DEF Init
<1>2. TypeOK
  BY <1>1, EmptySeq DEF TypeOK
<1>3. Stream \in Seq(Token) /\ FirstLineEnd = 5
  BY <1>1, StreamFacts, FirstLine
<1>4. 0 \in Nat /\ 0 <= Len(Stream)
  BY <1>3, LenProperties
<1>5. TailOf(<< >>, 0) /\ Len(<< >>) = 0
  BY <1>4, NoTail
<1>6. InputIsTail
  BY <1>1, <1>5 DEF InputIsTail
<1>7. FirstReads
  BY <1>1, <1>3, <1>5 DEF FirstReads
<1>8. OneAnswer /\ WholeRequestAnswered
  BY <1>1 DEF OneAnswer, WholeRequestAnswered
<1>9. TakenIsGone
  <2>1. 1 \in DOMAIN requests /\ DOMAIN << >> = {}
    <3>1. requests \in Seq(Requests) /\ Len(requests) \in Nat \ {0}
      BY <1>1, StreamFacts
    <3>2. 1 \in 1..Len(requests) /\ DOMAIN requests = 1..Len(requests)
      BY <3>1, LenProperties
    <3> QED
      BY <3>2
  <2>2. PICK f : f = [i \in DOMAIN enqueued |-> 1]
    OBVIOUS
  <2>3. f \in [DOMAIN enqueued -> DOMAIN requests] /\ DOMAIN enqueued = {}
    BY <1>1, <2>1, <2>2, Zenon
  <2>4. TakenInOrder(f)
    BY <2>3, Zenon DEF TakenInOrder
  <2> QED
    BY <2>3, <2>4, Zenon DEF TakenIsGone, TakenBefore
<1> QED
  BY <1>2, <1>6, <1>7, <1>8, <1>9 DEF HttpInv

\* Every step keeps it.
LEMMA HttpStep == HttpInv /\ [Next]_vars => HttpInv'
<1> SUFFICES ASSUME HttpInv, [Next]_vars PROVE HttpInv'
  OBVIOUS
<1>1. CASE Next
  <2>1. PICK end \in received + 1..Len(Stream) : HandleRead(end)
    BY <1>1 DEF Next
  <2>2. TypeOK' /\ InputIsTail' /\ OneAnswer'
    BY <2>1, ReadKeeps DEF HttpInv
  <2>3. FirstReads' /\ WholeRequestAnswered'
    BY <2>1, FirstStep DEF HttpInv
  <2>4. TakenIsGone'
    BY <2>1, TakenStep DEF HttpInv
  <2> QED
    BY <2>2, <2>3, <2>4 DEF HttpInv
<1>2. CASE UNCHANGED vars
  <2>1. /\ server' = server /\ requests' = requests /\ received' = received
        /\ split' = split /\ covered' = covered /\ input' = input /\ state' = state
        /\ output' = output /\ enqueued' = enqueued
    BY <1>2 DEF vars
  <2>2. TypeOK' /\ OneAnswer'
    BY <2>1, Zenon DEF HttpInv, TypeOK, OneAnswer
  <2>3. Stream' = Stream
    BY <2>1, Zenon DEF Stream
  <2>4. FirstEnd' = FirstEnd /\ FirstLineEnd' = FirstLineEnd
    BY <2>1, <2>3, Zenon DEF FirstEnd, FirstLineEnd
  <2>5. InputIsTail' /\ FirstReads'
    BY <2>1, <2>3, <2>4, Zenon DEF HttpInv, InputIsTail, TailOf, FirstReads
  <2>6. WholeRequestAnswered'
    BY <2>1, <2>4, Zenon DEF HttpInv, WholeRequestAnswered, SelfContained, AnsweredAlone,
       AnswerTo
  <2>7. TakenIsGone'
    <3> SUFFICES ASSUME CompletePosts' PROVE TakenBefore(received - Len(input))'
      BY Zenon DEF TakenIsGone
    <3>1. CompletePosts
      BY <2>1, Zenon DEF CompletePosts
    <3>2. received \in Nat /\ input \in Seq(Token)
      BY DEF HttpInv, TypeOK
    <3>3. Len(input) \in Nat
      BY <3>2, LenProperties
    <3>4. received - Len(input) \in Int
      BY <3>2, <3>3
    <3>5. PICK y \in Int : y = received - Len(input)
      BY <3>4, Zenon
    <3>6. TakenBefore(y)
      BY <3>1, <3>5, Zenon DEF HttpInv, TakenIsGone
    <3>7. requests \in Conversations /\ y <= y
      BY DEF HttpInv, TypeOK
    <3>8. TakenBefore(y)'
      BY <2>1, <3>6, <3>7, TakenKept
    <3> QED
      BY <2>1, <3>5, <3>8, Zenon DEF TakenBefore
  <2> QED
    BY <2>2, <2>5, <2>6, <2>7 DEF HttpInv
<1> QED
  BY <1>1, <1>2

\* The invariant of a connection of an HTTP server holds in every state.
THEOREM HttpInvariant == Spec => []HttpInv
BY HttpInit, HttpStep, PTL DEF Spec

\* Every variable keeps to its type.
THEOREM TypeCorrect == Spec => []TypeOK
<1>1. HttpInv => TypeOK
  BY DEF HttpInv
<1> QED
  BY <1>1, HttpInvariant, PTL

\* At most one response leaves a connection, whole and before the FIN, however
\* its requests are cut into reads, joined or repeated.
THEOREM AnswersOnce == Spec => []OneAnswer
<1>1. HttpInv => OneAnswer
  BY DEF HttpInv
<1> QED
  BY <1>1, HttpInvariant, PTL

\* A request that no read cuts after its request line is answered as if it
\* had come alone.
THEOREM FirstAsIfAlone == Spec => []WholeRequestAnswered
<1>1. HttpInv => WholeRequestAnswered
  BY DEF HttpInv
<1> QED
  BY <1>1, HttpInvariant, PTL

\* Reads that end anywhere never make a command up: each was posted, device and
\* command in one body, and each POST enqueues once at most, in order.
THEOREM CommandsWerePosted == Spec => []EnqueuedWasPosted
<1>1. HttpInv => EnqueuedWasPosted
  BY Zenon DEF HttpInv, TakenIsGone, TakenBefore, EnqueuedWasPosted
<1> QED
  BY <1>1, HttpInvariant, PTL
=============================================================================
