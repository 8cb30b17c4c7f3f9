---------------------------- MODULE ExpressProofs ----------------------------
(***************************************************************************)
(* Theorems about module Express, for any requests, books, pool and number *)
(* of accidents.  The first part is about the books alone: that get_price  *)
(* sells as well as it can be done.                                        *)
(***************************************************************************)
EXTENDS Express, SumTheorems, TLAPS

----------------------------------------------------------------------------
(* Arithmetic.                                                             *)

LEMMA Division ==
    ASSUME NEW a \in Nat, NEW b \in Nat \ {0}
    PROVE  a \div b \in Nat /\ b * (a \div b) <= a /\ a < b * (a \div b) + b
  OBVIOUS

LEMMA Products ==
    /\ \A a, b \in Nat : a * b \in Nat
    /\ \A a, b, c \in Nat : a <= b => c * a <= c * b /\ a * c <= b * c
    /\ \A a, b, c \in Nat : (a * b) * c = a * (b * c)
    /\ \A a, b, c \in Nat : a * (b + c) = a * b + a * c
<1>1. \A a, b \in Nat : a * b \in Nat
    OBVIOUS
<1>2. \A a, b, c \in Nat : a <= b => c * a <= c * b /\ a * c <= b * c
    OBVIOUS
<1>3. \A a, b, c \in Nat : (a * b) * c = a * (b * c)
    OBVIOUS
<1>4. \A a, b, c \in Nat : a * (b + c) = a * b + a * c
    OBVIOUS
<1> QED
    BY <1>1, <1>2, <1>3, <1>4

(* To sell a lot of the dearer level is better than one of the cheaper.    *)
LEMMA Dearer ==
    ASSUME NEW l \in Nat, NEW g \in Nat, NEW p \in Nat, NEW q \in Nat,
           \/ l <= g /\ q <= p
           \/ g <= l /\ p <= q
           \/ p = q
    PROVE  l * p + q * g <= g * p + q * l
<1>1. CASE p = q
    BY <1>1
<1>2. CASE l <= g /\ q <= p
  <2>1. (g - l) * (p - q) >= 0
      BY <1>2
  <2> QED
      BY <2>1
<1>3. CASE g <= l /\ p <= q
  <2>1. (l - g) * (q - p) >= 0
      BY <1>3
  <2> QED
      BY <2>1
<1> QED
    BY <1>1, <1>2, <1>3

----------------------------------------------------------------------------
(* A side of the books.                                                    *)

LEMMA LevelIs ==
    ASSUME NEW order \in RestingOrder
    PROVE  LevelOf(order) \in Nat
<1>1. order.price \in Nat /\ order.price - 1 \in Nat
    BY DEF RestingOrder
<1>2. order.price \div Tick \in Nat /\ (order.price - 1) \div Tick \in Nat
    BY <1>1, UnitAssumption, Division
<1>3. /\ (order.price \div Tick) * Tick \in Nat
      /\ ((order.price - 1) \div Tick + 1) * Tick \in Nat
    BY <1>2, UnitAssumption, Products
<1> QED
    BY <1>3 DEF LevelOf

(* order_book_v2 gives levels with naturals as price and amount, each      *)
(* price once and the best one first, whatever orders rest.                *)
THEOREM BookType ==
    ASSUME NEW orders \in Books, NEW side \in {"buy", "sell"}
    PROVE  /\ order_book(orders, side) \in Seq(Level)
           /\ \A m, n \in DOMAIN order_book(orders, side) : m < n =>
                 LET price(k) == order_book(orders, side)[k].price IN
                 IF side = "buy" THEN price(n) < price(m) ELSE price(m) < price(n)
<1> DEFINE here == {order \in orders : order.side = side}
           prices == {LevelOf(order) : order \in here}
           better(p) == {q \in prices : IF side = "buy" THEN q > p ELSE q < p}
           nth(n) == CHOOSE p \in prices : Cardinality(better(p)) = n - 1
           level(n) == {o \in here : LevelOf(o) = nth(n)}
           amounts(n) == [order \in level(n) |-> order.amount]
           N == 1 .. Cardinality(prices)
           book == [n \in N |-> [price |-> nth(n), amount |-> Sum(amounts(n))]]
<1>1. order_book(orders, side) = book
    BY DEF order_book
<1>2. IsFiniteSet(here) /\ here \subseteq RestingOrder
    BY BooksAssumption, FS_Subset
<1>3. prices \in SUBSET Nat
    BY <1>2, LevelIs
<1>4. IsFiniteSet(prices) /\ Cardinality(prices) \in Nat
  <2> DEFINE f == [order \in here |-> LevelOf(order)]
  <2>1. f \in Surjection(here, prices)
      BY DEF Surjection
  <2> HIDE DEF f, here, prices
  <2> QED
      BY <1>2, <2>1, FS_Surjection, FS_CardinalityType
<1>5. \A n \in N : nth(n) \in prices /\ Cardinality(better(nth(n))) = n - 1
  <2> DEFINE before == [p \in prices |-> better(p)]
  <2>1. /\ before \in [prices -> SUBSET prices]
        /\ \A p \in prices : p \notin before[p]
      BY <1>3
  <2>2. ASSUME NEW p \in prices, NEW q \in prices, p # q
        PROVE  \/ p \in before[q] /\ before[p] \subseteq before[q]
               \/ q \in before[p] /\ before[q] \subseteq before[p]
    <3> HIDE DEF prices
    <3>1. \A x \in prices : x \in Nat
        BY <1>3
    <3>2. CASE p < q
        BY <3>1, <3>2
    <3>3. CASE q < p
        BY <3>1, <3>3
    <3> QED
        BY <2>2, <3>1, <3>2, <3>3
  <2>3. \A p \in prices : before[p] = better(p)
      OBVIOUS
  <2> HIDE DEF before, better, prices
  <2>4. \A n \in N : \E p \in prices : Cardinality(before[p]) = n - 1
      BY <1>4, <2>1, <2>2, NthOf
  <2> QED
      BY <2>3, <2>4
<1>6. ASSUME NEW n \in N PROVE book[n] \in Level /\ book[n].price = nth(n)
  <2>1. PICK o \in here : LevelOf(o) = nth(n)
      BY <1>5
  <2>2. /\ IsFiniteSet(DOMAIN amounts(n)) /\ o \in DOMAIN amounts(n)
        /\ \A x \in DOMAIN amounts(n) : amounts(n)[x] \in Nat \ {0}
      BY <1>2, <2>1, FS_Subset DEF RestingOrder
  <2> DEFINE a == amounts(n)
  <2>3. /\ IsFiniteSet(DOMAIN a) /\ o \in DOMAIN a
        /\ \A x \in DOMAIN a : a[x] \in Nat \ {0}
      BY <2>2
  <2>4. nth(n) \in Nat
      BY <1>3, <1>5
  <2>5. book[n] = [price |-> nth(n), amount |-> Sum(a)]
      OBVIOUS
  <2> HIDE DEF a, nth, book
  <2>6. Sum(a) \in Nat /\ a[o] <= Sum(a) /\ a[o] \in Nat \ {0}
      BY <2>3, SumNat
  <2> QED
      BY <2>4, <2>5, <2>6 DEF Level
<1>7. book \in Seq(Level)
  <2>1. DOMAIN book = 1 .. Cardinality(prices) /\ book \in [N -> Level]
      BY <1>6
  <2> HIDE DEF prices, book
  <2> QED
      BY <1>4, <2>1
<1>8. ASSUME NEW m \in N, NEW n \in N, m < n
      PROVE  IF side = "buy" THEN nth(n) < nth(m) ELSE nth(m) < nth(n)
  <2> DEFINE x == nth(m)
             y == nth(n)
  <2>1. /\ x \in prices /\ y \in prices /\ x \in Nat /\ y \in Nat
        /\ Cardinality(better(x)) = m - 1 /\ Cardinality(better(y)) = n - 1
      BY <1>3, <1>5
  <2> HIDE DEF x, y
  <2>2. \A z \in prices : z \in Nat
      BY <1>3
  <2>3. SUFFICES ASSUME ~ IF side = "buy" THEN y < x ELSE x < y
                 PROVE  FALSE
      BY DEF x, y
  <2> HIDE DEF prices
  <2>4. better(y) \subseteq better(x)
    <3>1. x \in Nat /\ y \in Nat /\ IF side = "buy" THEN x <= y ELSE y <= x
        BY <2>1, <2>3
    <3>2. ASSUME NEW z \in prices, IF side = "buy" THEN z > y ELSE z < y
          PROVE  IF side = "buy" THEN z > x ELSE z < x
      <4>1. z \in Nat
          BY <2>2
      <4> QED
          BY <3>1, <3>2, <4>1
    <3> QED
        BY <3>2
  <2>5. IsFiniteSet(better(x))
      BY <1>4, FS_Subset
  <2> HIDE DEF better
  <2>6. Cardinality(better(y)) <= Cardinality(better(x))
      BY <2>4, <2>5, FS_Subset
  <2>7. n - 1 <= m - 1
      BY <2>1, <2>6
  <2>8. m \in Int /\ n \in Int
      OBVIOUS
  <2> QED
      BY <1>8, <2>7, <2>8
<1>9. \A m, n \in DOMAIN book : m < n =>
         IF side = "buy" THEN book[n].price < book[m].price ELSE book[m].price < book[n].price
    BY <1>6, <1>8
<1> HIDE DEF book
<1> QED
    BY <1>1, <1>7, <1>9

----------------------------------------------------------------------------
(* The totals of a book.                                                   *)

LEMMA LevelFacts ==
    ASSUME NEW book \in Seq(Level)
    PROVE  /\ Len(book) \in Nat /\ DOMAIN book = 1 .. Len(book)
           /\ \A n \in 1 .. Len(book) : book[n].amount \in Nat \ {0} /\ book[n].price \in Nat
<1>1. \A n \in 1 .. Len(book) : book[n] \in Level
    OBVIOUS
<1> QED
    BY <1>1 DEF Level

LEMMA Prefixes ==
    ASSUME NEW L \in Nat, NEW f, \A k \in 1 .. L : f[k] \in Nat
    PROVE  /\ \A n \in 0 .. L : Sum([k \in 1 .. n |-> f[k]]) \in Nat
           /\ Sum([k \in 1 .. 0 |-> f[k]]) = 0
           /\ \A n \in 1 .. L : Sum([k \in 1 .. n |-> f[k]])
                                   = Sum([k \in 1 .. n - 1 |-> f[k]]) + f[n]
<1> DEFINE upto(n) == [k \in 1 .. n |-> f[k]]
<1>1. ASSUME NEW n \in 0 .. L
      PROVE  /\ DOMAIN upto(n) = 1 .. n /\ IsFiniteSet(DOMAIN upto(n))
             /\ \A k \in DOMAIN upto(n) : upto(n)[k] \in Nat
  <2>1. IsFiniteSet(1 .. n)
      BY FS_Interval
  <2>2. \A k \in 1 .. n : k \in 1 .. L
      OBVIOUS
  <2> QED
      BY <2>1, <2>2
<1>2. ASSUME NEW n \in 0 .. L PROVE Integral(upto(n)) /\ Sum(upto(n)) \in Nat
  <2> HIDE DEF upto
  <2> QED
      BY <1>1, SumNat
<1>3. DOMAIN upto(0) = {}
    OBVIOUS
<1>4. Sum(upto(0)) = 0
  <2> HIDE DEF upto
  <2> QED
      BY <1>3, SumEmpty
<1>5. ASSUME NEW n \in 1 .. L PROVE Sum(upto(n)) = Sum(upto(n - 1)) + f[n]
  <2> DEFINE before == upto(n - 1)
             now == upto(n)
  <2>1. n - 1 \in 0 .. L
      OBVIOUS
  <2>2. Integral(before)
      BY <1>2, <2>1
  <2>3. /\ n \notin DOMAIN before /\ DOMAIN now = DOMAIN before \cup {n}
        /\ now[n] = f[n] /\ now[n] \in Int
        /\ \A k \in DOMAIN before : now[k] = before[k]
      OBVIOUS
  <2> HIDE DEF before, now
  <2>4. Sum(now) = Sum(before) + now[n]
      BY <2>2, <2>3, SumAdd
  <2> QED
      BY <2>3, <2>4 DEF before, now
<1> QED
    BY <1>2, <1>4, <1>5

LEMMA Totals ==
    ASSUME NEW book \in Seq(Level)
    PROVE  /\ Amounts(book) \in [0 .. Len(book) -> Nat] /\ Amounts(book)[0] = 0
           /\ \A n \in 1 .. Len(book) :
                 Amounts(book)[n] = Amounts(book)[n - 1] + book[n].amount
           /\ Values(book) \in [0 .. Len(book) -> Nat] /\ Values(book)[0] = 0
           /\ \A n \in 1 .. Len(book) :
                 Values(book)[n] = Values(book)[n - 1] + book[n].amount * book[n].price
<1> DEFINE f == [k \in 1 .. Len(book) |-> book[k].amount]
           g == [k \in 1 .. Len(book) |-> book[k].amount * book[k].price]
<1>1. Len(book) \in Nat
    BY LevelFacts
<1>2. ASSUME NEW n \in 0 .. Len(book)
      PROVE  /\ [k \in 1 .. n |-> book[k].amount] = [k \in 1 .. n |-> f[k]]
             /\ [k \in 1 .. n |-> book[k].amount * book[k].price] = [k \in 1 .. n |-> g[k]]
  <2>1. \A k \in 1 .. n : k \in 1 .. Len(book)
      BY <1>1
  <2> QED
      BY <2>1
<1>3. \A k \in 1 .. Len(book) : /\ f[k] = book[k].amount /\ f[k] \in Nat
                                /\ g[k] = book[k].amount * book[k].price /\ g[k] \in Nat
    BY LevelFacts, Products
<1> HIDE DEF f, g
<1>4. ASSUME NEW n \in 0 .. Len(book)
      PROVE  /\ Amounts(book)[n] = Sum([k \in 1 .. n |-> f[k]])
             /\ Values(book)[n] = Sum([k \in 1 .. n |-> g[k]])
    BY <1>2 DEF Amounts, Values
<1>5. DOMAIN Amounts(book) = 0 .. Len(book) /\ DOMAIN Values(book) = 0 .. Len(book)
    BY DEF Amounts, Values
<1>6. /\ Amounts(book) = [n \in 0 .. Len(book) |-> Sum([k \in 1 .. n |-> f[k]])]
      /\ Values(book) = [n \in 0 .. Len(book) |-> Sum([k \in 1 .. n |-> g[k]])]
    BY <1>2 DEF Amounts, Values
<1>7. /\ \A n \in 0 .. Len(book) : Sum([k \in 1 .. n |-> f[k]]) \in Nat
      /\ Sum([k \in 1 .. 0 |-> f[k]]) = 0
      /\ \A n \in 1 .. Len(book) : Sum([k \in 1 .. n |-> f[k]])
                                      = Sum([k \in 1 .. n - 1 |-> f[k]]) + f[n]
    BY <1>1, <1>3, Prefixes
<1>8. /\ \A n \in 0 .. Len(book) : Sum([k \in 1 .. n |-> g[k]]) \in Nat
      /\ Sum([k \in 1 .. 0 |-> g[k]]) = 0
      /\ \A n \in 1 .. Len(book) : Sum([k \in 1 .. n |-> g[k]])
                                      = Sum([k \in 1 .. n - 1 |-> g[k]]) + g[n]
    BY <1>1, <1>3, Prefixes
<1>9. 0 \in 0 .. Len(book) /\ \A n \in 1 .. Len(book) : n \in 0 .. Len(book)
                                                      /\ n - 1 \in 0 .. Len(book)
    BY <1>1
<1>10. /\ Amounts(book) \in [0 .. Len(book) -> Nat]
       /\ Values(book) \in [0 .. Len(book) -> Nat]
    BY <1>6, <1>7, <1>8
<1> QED
    BY <1>3, <1>4, <1>7, <1>8, <1>9, <1>10

(* A walk breaks at the first level that brings its total to the goal.     *)
LEMMA BreakLevel ==
    ASSUME NEW L \in Nat, NEW totals \in [0 .. L -> Nat], totals[0] = 0, NEW goal \in Nat,
           Breaks(totals, goal) # {}
    PROVE  /\ Min(Breaks(totals, goal)) \in 1 .. L
           /\ totals[Min(Breaks(totals, goal))] >= goal
           /\ goal > 0 => totals[Min(Breaks(totals, goal)) - 1] < goal
<1> DEFINE B == Breaks(totals, goal)
           n == Min(B)
<1>1. B \in SUBSET Nat /\ \A k : k \in B <=> k \in 1 .. L /\ totals[k] >= goal
    BY DEF Breaks
<1> HIDE DEF B
<1>2. n \in B /\ \A k \in B : n <= k
    BY <1>1, MinOf DEF B
<1> HIDE DEF n
<1>3. n \in 1 .. L /\ totals[n] >= goal
    BY <1>1, <1>2
<1>4. ASSUME goal > 0 PROVE totals[n - 1] < goal
  <2>1. CASE n - 1 = 0
      BY <1>4, <2>1
  <2>2. CASE n - 1 # 0
    <3>1. n - 1 \in 1 .. L /\ n - 1 \notin B
        BY <1>2, <1>3, <2>2
    <3>2. ~ (totals[n - 1] >= goal) /\ totals[n - 1] \in Nat
        BY <1>1, <3>1
    <3> QED
        BY <3>2
  <2> QED
      BY <2>1, <2>2
<1> QED
    BY <1>3, <1>4 DEF n, B

(* A sum that follows f up to level k and then stops.                      *)
Stops(L, k, c, f, g) ==
    /\ L \in Nat /\ k \in 1 .. L /\ c \in Nat
    /\ DOMAIN f = 1 .. k - 1 /\ \A n \in DOMAIN f : f[n] \in Nat
    /\ DOMAIN g = 1 .. L /\ \A n \in DOMAIN g : g[n] \in Nat
    /\ \A n \in 1 .. k - 1 : g[n] = c * f[n]
    /\ \A n \in k + 1 .. L : g[n] = 0

LEMMA UpToLevel ==
    ASSUME NEW L, NEW k, NEW c, NEW f, NEW g, Stops(L, k, c, f, g)
    PROVE  Sum(g) = c * Sum(f) + g[k]
<1> DEFINE part == [n \in 1 .. k - 1 |-> g[n]]
           most == [n \in 1 .. k |-> g[n]]
<1>0. /\ L \in Nat /\ k \in 1 .. L /\ c \in Int
      /\ DOMAIN f = 1 .. k - 1 /\ \A n \in DOMAIN f : f[n] \in Nat
      /\ DOMAIN g = 1 .. L /\ \A n \in DOMAIN g : g[n] \in Nat
      /\ \A n \in 1 .. k - 1 : g[n] = c * f[n]
      /\ \A n \in k + 1 .. L : g[n] = 0
    BY DEF Stops
<1>1. Integral(f) /\ Integral(g)
  <2>1. IsFiniteSet(1 .. k - 1) /\ IsFiniteSet(1 .. L)
      BY <1>0, FS_Interval
  <2> QED
      BY <1>0, <2>1 DEF Integral
<1>2. DOMAIN part = DOMAIN f /\ \A n \in DOMAIN f : part[n] = c * f[n]
    BY <1>0
<1>3. Integral(part) /\ Sum(part) = c * Sum(f)
  <2> HIDE DEF part
  <2> QED
      BY <1>0, <1>1, <1>2, SumTimes
<1>4. /\ k \notin DOMAIN part /\ DOMAIN most = DOMAIN part \cup {k}
      /\ most[k] = g[k] /\ most[k] \in Int
      /\ \A n \in DOMAIN part : most[n] = part[n]
  <2>1. g[k] \in Int
      BY <1>0
  <2>2. /\ k \in Nat \ {0} /\ 1 .. k = (1 .. k - 1) \cup {k} /\ k \notin 1 .. k - 1
      BY <1>0
  <2>3. DOMAIN part = 1 .. k - 1 /\ DOMAIN most = 1 .. k
      OBVIOUS
  <2>4. k \in 1 .. k /\ \A n \in 1 .. k - 1 : n \in 1 .. k
      BY <2>2
  <2>5. most[k] = g[k] /\ \A n \in 1 .. k - 1 : most[n] = part[n]
      BY <2>4
  <2> HIDE DEF part, most
  <2> QED
      BY <2>1, <2>2, <2>3, <2>5
<1>5. /\ DOMAIN most \subseteq DOMAIN g /\ \A n \in DOMAIN most : most[n] = g[n]
      /\ \A n \in DOMAIN g \ DOMAIN most : g[n] = 0
    BY <1>0
<1> HIDE DEF part, most
<1>6. Sum(most) = Sum(part) + most[k]
    BY <1>3, <1>4, SumAdd
<1>7. Sum(most) = Sum(g)
    BY <1>1, <1>5, SumWithout
<1> QED
    BY <1>3, <1>4, <1>6, <1>7

----------------------------------------------------------------------------
(* The best that can be had from a book.                                   *)

(* Lots g are worth as much as lots l if they are as many, more at levels  *)
(* dearer than q and fewer at cheaper ones.                                *)
Better(L, p, q, l, g) ==
    /\ p \in [1 .. L -> Nat] /\ l \in [1 .. L -> Nat] /\ g \in [1 .. L -> Nat]
    /\ Sum(l) <= Sum(g)
    /\ \A n \in 1 .. L : \/ l[n] <= g[n] /\ q <= p[n]
                         \/ g[n] <= l[n] /\ p[n] <= q
                         \/ p[n] = q

LEMMA BetterLots ==
    ASSUME NEW L \in Nat, NEW p, NEW q \in Nat, NEW l, NEW g, Better(L, p, q, l, g)
    PROVE  Sum([n \in 1 .. L |-> l[n] * p[n]]) <= Sum([n \in 1 .. L |-> g[n] * p[n]])
<1> DEFINE T == [n \in 1 .. L |-> l[n] * p[n]]
           G == [n \in 1 .. L |-> g[n] * p[n]]
           A == [n \in 1 .. L |-> q * l[n]]
           B == [n \in 1 .. L |-> q * g[n]]
           X == [n \in 1 .. L |-> T[n] + B[n]]
           Y == [n \in 1 .. L |-> G[n] + A[n]]
<1>0. IsFiniteSet(1 .. L)
    BY FS_Interval
<1>n. \A n \in 1 .. L : l[n] \in Nat /\ g[n] \in Nat /\ p[n] \in Nat
    BY DEF Better
<1>1. \A n \in 1 .. L : T[n] \in Nat /\ G[n] \in Nat /\ A[n] \in Nat /\ B[n] \in Nat
    BY <1>n, Products
<1>2. \A n \in 1 .. L : X[n] <= Y[n]
  <2> SUFFICES ASSUME NEW n \in 1 .. L PROVE l[n] * p[n] + q * g[n] <= g[n] * p[n] + q * l[n]
      OBVIOUS
  <2>1. \/ l[n] <= g[n] /\ q <= p[n]
        \/ g[n] <= l[n] /\ p[n] <= q
        \/ p[n] = q
      BY DEF Better
  <2> QED
      BY <1>n, <2>1, Dearer
<1>3. /\ DOMAIN T = 1 .. L /\ DOMAIN G = 1 .. L /\ DOMAIN A = 1 .. L /\ DOMAIN B = 1 .. L
      /\ DOMAIN X = 1 .. L /\ DOMAIN Y = 1 .. L /\ DOMAIN l = 1 .. L /\ DOMAIN g = 1 .. L
    BY DEF Better
<1>4. /\ \A n \in 1 .. L : X[n] = T[n] + B[n] /\ Y[n] = G[n] + A[n]
      /\ \A n \in 1 .. L : A[n] = q * l[n] /\ B[n] = q * g[n]
    OBVIOUS
<1> HIDE DEF T, G, A, B, X, Y
<1>5. /\ Integral(T) /\ Integral(G) /\ Integral(A) /\ Integral(B) /\ Integral(X)
      /\ Integral(Y) /\ Integral(l) /\ Integral(g)
  <2>1. ASSUME NEW n \in 1 .. L
        PROVE  /\ T[n] \in Int /\ G[n] \in Int /\ A[n] \in Int /\ B[n] \in Int
               /\ X[n] \in Int /\ Y[n] \in Int /\ l[n] \in Int /\ g[n] \in Int
    <3>1. T[n] \in Nat /\ G[n] \in Nat /\ A[n] \in Nat /\ B[n] \in Nat
        BY <1>1
    <3>2. X[n] = T[n] + B[n] /\ Y[n] = G[n] + A[n]
        BY <1>4
    <3>3. l[n] \in Nat /\ g[n] \in Nat
        BY <1>n
    <3>4. X[n] \in Int /\ Y[n] \in Int
        BY <3>1, <3>2
    <3>5. T[n] \in Int /\ G[n] \in Int /\ A[n] \in Int /\ B[n] \in Int
        BY <3>1
    <3>6. l[n] \in Int /\ g[n] \in Int
        BY <3>3
    <3> QED
        BY <3>4, <3>5, <3>6
  <2> QED
      BY <1>0, <1>3, <2>1 DEF Integral
<1>6. Sum(X) = Sum(T) + Sum(B) /\ Sum(Y) = Sum(G) + Sum(A)
    BY <1>3, <1>4, <1>5, SumPlus
<1>7. Sum(A) = q * Sum(l) /\ Sum(B) = q * Sum(g)
  <2>1. q \in Int
      OBVIOUS
  <2> QED
      BY <1>3, <1>4, <1>5, <2>1, SumTimes
<1>8. Sum(X) <= Sum(Y)
    BY <1>2, <1>3, <1>5, SumOrdered
<1>9. /\ Sum(T) \in Int /\ Sum(G) \in Int /\ Sum(l) \in Nat /\ Sum(g) \in Nat
  <2>1. Sum(l) \in Nat /\ Sum(g) \in Nat
      BY <1>0, <1>n, <1>3, SumNat
  <2> QED
      BY <1>5, <2>1, SumType
<1>s. Sum(l) <= Sum(g)
    BY DEF Better
<1>10. q * Sum(l) <= q * Sum(g) /\ q * Sum(l) \in Nat /\ q * Sum(g) \in Nat
    BY <1>9, <1>s, Products
<1>11. Sum(T) <= Sum(G)
    BY <1>6, <1>7, <1>8, <1>9, <1>10
<1> QED
    BY <1>11 DEF T, G

(* The lots of a book are no more, level by level, than what it has.       *)
LEMMA LotsFacts ==
    ASSUME NEW book \in Seq(Level)
    PROVE  \A lots : lots \in Lots(book) <=>
              /\ lots \in [1 .. Len(book) -> Nat]
              /\ \A n \in 1 .. Len(book) : lots[n] <= Unit * book[n].amount
<1> DEFINE f == [n \in 1 .. Len(book) |-> book[n].amount]
           top == Amounts(book)[Len(book)]
<1>1. Len(book) \in Nat /\ DOMAIN book = 1 .. Len(book)
    BY LevelFacts
<1>2. top = Sum(f)
    BY <1>1 DEF Amounts
<1>3. \A n \in 1 .. Len(book) : book[n].amount <= top /\ book[n].amount \in Nat
  <2>1. DOMAIN f = 1 .. Len(book) /\ \A n \in DOMAIN f : f[n] = book[n].amount /\ f[n] \in Nat
      BY LevelFacts
  <2>2. IsFiniteSet(1 .. Len(book))
      BY <1>1, FS_Interval
  <2> HIDE DEF f, top
  <2> QED
      BY <1>2, <2>1, <2>2, SumNat
<1>4. top \in Nat
    BY <1>1, Totals
<1> HIDE DEF f, top
<1>5. \A n \in 1 .. Len(book) : /\ Unit * book[n].amount <= Unit * top
                                /\ Unit * book[n].amount \in Nat /\ Unit * top \in Nat
    BY <1>3, <1>4, UnitAssumption, Products
<1> SUFFICES ASSUME NEW lots
             PROVE  lots \in Lots(book) <=>
                       /\ lots \in [1 .. Len(book) -> Nat]
                       /\ \A n \in 1 .. Len(book) : lots[n] <= Unit * book[n].amount
    OBVIOUS
<1>6. Lots(book) = {x \in [1 .. Len(book) -> 0 .. Unit * top] :
                       \A n \in 1 .. Len(book) : x[n] <= Unit * book[n].amount}
    BY <1>1 DEF Lots, top
<1>7. ASSUME lots \in Lots(book)
      PROVE  /\ lots \in [1 .. Len(book) -> Nat]
             /\ \A n \in 1 .. Len(book) : lots[n] <= Unit * book[n].amount
    BY <1>6, <1>7
<1>8. ASSUME lots \in [1 .. Len(book) -> Nat],
             \A n \in 1 .. Len(book) : lots[n] <= Unit * book[n].amount
      PROVE  lots \in Lots(book)
  <2>1. \A n \in 1 .. Len(book) : lots[n] \in 0 .. Unit * top
      BY <1>5, <1>8
  <2>2. lots \in [1 .. Len(book) -> 0 .. Unit * top]
      BY <1>8, <2>1
  <2> QED
      BY <1>6, <1>8, <2>2
<1> QED
    BY <1>7, <1>8

(* The lots that a walk of amount over the bids sells.                     *)
Walk(bids, amount) ==
    LET sold == Amounts(bids)
        last == IF Breaks(sold, amount) # {} THEN Min(Breaks(sold, amount))
                ELSE Len(bids) + 1 IN
    [n \in 1 .. Len(bids) |->
        CASE n < last -> Unit * bids[n].amount
          [] n = last -> Unit * (amount - sold[n - 1])
          [] OTHER -> 0]

BestFirst(bids) == \A m, n \in DOMAIN bids : m < n => bids[n].price < bids[m].price

LEMMA WalkFacts ==
    ASSUME NEW bids \in Seq(Level), NEW amount \in Nat \ {0}
    PROVE  /\ BaseValue(bids, amount) \in Nat
           /\ Walk(bids, amount) \in Lots(bids)
           /\ Quantity(Walk(bids, amount)) <= Unit * amount
           /\ Turnover(bids, Walk(bids, amount)) = Unit * BaseValue(bids, amount)
           /\ BestFirst(bids) =>
                 \A lots \in Lots(bids) :
                    Quantity(lots) <= Unit * amount
                       => Turnover(bids, lots) <= Turnover(bids, Walk(bids, amount))
<1> DEFINE L == Len(bids)
           sold == Amounts(bids)
           paid == Values(bids)
           g == Walk(bids, amount)
           p == [n \in 1 .. L |-> bids[n].price]
           G == [n \in 1 .. L |-> g[n] * p[n]]
<1>1. /\ L \in Nat /\ DOMAIN bids = 1 .. L
      /\ \A n \in 1 .. L : bids[n].amount \in Nat \ {0} /\ bids[n].price \in Nat
    BY LevelFacts
<1>2. /\ sold \in [0 .. L -> Nat] /\ sold[0] = 0
      /\ \A n \in 1 .. L : sold[n] = sold[n - 1] + bids[n].amount
      /\ paid \in [0 .. L -> Nat] /\ paid[0] = 0
    BY Totals
<1>u. Unit \in Nat \ {0}
    BY UnitAssumption
<1>p. p \in [1 .. L -> Nat] /\ \A n \in 1 .. L : p[n] = bids[n].price
    BY <1>1
<1>t. \A lots \in Lots(bids) :
         /\ lots \in [1 .. L -> Nat] /\ \A n \in 1 .. L : lots[n] <= Unit * bids[n].amount
         /\ Turnover(bids, lots) = Sum([n \in 1 .. L |-> lots[n] * p[n]])
  <2> SUFFICES ASSUME NEW lots \in Lots(bids)
               PROVE  /\ lots \in [1 .. L -> Nat]
                      /\ \A n \in 1 .. L : lots[n] <= Unit * bids[n].amount
                      /\ Turnover(bids, lots) = Sum([n \in 1 .. L |-> lots[n] * p[n]])
      OBVIOUS
  <2>1. /\ lots \in [1 .. L -> Nat] /\ \A n \in 1 .. L : lots[n] <= Unit * bids[n].amount
      BY LotsFacts
  <2>2. [n \in DOMAIN lots |-> lots[n] * bids[n].price] = [n \in 1 .. L |-> lots[n] * p[n]]
      BY <2>1, <1>p
  <2> QED
      BY <2>1, <2>2 DEF Turnover
<1>f. /\ sold[L] = Sum([k \in 1 .. L |-> bids[k].amount])
      /\ paid[L] = Sum([k \in 1 .. L |-> bids[k].amount * bids[k].price])
    BY <1>1 DEF Amounts, Values
<1>3. CASE Breaks(sold, amount) # {}
  <2> DEFINE k == Min(Breaks(sold, amount))
             rest == amount - sold[k - 1]
  <2>1. k \in 1 .. L /\ sold[k] >= amount /\ sold[k - 1] < amount
    <3>1. amount \in Nat /\ amount > 0
        OBVIOUS
    <3> HIDE DEF sold, L
    <3> QED
        BY <1>1, <1>2, <1>3, <3>1, BreakLevel
  <2>2. /\ g = [n \in 1 .. L |-> CASE n < k -> Unit * bids[n].amount
                                   [] n = k -> Unit * (amount - sold[n - 1])
                                   [] OTHER -> 0]
        /\ BaseValue(bids, amount) = paid[k - 1] + rest * bids[k].price
      BY <1>3 DEF Walk, BaseValue
  <2> HIDE DEF k
  <2>3. rest \in Nat /\ rest <= bids[k].amount /\ rest + sold[k - 1] = amount
        /\ sold[k - 1] \in Nat /\ paid[k - 1] \in Nat
    <3>1. k - 1 \in 0 .. L
        BY <1>1, <2>1
    <3>2. sold[k - 1] \in Nat /\ paid[k - 1] \in Nat
        BY <1>2, <3>1
    <3>3. sold[k] = sold[k - 1] + bids[k].amount /\ bids[k].amount \in Nat
        BY <1>1, <1>2, <2>1
    <3> HIDE DEF sold, paid
    <3> QED
        BY <2>1, <3>2, <3>3
  <2>4. /\ sold[k - 1] = Sum([n \in 1 .. k - 1 |-> bids[n].amount])
        /\ paid[k - 1] = Sum([n \in 1 .. k - 1 |-> bids[n].amount * bids[n].price])
    <3>1. k - 1 \in 0 .. L
        BY <1>1, <2>1
    <3> QED
        BY <3>1 DEF Amounts, Values
  <2>5. /\ DOMAIN g = 1 .. L
        /\ \A n \in 1 .. k - 1 : g[n] = Unit * bids[n].amount
        /\ g[k] = Unit * rest
        /\ \A n \in k + 1 .. L : g[n] = 0
    <3>1. k \in 1 .. L
        BY <2>1
    <3> HIDE DEF g, sold
    <3> QED
        BY <2>2, <3>1
  <2> HIDE DEF g, sold, paid, rest
  <2>6. ASSUME NEW n \in 1 .. L
        PROVE  /\ n \in 1 .. k - 1 \/ n = k \/ n \in k + 1 .. L
               /\ g[n] \in Nat /\ g[n] <= Unit * bids[n].amount
    <3>0. n \in 1 .. k - 1 \/ n = k \/ n \in k + 1 .. L
        BY <1>1, <2>1
    <3>1. Unit * bids[n].amount \in Nat
        BY <1>1, <1>u, Products
    <3>2. CASE n \in 1 .. k - 1
        BY <2>5, <3>1, <3>2
    <3>3. CASE n = k
      <4>1. Unit * rest \in Nat /\ Unit * rest <= Unit * bids[k].amount
          BY <1>1, <1>u, <2>1, <2>3, Products
      <4> QED
          BY <2>5, <3>3, <4>1
    <3>4. CASE n \in k + 1 .. L
        BY <2>5, <3>1, <3>4
    <3> QED
        BY <3>0, <3>2, <3>3, <3>4
  <2>7. g \in [1 .. L -> Nat] /\ g \in Lots(bids)
    <3>1. g \in [1 .. L -> Nat]
        BY <2>5, <2>6 DEF g, Walk
    <3> QED
        BY <2>6, <3>1, LotsFacts
  <2>8. Sum(g) = Unit * amount
    <3> DEFINE f == [n \in 1 .. k - 1 |-> bids[n].amount]
    <3>1. DOMAIN f = 1 .. k - 1 /\ \A n \in 1 .. k - 1 : f[n] = bids[n].amount
        OBVIOUS
    <3>2. \A n \in 1 .. k - 1 : n \in 1 .. L
        BY <1>1, <2>1
    <3>3. \A n \in 1 .. k - 1 : f[n] \in Nat
        BY <1>1, <3>1, <3>2
    <3>4. sold[k - 1] = Sum(f)
        BY <2>4
    <3> HIDE DEF f, L
    <3>5. Sum(g) = Unit * Sum(f) + g[k]
      <4>1. L \in Nat /\ k \in 1 .. L /\ Unit \in Nat
          BY <1>1, <1>u, <2>1
      <4>2. /\ DOMAIN f = 1 .. k - 1 /\ \A n \in DOMAIN f : f[n] \in Nat
            /\ DOMAIN g = 1 .. L /\ \A n \in DOMAIN g : g[n] \in Nat
            /\ \A n \in 1 .. k - 1 : g[n] = Unit * f[n]
            /\ \A n \in k + 1 .. L : g[n] = 0
          BY <2>5, <2>6, <3>1, <3>3
      <4>3. Stops(L, k, Unit, f, g)
          BY <4>1, <4>2 DEF Stops
      <4> QED
          BY <4>3, UpToLevel
    <3>6. Unit * (sold[k - 1] + rest) = Unit * sold[k - 1] + Unit * rest
      <4>1. \A a, b \in Nat : Unit * (a + b) = Unit * a + Unit * b
          BY <1>u, Products
      <4> QED
          BY <2>3, <4>1
    <3> QED
        BY <2>3, <2>5, <3>4, <3>5, <3>6
  <2>9. Sum(G) = Unit * (paid[k - 1] + rest * bids[k].price)
        /\ paid[k - 1] + rest * bids[k].price \in Nat
    <3> DEFINE f == [n \in 1 .. k - 1 |-> bids[n].amount * bids[n].price]
    <3>1. DOMAIN f = 1 .. k - 1 /\ \A n \in 1 .. k - 1 : f[n] = bids[n].amount * bids[n].price
        OBVIOUS
    <3>2. \A n \in 1 .. k - 1 : n \in 1 .. L
        BY <1>1, <2>1
    <3>3. \A n \in 1 .. k - 1 : f[n] \in Nat
        BY <1>1, <3>1, <3>2, Products
    <3>4. paid[k - 1] = Sum(f)
        BY <2>4
    <3>5. DOMAIN G = 1 .. L /\ \A n \in 1 .. L : G[n] = g[n] * bids[n].price
        BY <1>p
    <3>6. \A n \in 1 .. L : G[n] \in Nat
        BY <1>1, <2>6, <3>5, Products
    <3>7. \A n \in 1 .. k - 1 : G[n] = Unit * f[n]
      <4> SUFFICES ASSUME NEW n \in 1 .. k - 1 PROVE G[n] = Unit * f[n]
          OBVIOUS
      <4>1. n \in 1 .. L /\ bids[n].amount \in Nat /\ bids[n].price \in Nat
          BY <1>1, <3>2
      <4>2. (Unit * bids[n].amount) * bids[n].price = Unit * (bids[n].amount * bids[n].price)
          BY <1>u, <4>1, Products
      <4> QED
          BY <2>5, <3>1, <3>5, <4>1, <4>2
    <3>8. \A n \in k + 1 .. L : G[n] = 0
      <4>1. \A n \in k + 1 .. L : n \in 1 .. L
          BY <1>1, <2>1
      <4> QED
          BY <1>1, <2>5, <3>5, <4>1
    <3> HIDE DEF f, G, L
    <3>9. Sum(G) = Unit * Sum(f) + G[k]
      <4>1. L \in Nat /\ k \in 1 .. L /\ Unit \in Nat
          BY <1>1, <1>u, <2>1
      <4>2. /\ DOMAIN f = 1 .. k - 1 /\ \A n \in DOMAIN f : f[n] \in Nat
            /\ DOMAIN G = 1 .. L /\ \A n \in DOMAIN G : G[n] \in Nat
            /\ \A n \in 1 .. k - 1 : G[n] = Unit * f[n]
            /\ \A n \in k + 1 .. L : G[n] = 0
          BY <3>1, <3>3, <3>5, <3>6, <3>7, <3>8
      <4>3. Stops(L, k, Unit, f, G)
          BY <4>1, <4>2 DEF Stops
      <4> QED
          BY <4>3, UpToLevel
    <3>10. /\ G[k] = (Unit * rest) * bids[k].price /\ bids[k].price \in Nat
           /\ (Unit * rest) * bids[k].price = Unit * (rest * bids[k].price)
           /\ rest * bids[k].price \in Nat
        BY <1>1, <1>u, <2>1, <2>3, <2>5, <3>5, Products
    <3>11. Unit * (paid[k - 1] + rest * bids[k].price)
              = Unit * paid[k - 1] + Unit * (rest * bids[k].price)
        BY <1>u, <2>3, <3>10, Products
    <3> QED
        BY <2>3, <3>4, <3>9, <3>10, <3>11
  <2>10. Quantity(g) <= Unit * amount
    <3>1. Unit * amount \in Nat
        BY <1>u, Products
    <3> QED
        BY <2>8, <3>1 DEF Quantity
  <2>11. ASSUME BestFirst(bids), NEW lots \in Lots(bids), Quantity(lots) <= Unit * amount
         PROVE  Turnover(bids, lots) <= Turnover(bids, g)
    <3>1. /\ lots \in [1 .. L -> Nat]
          /\ \A n \in 1 .. L : lots[n] <= Unit * bids[n].amount
        BY <1>t
    <3>2. Sum(lots) <= Sum(g)
        BY <2>8, <2>11 DEF Quantity
    <3>3. p[k] \in Nat
        BY <1>p, <2>1
    <3>4. ASSUME NEW n \in 1 .. L
          PROVE  \/ lots[n] <= g[n] /\ p[k] <= p[n]
                 \/ g[n] <= lots[n] /\ p[n] <= p[k]
                 \/ p[n] = p[k]
      <4>0. p[n] \in Nat /\ p[n] = bids[n].price /\ p[k] = bids[k].price /\ lots[n] \in Nat
          BY <1>p, <2>1, <3>1
      <4>1. CASE n \in 1 .. k - 1
        <5>1. bids[k].price < bids[n].price
            BY <1>1, <2>1, <2>11, <4>1 DEF BestFirst
        <5>2. lots[n] <= g[n]
            BY <2>5, <3>1, <4>1
        <5> QED
            BY <3>3, <4>0, <5>1, <5>2
      <4>2. CASE n = k
          BY <4>2
      <4>3. CASE n \in k + 1 .. L
        <5>1. bids[n].price < bids[k].price
            BY <1>1, <2>1, <2>11, <4>3 DEF BestFirst
        <5>2. g[n] <= lots[n]
            BY <2>5, <4>0, <4>3
        <5> QED
            BY <3>3, <4>0, <5>1, <5>2
      <4> QED
          BY <2>6, <4>1, <4>2, <4>3
    <3>5. L \in Nat /\ p \in [1 .. L -> Nat] /\ g \in [1 .. L -> Nat]
        BY <1>1, <1>p, <2>7
    <3>6. lots \in [1 .. L -> Nat]
        BY <3>1
    <3> DEFINE q == p[k]
    <3>7. q \in Nat /\ \A n \in 1 .. L : \/ lots[n] <= g[n] /\ q <= p[n]
                                         \/ g[n] <= lots[n] /\ p[n] <= q
                                         \/ p[n] = q
        BY <3>3, <3>4
    <3> HIDE DEF p, L, q
    <3>8. Better(L, p, q, lots, g)
        BY <3>2, <3>5, <3>6, <3>7 DEF Better
    <3>9. L \in Nat /\ q \in Nat
        BY <3>5, <3>7
    <3>10. Sum([n \in 1 .. L |-> lots[n] * p[n]]) <= Sum([n \in 1 .. L |-> g[n] * p[n]])
        BY <3>8, <3>9, BetterLots
    <3> QED
        BY <1>t, <2>7, <3>10
  <2>12. Turnover(bids, g) = Sum(G)
      BY <1>t, <2>7
  <2> QED
      BY <2>2, <2>7, <2>9, <2>10, <2>11, <2>12 DEF g
<1>4. CASE Breaks(sold, amount) = {}
  <2>1. /\ g = [n \in 1 .. L |-> CASE n < L + 1 -> Unit * bids[n].amount
                                   [] n = L + 1 -> Unit * (amount - sold[n - 1])
                                   [] OTHER -> 0]
        /\ BaseValue(bids, amount) = paid[L]
      BY <1>4 DEF Walk, BaseValue
  <2>2. DOMAIN g = 1 .. L /\ \A n \in 1 .. L : g[n] = Unit * bids[n].amount
    <3> HIDE DEF g, sold
    <3> QED
        BY <1>1, <2>1
  <2>3. sold[L] <= amount
    <3>1. CASE L = 0
        BY <1>2, <3>1
    <3>2. CASE L # 0
      <4>1. L \in DOMAIN sold \ {0}
          BY <1>1, <1>2, <3>2
      <4>2. sold[L] \in Nat
          BY <1>1, <1>2
      <4> QED
          BY <1>4, <4>1, <4>2 DEF Breaks
    <3> QED
        BY <3>1, <3>2
  <2>n. sold[L] \in Nat /\ paid[L] \in Nat
      BY <1>1, <1>2
  <2> HIDE DEF g, sold, paid
  <2>4. \A n \in 1 .. L : g[n] \in Nat /\ g[n] <= Unit * bids[n].amount
      BY <1>1, <1>u, <2>2, Products
  <2>5. g \in [1 .. L -> Nat] /\ g \in Lots(bids)
    <3>1. g \in [1 .. L -> Nat]
        BY <2>2, <2>4 DEF g, Walk
    <3> QED
        BY <2>4, <3>1, LotsFacts
  <2>i. IsFiniteSet(1 .. L)
      BY <1>1, FS_Interval
  <2>6. Sum(g) = Unit * sold[L]
    <3> DEFINE f == [n \in 1 .. L |-> bids[n].amount]
    <3>1. /\ DOMAIN f = 1 .. L /\ DOMAIN g = DOMAIN f
          /\ \A n \in DOMAIN f : f[n] \in Int /\ g[n] = Unit * f[n]
        BY <1>1, <2>2
    <3>2. sold[L] = Sum(f) /\ Unit \in Int
        BY <1>f, <1>u
    <3> HIDE DEF f
    <3>3. Integral(f)
        BY <2>i, <3>1 DEF Integral
    <3> QED
        BY <3>1, <3>2, <3>3, SumTimes
  <2>7. Sum(G) = Unit * paid[L]
    <3> DEFINE f == [n \in 1 .. L |-> bids[n].amount * bids[n].price]
    <3>1. ASSUME NEW n \in 1 .. L PROVE f[n] \in Int /\ G[n] = Unit * f[n]
      <4>1. /\ bids[n].amount * bids[n].price \in Nat
            /\ (Unit * bids[n].amount) * bids[n].price = Unit * (bids[n].amount * bids[n].price)
          BY <1>1, <1>u, Products
      <4> QED
          BY <1>p, <2>2, <4>1
    <3>2. DOMAIN f = 1 .. L /\ DOMAIN G = DOMAIN f
        OBVIOUS
    <3>3. paid[L] = Sum(f) /\ Unit \in Int
        BY <1>f, <1>u
    <3> HIDE DEF f, G
    <3>4. Integral(f)
        BY <2>i, <3>1, <3>2 DEF Integral
    <3> QED
        BY <3>1, <3>2, <3>3, <3>4, SumTimes
  <2>8. Quantity(g) <= Unit * amount
    <3>1. Unit * sold[L] <= Unit * amount
        BY <1>u, <2>3, <2>n, Products
    <3> QED
        BY <2>6, <3>1 DEF Quantity
  <2>9. Turnover(bids, g) = Sum(G)
      BY <1>t, <2>5
  <2>10. ASSUME NEW lots \in Lots(bids) PROVE Turnover(bids, lots) <= Turnover(bids, g)
    <3> DEFINE T == [n \in 1 .. L |-> lots[n] * p[n]]
    <3>1. ASSUME NEW n \in 1 .. L
          PROVE  T[n] \in Int /\ G[n] \in Int /\ T[n] <= G[n]
      <4>1. lots[n] \in Nat /\ lots[n] <= g[n] /\ g[n] \in Nat /\ p[n] \in Nat
          BY <1>t, <1>p, <2>2, <2>4
      <4>2. lots[n] * p[n] <= g[n] * p[n] /\ lots[n] * p[n] \in Nat /\ g[n] * p[n] \in Nat
          BY <4>1, Products
      <4> QED
          BY <4>2
    <3>2. DOMAIN T = 1 .. L /\ DOMAIN G = DOMAIN T
        OBVIOUS
    <3>3. Turnover(bids, lots) = Sum(T)
        BY <1>t
    <3> HIDE DEF T, G
    <3>4. Integral(T) /\ Integral(G)
        BY <2>i, <3>1, <3>2 DEF Integral
    <3>5. Sum(T) <= Sum(G)
        BY <3>1, <3>2, <3>4, SumOrdered
    <3> QED
        BY <2>9, <3>3, <3>5
  <2> QED
      BY <2>1, <2>n, <2>5, <2>7, <2>8, <2>9, <2>10 DEF g
<1> QED
    BY <1>3, <1>4

(* What lots bring, and how many they are.                                 *)
LEMMA LotsType ==
    ASSUME NEW book \in Seq(Level), NEW lots \in Lots(book)
    PROVE  /\ Turnover(book, lots) \in Nat /\ Quantity(lots) \in Nat
           /\ Quantity(lots) <= Unit * Amounts(book)[Len(book)]
           /\ Unit * Amounts(book)[Len(book)] \in Nat
<1> DEFINE L == Len(book)
           f == [k \in 1 .. L |-> book[k].amount]
           g == [k \in 1 .. L |-> Unit * f[k]]
           T == [n \in DOMAIN lots |-> lots[n] * book[n].price]
<1>0. /\ L \in Nat
      /\ \A n \in 1 .. L : book[n].amount \in Nat /\ book[n].price \in Nat
    BY LevelFacts
<1>1. /\ L \in Nat /\ IsFiniteSet(1 .. L)
      /\ \A n \in 1 .. L : book[n].amount \in Nat /\ book[n].price \in Nat
    BY <1>0, FS_Interval
<1>2. DOMAIN lots = 1 .. L /\ \A n \in 1 .. L : lots[n] \in Nat /\ lots[n] <= Unit * book[n].amount
    BY LotsFacts
<1>3. Turnover(book, lots) = Sum(T)
    BY DEF Turnover
<1>4. DOMAIN T = 1 .. L /\ \A n \in 1 .. L : T[n] \in Nat
    BY <1>1, <1>2, Products
<1>5. Amounts(book)[L] = Sum(f) /\ Amounts(book)[L] \in Nat
  <2>1. Amounts(book)[L] = Sum(f)
      BY <1>1 DEF Amounts
  <2>2. Amounts(book)[L] \in Nat
      BY <1>1, Totals
  <2> QED
      BY <2>1, <2>2
<1>6. /\ DOMAIN f = 1 .. L /\ \A n \in 1 .. L : f[n] \in Nat /\ f[n] = book[n].amount
      /\ DOMAIN g = 1 .. L /\ \A n \in 1 .. L : g[n] = Unit * f[n]
    BY <1>1
<1>u. Unit \in Nat /\ Unit \in Int
    BY UnitAssumption
<1> HIDE DEF L, f, g, T
<1>7. Sum(T) \in Nat
    BY <1>1, <1>4, SumNat
<1>8. Integral(lots) /\ Sum(lots) \in Nat /\ Integral(f)
    BY <1>1, <1>2, <1>6, SumNat
<1>9. Integral(g) /\ Sum(g) = Unit * Sum(f)
    BY <1>6, <1>8, <1>u, SumTimes
<1>10. Sum(lots) <= Sum(g)
    BY <1>2, <1>6, <1>8, <1>9, SumOrdered
<1>11. Unit * Amounts(book)[L] \in Nat
    BY <1>5, <1>u, Products
<1> QED
    BY <1>3, <1>5, <1>7, <1>8, <1>9, <1>10, <1>11 DEF Quantity, L

(* get_price walks the bids from the best one down; of all ways to divide  *)
(* an amount of the base into lots of the book's levels, what it finds is  *)
(* the one that brings most.                                               *)
THEOREM SoldAtBest ==
    ASSUME NEW bids \in Seq(Level), BestFirst(bids), NEW amount \in Nat \ {0}
    PROVE  /\ BaseValue(bids, amount) \in Nat
           /\ SoldFor(bids, Unit * amount) = Unit * BaseValue(bids, amount)
           /\ SoldFor(bids, Unit * amount) \in Nat
<1> DEFINE S == {Turnover(bids, lots) :
                    lots \in {l \in Lots(bids) : Quantity(l) <= Unit * amount}}
           best == Turnover(bids, Walk(bids, amount))
<1>1. SoldFor(bids, Unit * amount) = Max(S)
    BY DEF SoldFor
<1>2. /\ BaseValue(bids, amount) \in Nat /\ Walk(bids, amount) \in Lots(bids)
      /\ Quantity(Walk(bids, amount)) <= Unit * amount
      /\ best = Unit * BaseValue(bids, amount)
      /\ \A lots \in Lots(bids) : Quantity(lots) <= Unit * amount
                                     => Turnover(bids, lots) <= best
    BY WalkFacts
<1>3. S \in SUBSET Int
  <2>1. \A lots \in Lots(bids) : Turnover(bids, lots) \in Int
      BY LotsType
  <2> QED
      BY <2>1
<1>4. best \in S /\ \A y \in S : y <= best
    BY <1>2
<1>5. Unit * BaseValue(bids, amount) \in Nat
    BY <1>2, UnitAssumption, Products
<1> HIDE DEF S, best
<1>6. Max(S) = best
    BY <1>3, <1>4, MaxIs
<1> QED
    BY <1>1, <1>2, <1>5, <1>6

LEMMA BoughtType ==
    ASSUME NEW asks \in Seq(Level), NEW turnover \in Nat
    PROVE  BoughtFor(asks, turnover) \in Nat
<1> DEFINE S == {Quantity(lots) :
                    lots \in {l \in Lots(asks) : Turnover(asks, l) <= turnover}}
           most == Unit * Amounts(asks)[Len(asks)]
           none == [n \in 1 .. Len(asks) |-> 0]
<1>1. BoughtFor(asks, turnover) = Max(S)
    BY DEF BoughtFor
<1>0. /\ Len(asks) \in Nat
      /\ \A n \in 1 .. Len(asks) : asks[n].amount \in Nat /\ asks[n].price \in Nat
    BY LevelFacts
<1>2. /\ Len(asks) \in Nat /\ IsFiniteSet(1 .. Len(asks))
      /\ \A n \in 1 .. Len(asks) : asks[n].amount \in Nat /\ asks[n].price \in Nat
    BY <1>0, FS_Interval
<1>3. none \in Lots(asks)
  <2>1. \A n \in 1 .. Len(asks) : 0 <= Unit * asks[n].amount
      BY <1>2, UnitAssumption, Products
  <2> QED
      BY <2>1, LotsFacts
<1>4. Turnover(asks, none) = 0
  <2> DEFINE T == [n \in DOMAIN none |-> none[n] * asks[n].price]
  <2>1. DOMAIN T = 1 .. Len(asks) /\ \A n \in 1 .. Len(asks) : T[n] = 0
      BY <1>2
  <2>2. Turnover(asks, none) = Sum(T)
      BY DEF Turnover
  <2> HIDE DEF T
  <2> QED
      BY <1>2, <2>1, <2>2, SumZero
<1>5. Quantity(none) \in S
    BY <1>3, <1>4
<1>6. \A lots \in Lots(asks) : Quantity(lots) \in Nat /\ Quantity(lots) <= most
    BY LotsType
<1>7. S \in SUBSET Nat /\ \A y \in S : y <= most
    BY <1>6
<1>8. most \in Nat
    BY <1>3, LotsType
<1> HIDE DEF S, most, none
<1>9. IsFiniteSet(S) /\ S \in SUBSET Int
    BY <1>7, <1>8, FS_BoundedSetOfNaturals
<1>10. Max(S) \in S
    BY <1>5, <1>9, MaxOf
<1> QED
    BY <1>1, <1>7, <1>10

(* A quotient is rounded to the nearest unit.                              *)
LEMMA RoundedFacts ==
    ASSUME NEW a \in Nat, NEW b \in Nat \ {0}
    PROVE  /\ Rounded(a, b) \in Nat
           /\ 2 * (b * Rounded(a, b)) <= 2 * (Unit * a) + b
           /\ 2 * (Unit * a) <= 2 * (b * Rounded(a, b)) + b
<1> DEFINE x == Unit * a
           q == Rounded(a, b)
<1>1. x \in Nat /\ (2 * a) * Unit = 2 * x
  <2>1. x \in Nat
      BY UnitAssumption, Products
  <2> QED
      BY <2>1, UnitAssumption
<1>2. q = (2 * x + b) \div (2 * b)
    BY <1>1 DEF Rounded
<1> HIDE DEF x, q
<1>3. 2 * x + b \in Nat /\ 2 * b \in Nat \ {0}
    BY <1>1
<1>4. q \in Nat /\ (2 * b) * q <= 2 * x + b /\ 2 * x + b < (2 * b) * q + 2 * b
    BY <1>2, <1>3, Division
<1>5. (2 * b) * q = 2 * (b * q) /\ b * q \in Nat
    BY <1>4, Products
<1>6. 2 * (b * q) <= 2 * x + b /\ 2 * x <= 2 * (b * q) + b
    BY <1>1, <1>4, <1>5
<1> QED
    BY <1>4, <1>6 DEF x, q

LEMMA QuoteType ==
    ASSUME NEW asks \in Seq(Level), NEW value \in Nat, NEW amount \in Nat \ {0}
    PROVE  QuotePrice(asks, value, amount).value \in Nat
<1> DEFINE L == Len(asks)
           spent == Values(asks)
           got == Amounts(asks)
           n == Min(Breaks(spent, value))
           divisor == spent[n - 1] * asks[n].price
<1>1. /\ L \in Nat /\ spent \in [0 .. L -> Nat] /\ spent[0] = 0 /\ got \in [0 .. L -> Nat]
      /\ \A k \in 1 .. L : asks[k].price \in Nat
    BY LevelFacts, Totals
<1>2. CASE Breaks(spent, value) # {}
  <2>1. n \in 1 .. L
    <3> HIDE DEF L, spent
    <3> QED
        BY <1>1, <1>2, BreakLevel
  <2>2. QuotePrice(asks, value, amount)
           = IF divisor > 0
             THEN Number(Rounded(got[n - 1] * divisor + value, divisor * amount))
             ELSE [is |-> IF value > 0 THEN "infinite" ELSE "nan", value |-> 0]
      BY <1>2 DEF QuotePrice
  <2> HIDE DEF n
  <2>3. n - 1 \in 0 .. L
      BY <1>1, <2>1
  <2>4. spent[n - 1] \in Nat /\ got[n - 1] \in Nat /\ asks[n].price \in Nat
      BY <1>1, <2>1, <2>3
  <2> HIDE DEF spent, got, L
  <2>5. divisor \in Nat
      BY <2>4, Products
  <2> HIDE DEF divisor
  <2>6. CASE divisor > 0
    <3>1. got[n - 1] * divisor \in Nat /\ divisor * amount \in Nat
        BY <2>4, <2>5, Products
    <3>2. got[n - 1] * divisor + value \in Nat /\ divisor * amount # 0
        BY <2>5, <2>6, <3>1
    <3>3. Rounded(got[n - 1] * divisor + value, divisor * amount) \in Nat
        BY <3>1, <3>2, RoundedFacts
    <3> QED
        BY <2>2, <2>6, <3>3 DEF Number
  <2>7. CASE ~ (divisor > 0)
      BY <2>2, <2>7
  <2> QED
      BY <2>6, <2>7
<1>3. CASE Breaks(spent, value) = {}
  <2>1. QuotePrice(asks, value, amount) = Number(Rounded(got[L], amount))
      BY <1>3 DEF QuotePrice
  <2>2. Rounded(got[L], amount) \in Nat
    <3>1. got[L] \in Nat
        BY <1>1
    <3> QED
        BY <3>1, RoundedFacts
  <2> QED
      BY <2>1, <2>2 DEF Number
<1> QED
    BY <1>2, <1>3

----------------------------------------------------------------------------
(* The rows, with the prices that the books can give.                      *)

BookSet == {order_book_v2(orders) : orders \in Books}

Prices ==
    {GetPrice(pair[1], pair[2], amount, books[1], books[2]) :
        pair \in Pairs, amount \in BaseAmounts, books \in BookSet}

Worths ==
    {0} \cup {Worth(pair[1], pair[2], amount, books[1], books[2]) :
                 pair \in Pairs, amount \in BaseAmounts, books \in BookSet}

Refunds == {[side |-> 1, amount |-> 1000 * Unit * amount, fee |-> 0] : amount \in BaseAmounts}

Exchanges ==
    {[side |-> 2, amount |-> 995 * amount * price.value, fee |-> 5 * amount * price.value] :
        amount \in BaseAmounts, price \in Prices}

OfferSet == {NotANumber, NoOffer} \cup Refunds \cup Exchanges

RowSet ==
    [kind : Kind, pair : Pairs, amount : BaseAmounts, worth : Worths, offer : OfferSet,
     base : {"pending", "successful", "illegaled"}, quote : {"pending", "successful"}]

LEMMA IdFacts == 0 \notin Id /\ Id \subseteq Nat
  BY BoundAssumption DEF Id

LEMMA NoRowFacts == NoRow \notin RowSet /\ NoRow.base = "none" /\ NoRow.kind \notin Kind
<1>1. NoRow.base = "none" /\ NoRow.kind = "none"
    BY DEF NoRow
<1>2. "none" \notin Kind /\ \A row \in RowSet : row.kind \in Kind
    BY DEF Kind, RowSet
<1> QED
    BY <1>1, <1>2

LEMMA NoOfferIsNone == NoOffer \notin Refunds \cup Exchanges \cup {NotANumber}
<1>1. NoOffer.side = 3 /\ NotANumber.side = 0
    BY DEF NoOffer, NotANumber
<1>2. \A offer \in Refunds : offer.side = 1
    BY DEF Refunds
<1>3. \A offer \in Exchanges : offer.side = 2
    BY DEF Exchanges
<1> QED
    BY <1>1, <1>2, <1>3

LEMMA OfferFacts ==
    ASSUME NEW row \in RowSet, NEW price \in Prices
    PROVE  OfferFor(row, price) \in OfferSet \ {NoOffer}
<1>1. Refund(row) \in Refunds
    BY DEF Refund, Refunds, RowSet
<1>2. Exchange(row, price.value) \in Exchanges
  <2>1. row.amount \in BaseAmounts
      BY DEF RowSet
  <2> QED
      BY <2>1 DEF Exchange, Exchanges
<1>3. OfferFor(row, price) \in {NotANumber, Refund(row), Exchange(row, price.value)}
    BY DEF OfferFor
<1> QED
    BY <1>1, <1>2, <1>3, NoOfferIsNone DEF OfferSet

(* What get_price finds for a row of the table: what the base is worth in  *)
(* CNYC it is worth at best.                                               *)
LEMMA PriceFacts ==
    ASSUME NEW pair \in Pairs, NEW amount \in BaseAmounts, NEW books \in BookSet
    PROVE  /\ GetPrice(pair[1], pair[2], amount, books[1], books[2]).value \in Nat
           /\ Worth(pair[1], pair[2], amount, books[1], books[2]) \in Nat
           /\ pair[2] = "CNYC" => \E value \in Nat :
                 /\ GetPrice(pair[1], pair[2], amount, books[1], books[2])
                       = Number(Rounded(value, amount))
                 /\ Worth(pair[1], pair[2], amount, books[1], books[2]) = Unit * value
<1> DEFINE price == GetPrice(pair[1], pair[2], amount, books[1], books[2])
           worth == Worth(pair[1], pair[2], amount, books[1], books[2])
           value == IF pair[1] = "CNYC" THEN amount ELSE BaseValue(books[1], amount)
           had == IF pair[1] = "CNYC" THEN Unit * amount ELSE SoldFor(books[1], Unit * amount)
<1>1. amount \in Nat \ {0} /\ amount \in Nat
    BY AmountAssumption
<1>3. PICK orders \in Books : books = order_book_v2(orders)
    BY DEF BookSet
<1>4. books[1] = order_book(orders, "buy") /\ books[2] = order_book(orders, "sell")
    BY <1>3 DEF order_book_v2
<1>5. books[1] \in Seq(Level) /\ books[2] \in Seq(Level)
    BY <1>4, BookType
<1>6. BestFirst(books[1])
    BY <1>4, BookType DEF BestFirst
<1>7. /\ BaseValue(books[1], amount) \in Nat
      /\ SoldFor(books[1], Unit * amount) = Unit * BaseValue(books[1], amount)
      /\ SoldFor(books[1], Unit * amount) \in Nat
    BY <1>1, <1>5, <1>6, SoldAtBest
<1>8. value \in Nat /\ had \in Nat /\ had = Unit * value
  <2>1. Unit * amount \in Nat
      BY <1>1, UnitAssumption, Products
  <2> QED
      BY <1>1, <1>7, <2>1
<1>9. /\ price = IF pair[2] = "CNYC" THEN Number(Rounded(value, amount))
                 ELSE QuotePrice(books[2], value, amount)
      /\ worth = IF pair[2] = "CNYC" THEN had ELSE BoughtFor(books[2], had)
    BY DEF GetPrice, Worth
<1> HIDE DEF price, worth, value, had
<1>10. CASE pair[2] = "CNYC"
  <2>1. Rounded(value, amount) \in Nat
      BY <1>1, <1>8, RoundedFacts
  <2>2. Number(Rounded(value, amount)).value = Rounded(value, amount)
      BY DEF Number
  <2> QED
      BY <1>8, <1>9, <1>10, <2>1, <2>2 DEF price, worth
<1>11. CASE pair[2] # "CNYC"
  <2>1. QuotePrice(books[2], value, amount).value \in Nat
      BY <1>1, <1>5, <1>8, QuoteType
  <2>2. BoughtFor(books[2], had) \in Nat
      BY <1>5, <1>8, BoughtType
  <2> QED
      BY <1>9, <1>11, <2>1, <2>2 DEF price, worth
<1> QED
    BY <1>10, <1>11

LEMMA MoneyTypes ==
    /\ \A price \in Prices : price.value \in Nat
    /\ Worths \subseteq Nat
    /\ OfferSet \subseteq Offer \cup {NotANumber, NoOffer}
    /\ \A offer \in OfferSet : offer.side \in {1, 2} => offer \in Offer
<1>1. \A price \in Prices : price.value \in Nat
    BY PriceFacts DEF Prices
<1>2. Worths \subseteq Nat
    BY PriceFacts DEF Worths
<1>3. Refunds \subseteq Offer
  <2> SUFFICES ASSUME NEW amount \in BaseAmounts PROVE (1000 * Unit) * amount \in Nat
      BY DEF Refunds, Offer
  <2>1. 1000 * Unit \in Nat /\ amount \in Nat
      BY UnitAssumption, AmountAssumption
  <2> QED
      BY <2>1, Products
<1>4. Exchanges \subseteq Offer
  <2> SUFFICES ASSUME NEW amount \in BaseAmounts, NEW price \in Prices
               PROVE  /\ (995 * amount) * price.value \in Nat
                      /\ (5 * amount) * price.value \in Nat
      BY DEF Exchanges, Offer
  <2>1. 995 * amount \in Nat /\ 5 * amount \in Nat /\ price.value \in Nat
      BY <1>1, AmountAssumption
  <2> QED
      BY <2>1, Products
<1>5. NotANumber.side = 0 /\ NoOffer.side = 3
    BY DEF NotANumber, NoOffer
<1> QED
    BY <1>1, <1>2, <1>3, <1>4, <1>5 DEF OfferSet

----------------------------------------------------------------------------
(* The invariant.                                                          *)

Typed ==
    /\ table \in [Id -> RowSet \cup {NoRow}]
    /\ snapshot \in BookSet \cup {NoBooks}
    /\ pc \in [Loop -> {"idle", "decode", "record", "dead"}]
    /\ at \in [Loop -> Id \cup {0}]
    /\ at["decode"] # 0 <=> pc["decode"] = "decode"
    /\ at["pay"] # 0 <=> pc["pay"] = "record"
    /\ sent \in [Id -> Seq(OfferSet)]
    /\ doubtful \subseteq {i \in Id : table[i] \in RowSet}

(* What a row says of the payments n made for it: the decode loop is at    *)
(* rows that have no offer yet, the pay loop at one it has just paid.      *)
RowOK(row, payments, decoding, paying, clean) ==
    /\ row = NoRow => payments = <<>> /\ ~ decoding /\ ~ paying
    /\ row.offer = NoOffer <=> row.base \in {"pending", "none"}
    /\ row.base = "successful" => row.kind = "good"
    /\ decoding => row.base = "pending"
    /\ paying => row.base = "successful" /\ row.quote = "pending"
    /\ payments # <<>> => row.base = "successful"
    /\ \A n \in 1 .. Len(payments) : payments[n] = row.offer
    /\ clean => Len(payments) = IF row.quote = "successful" \/ paying THEN 1 ELSE 0
    /\ row.quote = "successful" => row.base = "successful"

Decoding(i) == at["decode"] = i

Paying(i) == at["pay"] = i

RowsOK ==
    \A i \in Id : RowOK(table[i], sent[i], Decoding(i), Paying(i), i \notin doubtful)

Inv == Typed /\ RowsOK

(* The stage of a row that met no accident.                                *)
Stage(row, payments) ==
    IF row = NoRow THEN "none"
    ELSE IF payments # <<>> THEN "paid"
    ELSE IF row.base = "illegaled" THEN "refused"
    ELSE IF row.kind = "good" THEN "taken" ELSE "requested"

MayMove(from, to) ==
    \/ from = to
    \/ from = "none" /\ to \in {"requested", "taken"}
    \/ from = "requested" /\ to \in {"taken", "refused"}
    \/ from = "taken" /\ to = "paid"

Moves(i) == MayMove(Stage(table[i], sent[i]), Stage(table'[i], sent'[i]))

(* A step that is about row j.                                             *)
Advances(j) ==
    /\ \A i \in Id \ {j} : /\ table'[i] = table[i] /\ sent'[i] = sent[i]
                           /\ Decoding(i)' = Decoding(i) /\ Paying(i)' = Paying(i)
    /\ doubtful \subseteq doubtful' /\ doubtful' \subseteq doubtful \cup {j}
    /\ table[j] = NoRow => doubtful' = doubtful
    /\ RowOK(table'[j], sent'[j], Decoding(j)', Paying(j)', j \notin doubtful')
    /\ j \in doubtful' \/ (doubtful' = doubtful /\ Moves(j))

LEMMA AdvancesOK ==
    ASSUME Inv, Typed', NEW j \in Id, Advances(j)
    PROVE  Inv'
<1> SUFFICES ASSUME NEW i \in Id
             PROVE  RowOK(table'[i], sent'[i], Decoding(i)', Paying(i)', i \notin doubtful')
    BY DEF Inv, RowsOK
<1>1. CASE i = j
    BY <1>1 DEF Advances
<1>2. CASE i # j
  <2>1. RowOK(table[i], sent[i], Decoding(i), Paying(i), i \notin doubtful)
      BY DEF Inv, RowsOK
  <2>2. (i \notin doubtful') = (i \notin doubtful)
      BY <1>2 DEF Advances
  <2> QED
      BY <1>2, <2>1, <2>2 DEF Advances
<1> QED
    BY <1>1, <1>2

(* A step that changes no row: a loop may turn to a row that has no offer  *)
(* yet, or forget a payment, which leaves its row in doubt.                *)
Rests ==
    /\ UNCHANGED <<table, sent>>
    /\ doubtful \subseteq doubtful'
    /\ \A i \in Id : Decoding(i)' => table[i].base = "pending"
    /\ \A i \in Id : \/ Paying(i)' <=> Paying(i)
                     \/ i \in doubtful' /\ ~ Paying(i)'

LEMMA RestsOK ==
    ASSUME Inv, Typed', Rests
    PROVE  Inv'
<1> SUFFICES ASSUME NEW i \in Id
             PROVE  RowOK(table'[i], sent'[i], Decoding(i)', Paying(i)', i \notin doubtful')
    BY DEF Inv, RowsOK
<1>1. RowOK(table[i], sent[i], Decoding(i), Paying(i), i \notin doubtful)
    BY DEF Inv, RowsOK
<1>2. table'[i] = table[i] /\ sent'[i] = sent[i] /\ (i \in doubtful => i \in doubtful')
    BY DEF Rests
<1>3. /\ Decoding(i)' => table[i].base = "pending"
      /\ (Paying(i)' <=> Paying(i)) \/ (i \in doubtful' /\ ~ Paying(i)')
    BY DEF Rests
<1>4. table[i] = NoRow => table[i].base # "pending"
    BY NoRowFacts
<1> QED
    BY <1>1, <1>2, <1>3, <1>4 DEF RowOK

LEMMA GotoValues ==
    ASSUME Typed, NEW l \in Loop, NEW step, NEW i, Goto(l, step, i)
    PROVE  /\ pc'[l] = step /\ at'[l] = i
           /\ \A k \in Loop \ {l} : pc'[k] = pc[k] /\ at'[k] = at[k]
  BY DEF Goto, Typed

LEMMA GotoTyped ==
    ASSUME Typed, NEW l \in Loop, NEW i \in Id \cup {0}, NEW step, Goto(l, step, i),
           \/ i = 0 /\ step \in {"idle", "dead"}
           \/ i # 0 /\ l = "decode" /\ step = "decode"
           \/ i # 0 /\ l = "pay" /\ step = "record"
    PROVE  /\ pc' \in [Loop -> {"idle", "decode", "record", "dead"}]
           /\ at' \in [Loop -> Id \cup {0}]
           /\ at'["decode"] # 0 <=> pc'["decode"] = "decode"
           /\ at'["pay"] # 0 <=> pc'["pay"] = "record"
<1>1. /\ pc' \in [Loop -> {"idle", "decode", "record", "dead"}]
      /\ at' \in [Loop -> Id \cup {0}]
    BY DEF Goto, Typed
<1>2. /\ pc'[l] = step /\ at'[l] = i
      /\ \A k \in Loop \ {l} : pc'[k] = pc[k] /\ at'[k] = at[k]
    BY GotoValues
<1>3. Loop = {"decode", "pay"}
    BY DEF Loop
<1>4. CASE l = "decode"
  <2>1. /\ pc'["decode"] = step /\ at'["decode"] = i
        /\ pc'["pay"] = pc["pay"] /\ at'["pay"] = at["pay"]
      BY <1>2, <1>3, <1>4
  <2>2. i # 0 <=> step = "decode"
      BY <1>4
  <2>3. at["pay"] # 0 <=> pc["pay"] = "record"
      BY DEF Typed
  <2> QED
      BY <1>1, <2>1, <2>2, <2>3
<1>5. CASE l = "pay"
  <2>1. /\ pc'["pay"] = step /\ at'["pay"] = i
        /\ pc'["decode"] = pc["decode"] /\ at'["decode"] = at["decode"]
      BY <1>2, <1>3, <1>5
  <2>2. i # 0 <=> step = "record"
      BY <1>5
  <2>3. at["decode"] # 0 <=> pc["decode"] = "decode"
      BY DEF Typed
  <2> QED
      BY <1>1, <2>1, <2>2, <2>3
<1> QED
    BY <1>1, <1>3, <1>4, <1>5

(* The row a loop is at.                                                   *)
LEMMA AtRow ==
    ASSUME Inv
    PROVE  /\ pc["decode"] = "decode" =>
                 /\ at["decode"] \in Id /\ table[at["decode"]] \in RowSet
                 /\ table[at["decode"]].base = "pending"
           /\ pc["pay"] = "record" =>
                 /\ at["pay"] \in Id /\ table[at["pay"]] \in RowSet
                 /\ table[at["pay"]].base = "successful"
                 /\ table[at["pay"]].quote = "pending"
<1>1. ASSUME pc["decode"] = "decode"
      PROVE  /\ at["decode"] \in Id /\ table[at["decode"]] \in RowSet
             /\ table[at["decode"]].base = "pending"
  <2>1. at["decode"] \in Id
      BY <1>1 DEF Inv, Typed, Loop
  <2>2. table[at["decode"]].base = "pending"
      BY <2>1 DEF Inv, RowsOK, RowOK, Decoding
  <2> QED
      BY <2>1, <2>2, NoRowFacts DEF Inv, Typed
<1>2. ASSUME pc["pay"] = "record"
      PROVE  /\ at["pay"] \in Id /\ table[at["pay"]] \in RowSet
             /\ table[at["pay"]].base = "successful"
             /\ table[at["pay"]].quote = "pending"
  <2>1. at["pay"] \in Id
      BY <1>2 DEF Inv, Typed, Loop
  <2>2. table[at["pay"]].base = "successful" /\ table[at["pay"]].quote = "pending"
      BY <2>1 DEF Inv, RowsOK, RowOK, Paying
  <2> QED
      BY <2>1, <2>2, NoRowFacts DEF Inv, Typed
<1> QED
    BY <1>1, <1>2

----------------------------------------------------------------------------
(* The operations that change no row.                                      *)

LEMMA RestingLoops ==
    ASSUME UNCHANGED at
    PROVE  \A i \in Id : Decoding(i)' = Decoding(i) /\ Paying(i)' = Paying(i)
  BY DEF Decoding, Paying

LEMMA DecodingIsPending ==
    ASSUME Inv, NEW i \in Id, Decoding(i)
    PROVE  table[i].base = "pending"
  BY DEF Inv, RowsOK, RowOK

LEMMA BooksStep ==
    ASSUME Inv,
           \/ \E orders \in Books : FillBooks(orders) \/ RefreshBooks(orders)
           \/ EmptyBooks
    PROVE  Typed' /\ Rests
<1>1. UNCHANGED <<table, pc, at, sent, pool, doubtful>>
    BY DEF FillBooks, RefreshBooks, EmptyBooks
<1>2. snapshot' \in BookSet \cup {NoBooks}
    BY DEF FillBooks, RefreshBooks, EmptyBooks, insert_order_book_tmp, update_order_book_tmp,
           truncate, BookSet, get_order_book_tmp
<1>3. Typed'
    BY <1>1, <1>2 DEF Inv, Typed
<1>4. Rests
    BY <1>1, RestingLoops, DecodingIsPending DEF Rests
<1> QED
    BY <1>3, <1>4

LEMMA PickStep ==
    ASSUME Inv, NEW j \in Id, Pick(j)
    PROVE  Typed' /\ Rests
<1>1. /\ Goto("decode", "decode", j)
      /\ UNCHANGED <<table, snapshot, sent, pool, troubles, doubtful>>
    BY DEF Pick
<1>2. Typed'
    BY <1>1, GotoTyped, IdFacts DEF Inv, Typed, Loop
<1>3. at'["decode"] = j /\ at'["pay"] = at["pay"]
    BY <1>1, GotoValues DEF Inv, Loop
<1>4. table[j].base = "pending"
  <2>1. table[j] \in RowSet /\ table[j].offer = NoOffer
      BY DEF Pick, Undecoded, Inv, Typed
  <2>2. table[j].base \in {"pending", "none"}
      BY <2>1 DEF Inv, RowsOK, RowOK
  <2> QED
      BY <2>1, <2>2 DEF RowSet
<1> QED
    BY <1>1, <1>2, <1>3, <1>4 DEF Rests, Decoding, Paying

LEMMA DecodeEndsStep ==
    ASSUME Inv, DecodeFails \/ DecodeThrows
    PROVE  Typed' /\ Rests
<1>1. PICK step \in {"idle", "dead"} : Goto("decode", step, 0)
    BY DEF DecodeFails, DecodeThrows
<1>2. UNCHANGED <<table, snapshot, sent, pool, doubtful>>
    BY DEF DecodeFails, DecodeThrows
<1>3. Typed'
    BY <1>1, <1>2, GotoTyped DEF Inv, Typed, Loop
<1>4. at'["decode"] = 0 /\ at'["pay"] = at["pay"]
    BY <1>1, GotoValues DEF Inv, Loop
<1> QED
    BY <1>2, <1>3, <1>4, IdFacts DEF Rests, Decoding, Paying

LEMMA PaymentNotRecordedStep ==
    ASSUME Inv, PaymentNotRecorded
    PROVE  Typed' /\ Rests
<1>1. /\ Goto("pay", "idle", 0)
      /\ doubtful' = doubtful \cup {at["pay"]}
      /\ UNCHANGED <<table, snapshot, sent, pool>>
    BY DEF PaymentNotRecorded, InDoubt
<1>2. at["pay"] \in Id /\ table[at["pay"]] \in RowSet
    BY AtRow DEF PaymentNotRecorded
<1>3. Typed'
    BY <1>1, <1>2, GotoTyped DEF Inv, Typed, Loop
<1>4. at'["pay"] = 0 /\ at'["decode"] = at["decode"]
    BY <1>1, GotoValues DEF Inv, Loop
<1>5. ASSUME NEW i \in Id
      PROVE  /\ Decoding(i)' => table[i].base = "pending"
             /\ (Paying(i)' <=> Paying(i)) \/ (i \in doubtful' /\ ~ Paying(i)')
  <2>1. Decoding(i)' = Decoding(i)
      BY <1>4 DEF Decoding
  <2>2. ~ Paying(i)' /\ (Paying(i) => i \in doubtful')
      BY <1>1, <1>4, IdFacts DEF Paying
  <2> QED
      BY <2>1, <2>2, DecodingIsPending
<1> QED
    BY <1>1, <1>3, <1>5 DEF Rests

LEMMA RestartStep ==
    ASSUME Inv, Restart
    PROVE  Typed' /\ Rests
<1>1. /\ doubtful' = doubtful \cup {i \in Id : i = at["pay"]}
      /\ pc' = [l \in Loop |-> "idle"] /\ at' = [l \in Loop |-> 0]
      /\ UNCHANGED <<table, snapshot, sent, pool>>
    BY DEF Restart, InDoubt
<1>2. \A i \in Id : i = at["pay"] => table[i] \in RowSet
  <2>1. SUFFICES ASSUME NEW i \in Id, i = at["pay"]
                 PROVE  table[i] \in RowSet
      OBVIOUS
  <2>2. pc["pay"] = "record"
      BY <2>1, IdFacts DEF Inv, Typed
  <2> QED
      BY <2>1, <2>2, AtRow
<1>3. at'["decode"] = 0 /\ at'["pay"] = 0 /\ pc'["decode"] = "idle" /\ pc'["pay"] = "idle"
    BY <1>1 DEF Loop
<1>4. doubtful' \subseteq {i \in Id : table'[i] \in RowSet}
    BY <1>1, <1>2 DEF Inv, Typed
<1>5. /\ pc' \in [Loop -> {"idle", "decode", "record", "dead"}]
      /\ at' \in [Loop -> Id \cup {0}]
    BY <1>1
<1>6. Typed'
    BY <1>1, <1>3, <1>4, <1>5 DEF Inv, Typed
<1>7. ASSUME NEW i \in Id
      PROVE  ~ Decoding(i)' /\ ~ Paying(i)' /\ (Paying(i) => i \in doubtful')
    BY <1>1, <1>3, IdFacts DEF Decoding, Paying
<1> QED
    BY <1>1, <1>6, <1>7 DEF Rests

----------------------------------------------------------------------------
(* The operations that are about one row.                                  *)

LEMMA RowTyped ==
    ASSUME Typed, NEW j \in Id, NEW r \in RowSet, table' = [table EXCEPT ![j] = r],
           doubtful' \subseteq doubtful \cup {j}
    PROVE  /\ table' \in [Id -> RowSet \cup {NoRow}]
           /\ table'[j] = r /\ \A i \in Id \ {j} : table'[i] = table[i]
           /\ doubtful' \subseteq {i \in Id : table'[i] \in RowSet}
<1>1. /\ table' \in [Id -> RowSet \cup {NoRow}]
      /\ table'[j] = r /\ \A i \in Id \ {j} : table'[i] = table[i]
    BY DEF Typed
<1>2. ASSUME NEW i \in doubtful' PROVE i \in Id /\ table'[i] \in RowSet
  <2>1. CASE i = j
      BY <1>1, <2>1
  <2>2. CASE i # j
      BY <1>1, <2>2 DEF Typed
  <2> QED
      BY <2>1, <2>2
<1> QED
    BY <1>1, <1>2

LEMMA RowFacts ==
    ASSUME Inv, NEW j \in Id
    PROVE  /\ RowOK(table[j], sent[j], Decoding(j), Paying(j), j \notin doubtful)
           /\ j \in doubtful => table[j] \in RowSet
           /\ table[j] \in RowSet \/ table[j] = NoRow
           /\ sent[j] \in Seq(OfferSet)
  BY DEF Inv, RowsOK, Typed

LEMMA AskStep ==
    ASSUME Inv, NEW j \in Id, NEW kind \in Kinds, NEW pair \in Pairs,
           NEW amount \in BaseAmounts, Ask(j, kind, pair, amount)
    PROVE  Typed' /\ Advances(j)
<1> DEFINE r == [kind |-> kind, pair |-> pair, amount |-> amount, worth |-> 0,
                 offer |-> NoOffer, base |-> "pending", quote |-> "pending"]
<1>1. r \in RowSet
    BY KindsAssumption DEF RowSet, Worths, OfferSet
<1>2. /\ table[j] = NoRow /\ table' = [table EXCEPT ![j] = r]
      /\ UNCHANGED <<snapshot, pc, at, sent, troubles, doubtful>>
    BY DEF Ask, insert_express
<1>3. /\ r.kind = kind /\ r.offer = NoOffer /\ r.base = "pending" /\ r.quote = "pending"
      /\ r # NoRow
    BY <1>1, NoRowFacts
<1> HIDE DEF r
<1>4. /\ table' \in [Id -> RowSet \cup {NoRow}]
      /\ table'[j] = r /\ \A i \in Id \ {j} : table'[i] = table[i]
      /\ doubtful' \subseteq {i \in Id : table'[i] \in RowSet}
    BY <1>1, <1>2, RowTyped DEF Inv
<1>5. Typed'
    BY <1>2, <1>4 DEF Inv, Typed
<1>6. sent[j] = <<>> /\ ~ Decoding(j) /\ ~ Paying(j)
    BY <1>2, RowFacts DEF RowOK
<1>7. ~ Decoding(j)' /\ ~ Paying(j)' /\ sent'[j] = <<>>
    BY <1>2, <1>6 DEF Decoding, Paying
<1>8. RowOK(table'[j], sent'[j], Decoding(j)', Paying(j)', j \notin doubtful')
    BY <1>3, <1>4, <1>7 DEF RowOK
<1>9. Moves(j)
    BY <1>2, <1>3, <1>4, <1>7 DEF Moves, MayMove, Stage
<1>10. \A i \in Id \ {j} : /\ table'[i] = table[i] /\ sent'[i] = sent[i]
                           /\ Decoding(i)' = Decoding(i) /\ Paying(i)' = Paying(i)
    BY <1>2, <1>4 DEF Decoding, Paying
<1> QED
    BY <1>2, <1>5, <1>8, <1>9, <1>10 DEF Advances

(* The decode loop writes an offer.                                        *)
LEMMA Offered ==
    ASSUME Inv, pc["decode"] = "decode", NEW j \in Id, j = at["decode"],
           NEW offer \in OfferSet \ {NoOffer}, NEW worth \in Worths,
           NEW status \in {"successful", "illegaled"},
           status = "successful" => table[j].kind = "good",
           table' = update_base(j, offer, worth, status),
           Goto("decode", "idle", 0), UNCHANGED <<snapshot, sent>>,
           \/ doubtful' = doubtful \cup {j}
           \/ /\ doubtful' = doubtful
              /\ status = "illegaled" => table[j].kind # "good"
    PROVE  Typed' /\ Advances(j)
<1>1. table[j] \in RowSet /\ table[j].base = "pending"
    BY AtRow
<1> DEFINE r == [table[j] EXCEPT !.offer = offer, !.worth = worth, !.base = status,
                                 !.quote = "pending"]
<1>2. /\ r \in RowSet /\ r.offer = offer /\ r.base = status /\ r.quote = "pending"
      /\ r.kind = table[j].kind
    BY <1>1 DEF RowSet
<1>3. table' = [table EXCEPT ![j] = r]
    BY <1>1 DEF update_base, Inv, Typed, RowSet
<1>4. r # NoRow /\ table[j] # NoRow
    BY <1>1, <1>2, NoRowFacts
<1> HIDE DEF r
<1>5. /\ table' \in [Id -> RowSet \cup {NoRow}]
      /\ table'[j] = r /\ \A i \in Id \ {j} : table'[i] = table[i]
      /\ doubtful' \subseteq {i \in Id : table'[i] \in RowSet}
    BY <1>2, <1>3, RowTyped DEF Inv
<1>6. Typed'
    BY <1>5, GotoTyped DEF Inv, Typed, Loop
<1>7. at'["decode"] = 0 /\ at'["pay"] = at["pay"]
    BY GotoValues DEF Inv, Loop
<1>8. sent[j] = <<>> /\ ~ Paying(j)
    BY <1>1, RowFacts DEF RowOK
<1>9. ~ Decoding(j)' /\ ~ Paying(j)' /\ sent'[j] = <<>>
    BY <1>7, <1>8, IdFacts DEF Decoding, Paying
<1>10. RowOK(table'[j], sent'[j], Decoding(j)', Paying(j)', j \notin doubtful')
    BY <1>2, <1>4, <1>5, <1>9 DEF RowOK
<1>11. ASSUME doubtful' = doubtful, status = "illegaled" => table[j].kind # "good"
       PROVE  Moves(j)
    BY <1>1, <1>2, <1>4, <1>5, <1>8, <1>9, <1>11 DEF Moves, MayMove, Stage
<1>12. \A i \in Id \ {j} : /\ table'[i] = table[i] /\ sent'[i] = sent[i]
                           /\ Decoding(i)' = Decoding(i) /\ Paying(i)' = Paying(i)
    BY <1>5, <1>7, IdFacts DEF Decoding, Paying
<1> QED
    BY <1>4, <1>6, <1>10, <1>11, <1>12 DEF Advances

LEMMA DecodeStep ==
    ASSUME Inv, Decode
    PROVE  Typed' /\ \E j \in Id : Advances(j)
<1> DEFINE books == get_order_book_tmp
<1>1. PICK j \in Id : j = at["decode"] /\ table[j] \in RowSet
    BY AtRow DEF Decode
<1> DEFINE row == table[j]
           price == GetPrice(row.pair[1], row.pair[2], row.amount, books[1], books[2])
           worth == Worth(row.pair[1], row.pair[2], row.amount, books[1], books[2])
<1>2. /\ pc["decode"] = "decode" /\ row.kind \in {"good", "stray"} /\ books # NoBooks
      /\ table' = update_base(j, OfferFor(row, price), worth, BaseStatus(row.kind))
      /\ Goto("decode", "idle", 0)
      /\ UNCHANGED <<snapshot, sent, pool, troubles, doubtful>>
    BY <1>1 DEF Decode
<1>3. books \in BookSet /\ row.pair \in Pairs /\ row.amount \in BaseAmounts
    BY <1>1, <1>2 DEF Inv, Typed, RowSet, get_order_book_tmp
<1>4. price \in Prices /\ worth \in Worths
    BY <1>3 DEF Prices, Worths
<1>5. OfferFor(row, price) \in OfferSet \ {NoOffer}
    BY <1>1, <1>4, OfferFacts
<1>6. /\ BaseStatus(row.kind) \in {"successful", "illegaled"}
      /\ BaseStatus(row.kind) = "successful" <=> row.kind = "good"
    BY DEF BaseStatus
<1> HIDE DEF books, price, worth
<1>7. Typed' /\ Advances(j)
    BY <1>1, <1>2, <1>4, <1>5, <1>6, Offered
<1> QED
    BY <1>7

LEMMA NoPriceStep ==
    ASSUME Inv, NoPrice
    PROVE  Typed' /\ \E j \in Id : Advances(j)
<1>1. PICK j \in Id : j = at["decode"] /\ table[j] \in RowSet
    BY AtRow DEF NoPrice
<1>2. /\ pc["decode"] = "decode"
      /\ table' = update_base(j, NotANumber, 0, "illegaled")
      /\ Goto("decode", "idle", 0) /\ doubtful' = doubtful \cup {j}
      /\ UNCHANGED <<snapshot, sent>>
    BY <1>1 DEF NoPrice, InDoubt
<1>3. NotANumber \in OfferSet \ {NoOffer} /\ 0 \in Worths
    BY NoOfferIsNone DEF OfferSet, Worths
<1>4. Typed' /\ Advances(j)
    BY <1>1, <1>2, <1>3, Offered
<1> QED
    BY <1>4

(* What the pay loop sends it adds to the payments of the row.             *)
LEMMA Sent ==
    ASSUME Inv, NEW j \in Id, Send(j)
    PROVE  /\ table[j] \in RowSet /\ table[j].base = "successful"
           /\ table[j].quote = "pending" /\ ~ Paying(j) /\ ~ Decoding(j)
           /\ at["pay"] = 0
           /\ sent'[j] = Append(sent[j], table[j].offer)
           /\ \A i \in Id \ {j} : sent'[i] = sent[i]
           /\ sent' \in [Id -> Seq(OfferSet)]
           /\ sent'[j] # <<>> /\ Len(sent'[j]) = Len(sent[j]) + 1
           /\ \A n \in 1 .. Len(sent'[j]) : sent'[j][n] = table[j].offer
           /\ UNCHANGED <<table, snapshot>>
<1>1. /\ pc["pay"] = "idle" /\ Payable(j)
      /\ sent' = [sent EXCEPT ![j] = Append(@, table[j].offer)]
      /\ UNCHANGED <<table, snapshot>>
    BY DEF Send, IsNewestPayable
<1>2. table[j].base = "successful" /\ table[j].quote = "pending"
    BY <1>1 DEF Payable
<1>3. table[j] \in RowSet
    BY <1>2, RowFacts, NoRowFacts
<1>4. at["pay"] = 0 /\ ~ Paying(j)
    BY <1>1, IdFacts DEF Inv, Typed, Paying
<1>5. ~ Decoding(j)
    BY <1>2, RowFacts DEF RowOK
<1>6. table[j].offer \in OfferSet
    BY <1>3 DEF RowSet
<1>7. sent[j] \in Seq(OfferSet)
    BY RowFacts
<1>8. Append(sent[j], table[j].offer) \in Seq(OfferSet)
    BY <1>6, <1>7
<1>9. /\ sent'[j] = Append(sent[j], table[j].offer)
      /\ \A i \in Id \ {j} : sent'[i] = sent[i]
      /\ sent' \in [Id -> Seq(OfferSet)]
    BY <1>1, <1>8 DEF Inv, Typed
<1>10. Len(sent'[j]) = Len(sent[j]) + 1 /\ Len(sent[j]) \in Nat
    BY <1>6, <1>7, <1>9
<1>11. \A n \in 1 .. Len(sent[j]) : sent[j][n] = table[j].offer
    BY RowFacts DEF RowOK
<1>12. \A n \in 1 .. Len(sent'[j]) : sent'[j][n] = table[j].offer
    BY <1>6, <1>7, <1>9, <1>11
<1>13. sent'[j] # <<>>
    BY <1>10
<1> QED
    BY <1>1, <1>2, <1>3, <1>4, <1>5, <1>9, <1>10, <1>12, <1>13

LEMMA PayStep ==
    ASSUME Inv, NEW j \in Id, Pay(j)
    PROVE  Typed' /\ Advances(j)
<1>1. Send(j) /\ Goto("pay", "record", j) /\ UNCHANGED doubtful
    BY DEF Pay
<1>2. Typed'
    BY <1>1, Sent, GotoTyped, IdFacts DEF Inv, Typed, Loop
<1>3. at'["pay"] = j /\ at'["decode"] = at["decode"]
    BY <1>1, GotoValues DEF Inv, Loop
<1>4. Paying(j)' /\ ~ Decoding(j)'
    BY <1>1, <1>3, Sent DEF Paying, Decoding
<1>5. table[j] \in RowSet /\ table[j] # NoRow /\ table'[j] = table[j]
    BY <1>1, Sent, NoRowFacts
<1>6. table[j].kind = "good" /\ (j \notin doubtful => Len(sent[j]) = 0 /\ sent[j] = <<>>)
  <2>1. table[j].kind = "good" /\ (j \notin doubtful => Len(sent[j]) = 0)
      BY <1>1, Sent, RowFacts DEF RowOK
  <2>2. Len(sent[j]) = 0 => sent[j] = <<>>
      BY RowFacts
  <2> QED
      BY <2>1, <2>2
<1>7. RowOK(table'[j], sent'[j], Decoding(j)', Paying(j)', j \notin doubtful')
  <2>1. /\ table[j].base = "successful" /\ table[j].quote = "pending"
        /\ Len(sent'[j]) = Len(sent[j]) + 1
        /\ \A n \in 1 .. Len(sent'[j]) : sent'[j][n] = table[j].offer
      BY <1>1, Sent
  <2>2. table[j].offer # NoOffer
      BY <2>1, RowFacts DEF RowOK
  <2>3. j \notin doubtful' => Len(sent'[j]) = 1
      BY <1>1, <1>6, <2>1
  <2> QED
      BY <1>4, <1>5, <1>6, <2>1, <2>2, <2>3 DEF RowOK
<1>8. j \notin doubtful => Moves(j)
  <2>1. sent'[j] # <<>> /\ table[j].base = "successful"
      BY <1>1, Sent
  <2> QED
      BY <1>5, <1>6, <2>1 DEF Moves, MayMove, Stage
<1>9. \A i \in Id \ {j} : /\ table'[i] = table[i] /\ sent'[i] = sent[i]
                          /\ Decoding(i)' = Decoding(i) /\ Paying(i)' = Paying(i)
    BY <1>1, <1>3, Sent, IdFacts DEF Decoding, Paying
<1> QED
    BY <1>1, <1>2, <1>5, <1>7, <1>8, <1>9 DEF Advances

LEMMA ReplyLostStep ==
    ASSUME Inv, NEW j \in Id, ReplyLost(j)
    PROVE  Typed' /\ Advances(j)
<1>1. Send(j) /\ doubtful' = doubtful \cup {j} /\ UNCHANGED <<pc, at>>
    BY DEF ReplyLost, InDoubt
<1>2. table[j] \in RowSet /\ table[j] # NoRow /\ UNCHANGED <<table, snapshot>>
    BY <1>1, Sent, NoRowFacts
<1>3. Typed'
    BY <1>1, <1>2, Sent DEF Inv, Typed
<1>4. RowOK(table'[j], sent'[j], Decoding(j)', Paying(j)', j \notin doubtful')
  <2>1. Decoding(j)' = Decoding(j) /\ Paying(j)' = Paying(j)
      BY <1>1 DEF Decoding, Paying
  <2>2. ~ Decoding(j) /\ ~ Paying(j) /\ table'[j] = table[j]
      BY <1>1, <1>2, Sent
  <2> QED
      BY <1>1, <1>2, <2>1, <2>2, Sent, RowFacts DEF RowOK
<1>5. \A i \in Id \ {j} : /\ table'[i] = table[i] /\ sent'[i] = sent[i]
                          /\ Decoding(i)' = Decoding(i) /\ Paying(i)' = Paying(i)
    BY <1>1, <1>2, Sent DEF Decoding, Paying
<1> QED
    BY <1>1, <1>2, <1>3, <1>4, <1>5 DEF Advances

LEMMA PaymentRecordedStep ==
    ASSUME Inv, PaymentRecorded
    PROVE  Typed' /\ \E j \in Id : Advances(j)
<1>1. PICK j \in Id : /\ j = at["pay"] /\ table[j] \in RowSet
                      /\ table[j].base = "successful" /\ table[j].quote = "pending"
    BY AtRow DEF PaymentRecorded
<1> DEFINE r == [table[j] EXCEPT !.quote = "successful"]
<1>2. /\ r \in RowSet /\ r.offer = table[j].offer /\ r.base = "successful"
      /\ r.quote = "successful" /\ r.kind = table[j].kind
    BY <1>1 DEF RowSet
<1>3. /\ table' = [table EXCEPT ![j] = r] /\ Goto("pay", "idle", 0)
      /\ UNCHANGED <<snapshot, sent, doubtful>>
    BY <1>1 DEF PaymentRecorded, update_quote, Inv, Typed
<1>4. r # NoRow /\ table[j] # NoRow
    BY <1>1, <1>2, NoRowFacts
<1> HIDE DEF r
<1>5. /\ table' \in [Id -> RowSet \cup {NoRow}]
      /\ table'[j] = r /\ \A i \in Id \ {j} : table'[i] = table[i]
      /\ doubtful' \subseteq {i \in Id : table'[i] \in RowSet}
    BY <1>2, <1>3, RowTyped DEF Inv
<1>6. Typed'
    BY <1>3, <1>5, GotoTyped DEF Inv, Typed, Loop
<1>7. at'["pay"] = 0 /\ at'["decode"] = at["decode"]
    BY <1>3, GotoValues DEF Inv, Loop
<1>8. Paying(j) /\ ~ Decoding(j)
    BY <1>1, RowFacts DEF Paying, RowOK
<1>9. ~ Paying(j)' /\ ~ Decoding(j)' /\ sent'[j] = sent[j]
    BY <1>3, <1>7, <1>8, IdFacts DEF Paying, Decoding
<1>10. j \notin doubtful => Len(sent[j]) = 1 /\ sent[j] # <<>>
  <2>1. j \notin doubtful => Len(sent[j]) = 1
      BY <1>8, RowFacts DEF RowOK
  <2>2. sent[j] = <<>> => Len(sent[j]) = 0
      OBVIOUS
  <2> QED
      BY <2>1, <2>2
<1>11. RowOK(table'[j], sent'[j], Decoding(j)', Paying(j)', j \notin doubtful')
    BY <1>1, <1>2, <1>3, <1>4, <1>5, <1>9, <1>10, RowFacts DEF RowOK
<1>12. j \notin doubtful => Moves(j)
    BY <1>4, <1>5, <1>9, <1>10 DEF Moves, MayMove, Stage
<1>13. \A i \in Id \ {j} : /\ table'[i] = table[i] /\ sent'[i] = sent[i]
                           /\ Decoding(i)' = Decoding(i) /\ Paying(i)' = Paying(i)
    BY <1>1, <1>3, <1>5, <1>7, IdFacts DEF Decoding, Paying
<1>14. Advances(j)
    BY <1>3, <1>4, <1>11, <1>12, <1>13 DEF Advances
<1> QED
    BY <1>6, <1>14

----------------------------------------------------------------------------
(* All operations.                                                         *)

LEMMA InvInit == Init => Inv
<1> SUFFICES ASSUME Init PROVE Inv
    OBVIOUS
<1>1. Typed
    BY IdFacts DEF Init, Typed, Loop
<1>2. ASSUME NEW i \in Id
      PROVE  RowOK(table[i], sent[i], Decoding(i), Paying(i), i \notin doubtful)
  <2>1. table[i] = NoRow /\ sent[i] = <<>> /\ at["decode"] = 0 /\ at["pay"] = 0
      BY DEF Init, Loop
  <2>2. NoRow.offer = NoOffer /\ NoRow.base = "none" /\ NoRow.quote = "none"
      BY DEF NoRow
  <2> QED
      BY <2>1, <2>2, IdFacts DEF RowOK, Decoding, Paying
<1> QED
    BY <1>1, <1>2 DEF Inv, RowsOK

LEMMA EveryStep ==
    ASSUME Inv, [Next]_vars
    PROVE  Typed' /\ (Rests \/ \E j \in Id : Advances(j))
<1>1. CASE \E i \in Id, kind \in Kinds, pair \in Pairs, amount \in BaseAmounts :
              Ask(i, kind, pair, amount)
    BY <1>1, AskStep
<1>2. CASE (\E orders \in Books : FillBooks(orders) \/ RefreshBooks(orders)) \/ EmptyBooks
    BY <1>2, BooksStep
<1>3. CASE DecodeLoop
    BY <1>3, PickStep, DecodeStep, NoPriceStep, DecodeEndsStep DEF DecodeLoop
<1>4. CASE PayLoop
    BY <1>4, PaymentRecordedStep, PayStep DEF PayLoop
<1>5. CASE PaymentNotRecorded \/ Restart \/ \E i \in Id : ReplyLost(i)
    BY <1>5, PaymentNotRecordedStep, RestartStep, ReplyLostStep
<1>6. CASE UNCHANGED vars
  <2>1. UNCHANGED <<table, snapshot, pc, at, sent, doubtful>>
      BY <1>6 DEF vars
  <2>2. Typed'
      BY <2>1 DEF Inv, Typed
  <2> QED
      BY <2>1, <2>2, RestingLoops, DecodingIsPending DEF Rests
<1> QED
    BY <1>1, <1>2, <1>3, <1>4, <1>5, <1>6 DEF Next, Accident

LEMMA InvNext == Inv /\ [Next]_vars => Inv'
  BY EveryStep, RestsOK, AdvancesOK

LEMMA Always == Spec => []Inv
  BY InvInit, InvNext, PTL DEF Spec

----------------------------------------------------------------------------
(* The money.                                                              *)

(* An exchange was offered at a price that the books gave, and the worth   *)
(* is that of the same books.                                              *)
AtPrice(row) ==
    \E books \in BookSet :
        LET price == GetPrice(row.pair[1], row.pair[2], row.amount, books[1], books[2]) IN
        /\ price.is = "number"
        /\ row.offer = Exchange(row, price.value)
        /\ row.worth = Worth(row.pair[1], row.pair[2], row.amount, books[1], books[2])

Priced(row) ==
    /\ row.offer.side = 2 => AtPrice(row)
    /\ row.offer.side = 1 => row.offer = Refund(row)

MoneyInv ==
    /\ pc["decode"] \in {"idle", "decode", "dead"} /\ pc["pay"] \in {"idle", "record"}
    /\ pool \in [Token -> Nat]
    /\ troubles \in Nat
    /\ sent \in [Id -> Seq(Offer)]
    /\ \A i \in Id : table[i] \in RowSet => Priced(table[i])

LEMMA MoneyInit == Init => MoneyInv
<1> SUFFICES ASSUME Init PROVE MoneyInv
    OBVIOUS
<1>1. pc["decode"] = "idle" /\ pc["pay"] = "idle"
    BY DEF Init, Loop
<1>2. pool \in [Token -> Nat] /\ troubles \in Nat
    BY AmountAssumption DEF Init
<1>3. sent \in [Id -> Seq(Offer)]
    BY DEF Init
<1>4. \A i \in Id : table[i] \notin RowSet
    BY NoRowFacts DEF Init
<1> QED
    BY <1>1, <1>2, <1>3, <1>4 DEF MoneyInv

(* A loop takes a step of its own.                                         *)
LEMMA LoopsStay ==
    ASSUME Inv, MoneyInv, NEW l \in Loop, NEW step, NEW i, Goto(l, step, i),
           \/ l = "decode" /\ step \in {"idle", "decode", "dead"}
           \/ l = "pay" /\ step \in {"idle", "record"}
    PROVE  pc'["decode"] \in {"idle", "decode", "dead"} /\ pc'["pay"] \in {"idle", "record"}
<1>1. pc'[l] = step /\ \A k \in Loop \ {l} : pc'[k] = pc[k]
    BY GotoValues DEF Inv
<1>2. Loop = {"decode", "pay"}
    BY DEF Loop
<1>3. pc["decode"] \in {"idle", "decode", "dead"} /\ pc["pay"] \in {"idle", "record"}
    BY DEF MoneyInv
<1> QED
    BY <1>1, <1>2, <1>3

LEMMA StepsOfLoops ==
    ASSUME Inv, MoneyInv, [Next]_vars
    PROVE  pc'["decode"] \in {"idle", "decode", "dead"} /\ pc'["pay"] \in {"idle", "record"}
<1>1. CASE UNCHANGED pc
    BY <1>1 DEF MoneyInv
<1>2. CASE \E i \in Id, kind \in Kinds, pair \in Pairs, amount \in BaseAmounts :
              Ask(i, kind, pair, amount)
    BY <1>1, <1>2 DEF Ask
<1>3. CASE (\E orders \in Books : FillBooks(orders) \/ RefreshBooks(orders)) \/ EmptyBooks
    BY <1>1, <1>3 DEF FillBooks, RefreshBooks, EmptyBooks
<1>4. CASE DecodeLoop
  <2>1. \E i, step : Goto("decode", step, i) /\ step \in {"idle", "decode", "dead"}
      BY <1>4 DEF DecodeLoop, Pick, Decode, NoPrice, DecodeFails, DecodeThrows
  <2> QED
      BY <2>1, LoopsStay DEF Loop
<1>5. CASE PayLoop \/ PaymentNotRecorded
  <2>1. \E i, step : Goto("pay", step, i) /\ step \in {"idle", "record"}
      BY <1>5 DEF PayLoop, Pay, PaymentRecorded, PaymentNotRecorded
  <2> QED
      BY <2>1, LoopsStay DEF Loop
<1>6. CASE Restart
  <2>1. pc'["decode"] = "idle" /\ pc'["pay"] = "idle"
      BY <1>6 DEF Restart, Loop
  <2> QED
      BY <2>1
<1>7. CASE \E i \in Id : ReplyLost(i)
    BY <1>1, <1>7 DEF ReplyLost
<1>8. CASE UNCHANGED vars
    BY <1>1, <1>8 DEF vars
<1> QED
    BY <1>2, <1>3, <1>4, <1>5, <1>6, <1>7, <1>8 DEF Next, Accident

LEMMA TroublesCounted ==
    ASSUME MoneyInv, [Next]_vars
    PROVE  troubles' \in Nat
<1>1. CASE UNCHANGED troubles
    BY <1>1 DEF MoneyInv
<1>2. CASE Trouble
    BY <1>2 DEF Trouble, MoneyInv
<1>3. CASE \E i \in Id, kind \in Kinds, pair \in Pairs, amount \in BaseAmounts :
              Ask(i, kind, pair, amount)
    BY <1>1, <1>3 DEF Ask
<1>4. CASE \E orders \in Books : FillBooks(orders) \/ RefreshBooks(orders)
    BY <1>1, <1>4 DEF FillBooks, RefreshBooks
<1>5. CASE DecodeLoop
    BY <1>1, <1>2, <1>5 DEF DecodeLoop, Pick, Decode, NoPrice, DecodeFails, DecodeThrows
<1>6. CASE PayLoop
    BY <1>1, <1>6 DEF PayLoop, PaymentRecorded, Pay
<1>7. CASE Accident
    BY <1>2, <1>7 DEF Accident, EmptyBooks, PaymentNotRecorded, Restart, ReplyLost
<1>8. CASE UNCHANGED vars
    BY <1>1, <1>8 DEF vars
<1> QED
    BY <1>3, <1>4, <1>5, <1>6, <1>7, <1>8 DEF Next

(* What is sent is an amount, and the pool has it.                         *)
LEMMA SentFromPool ==
    ASSUME Inv, MoneyInv, NEW j \in Id, Send(j)
    PROVE  pool' \in [Token -> Nat] /\ sent' \in [Id -> Seq(Offer)]
<1> DEFINE offer == table[j].offer
           token == table[j].pair[offer.side]
<1>1. table[j] \in RowSet
    BY Sent
<1>2. /\ offer.side \in {1, 2} /\ offer.amount <= pool[token]
      /\ pool' = [pool EXCEPT ![token] = @ + (- offer.amount)]
      /\ sent' = [sent EXCEPT ![j] = Append(@, offer)]
    BY DEF Send, InPool, InAccount
<1>3. offer \in OfferSet /\ table[j].pair \in Pairs
    BY <1>1 DEF RowSet
<1>4. token \in Token
    BY <1>2, <1>3, PairsAssumption
<1>5. offer \in Offer
    BY <1>2, <1>3, MoneyTypes
<1>6. offer.amount \in Nat
    BY <1>5 DEF Offer
<1> HIDE DEF offer, token
<1>7. pool \in [Token -> Nat] /\ sent \in [Id -> Seq(Offer)]
    BY DEF MoneyInv
<1>8. pool[token] + (- offer.amount) \in Nat
  <2>1. pool[token] \in Nat
      BY <1>4, <1>7
  <2> QED
      BY <1>2, <1>6, <2>1
<1>9. pool' \in [Token -> Nat]
    BY <1>2, <1>7, <1>8
<1>10. Append(sent[j], offer) \in Seq(Offer)
    BY <1>5, <1>7
<1> QED
    BY <1>2, <1>7, <1>9, <1>10

LEMMA PoolStep ==
    ASSUME Inv, MoneyInv, [Next]_vars
    PROVE  pool' \in [Token -> Nat] /\ sent' \in [Id -> Seq(Offer)]
<1>1. CASE UNCHANGED <<pool, sent>>
    BY <1>1 DEF MoneyInv
<1>2. ASSUME NEW i \in Id, NEW kind \in Kinds, NEW pair \in Pairs,
             NEW amount \in BaseAmounts, Ask(i, kind, pair, amount)
      PROVE  pool' \in [Token -> Nat] /\ sent' \in [Id -> Seq(Offer)]
  <2>1. CASE kind = "good"
    <3>1. pool' = [pool EXCEPT ![pair[1]] = @ + (1000 * Unit) * amount] /\ sent' = sent
        BY <1>2, <2>1 DEF Ask, InAccount
    <3>2. (1000 * Unit) * amount \in Nat
      <4>1. 1000 * Unit \in Nat /\ amount \in Nat
          BY UnitAssumption, AmountAssumption
      <4> QED
          BY <4>1, Products
    <3>3. pair[1] \in Token
        BY PairsAssumption
    <3> DEFINE deposit == (1000 * Unit) * amount
               base == pair[1]
    <3>4. /\ pool' = [pool EXCEPT ![base] = @ + deposit] /\ deposit \in Nat
          /\ base \in Token /\ pool \in [Token -> Nat]
        BY <3>1, <3>2, <3>3 DEF MoneyInv
    <3>6. sent' \in [Id -> Seq(Offer)]
        BY <3>1 DEF MoneyInv
    <3> HIDE DEF deposit, base
    <3>5. pool[base] + deposit \in Nat
      <4>1. pool[base] \in Nat
          BY <3>4
      <4> QED
          BY <3>4, <4>1
    <3> QED
        BY <3>4, <3>5, <3>6
  <2>2. CASE kind # "good"
      BY <1>1, <1>2, <2>2 DEF Ask
  <2> QED
      BY <2>1, <2>2
<1>3. CASE (\E orders \in Books : FillBooks(orders) \/ RefreshBooks(orders)) \/ EmptyBooks
    BY <1>1, <1>3 DEF FillBooks, RefreshBooks, EmptyBooks
<1>4. CASE DecodeLoop
    BY <1>1, <1>4 DEF DecodeLoop, Pick, Decode, NoPrice, DecodeFails, DecodeThrows
<1>5. CASE PaymentRecorded \/ PaymentNotRecorded \/ Restart
    BY <1>1, <1>5 DEF PaymentRecorded, PaymentNotRecorded, Restart
<1>6. CASE \E i \in Id : Pay(i) \/ ReplyLost(i)
    BY <1>6, SentFromPool DEF Pay, ReplyLost
<1>7. CASE UNCHANGED vars
    BY <1>1, <1>7 DEF vars
<1> QED
    BY <1>2, <1>3, <1>4, <1>5, <1>6, <1>7 DEF Next, PayLoop, Accident

(* Row j gets the values of r.                                             *)
LEMMA PricedStays ==
    ASSUME Inv, Inv', MoneyInv, NEW j \in Id, NEW r, table' = [table EXCEPT ![j] = r], Priced(r)
    PROVE  \A i \in Id : table'[i] \in RowSet => Priced(table'[i])
<1> SUFFICES ASSUME NEW i \in Id, table'[i] \in RowSet PROVE Priced(table'[i])
    OBVIOUS
<1>1. table \in [Id -> RowSet \cup {NoRow}]
    BY DEF Inv, Typed
<1>2. CASE i = j
    BY <1>1, <1>2
<1>3. CASE i # j
  <2>1. table'[i] = table[i]
      BY <1>1, <1>3
  <2> QED
      BY <2>1 DEF MoneyInv
<1> QED
    BY <1>2, <1>3

LEMMA Unpriced ==
    ASSUME NEW row, row.offer \in {NoOffer, NotANumber}
    PROVE  Priced(row)
<1>1. NotANumber.side = 0 /\ NoOffer.side = 3
    BY DEF NotANumber, NoOffer
<1> QED
    BY <1>1 DEF Priced

LEMMA AskPriced ==
    ASSUME Inv, Inv', MoneyInv, NEW j \in Id, NEW kind \in Kinds, NEW pair \in Pairs,
           NEW amount \in BaseAmounts, Ask(j, kind, pair, amount)
    PROVE  \A i \in Id : table'[i] \in RowSet => Priced(table'[i])
<1> DEFINE r == [kind |-> kind, pair |-> pair, amount |-> amount, worth |-> 0,
                 offer |-> NoOffer, base |-> "pending", quote |-> "pending"]
<1>1. table' = [table EXCEPT ![j] = r] /\ r.offer = NoOffer
    BY DEF Ask, insert_express
<1> HIDE DEF r
<1>2. Priced(r)
    BY <1>1, Unpriced
<1> QED
    BY <1>1, <1>2, PricedStays

(* The row the decode loop writes.                                         *)
Written(row, offer, worth, status) ==
    [row EXCEPT !.offer = offer, !.worth = worth, !.base = status, !.quote = "pending"]

LEMMA DecodePriced ==
    ASSUME Inv, Inv', MoneyInv, Decode
    PROVE  \A i \in Id : table'[i] \in RowSet => Priced(table'[i])
<1> DEFINE books == get_order_book_tmp
<1>1. PICK j \in Id : j = at["decode"] /\ table[j] \in RowSet
    BY AtRow DEF Decode
<1> DEFINE row == table[j]
           price == GetPrice(row.pair[1], row.pair[2], row.amount, books[1], books[2])
           worth == Worth(row.pair[1], row.pair[2], row.amount, books[1], books[2])
           offer == OfferFor(row, price)
           status == BaseStatus(row.kind)
           r == Written(row, offer, worth, status)
<1>2. books # NoBooks /\ table' = update_base(j, offer, worth, status)
    BY <1>1 DEF Decode
<1>3. books \in BookSet
    BY <1>2 DEF Inv, Typed, get_order_book_tmp
<1> HIDE DEF books, price, worth, offer, status
<1>4. /\ table' = [table EXCEPT ![j] = r]
      /\ r.offer = offer /\ r.worth = worth /\ r.pair = row.pair /\ r.amount = row.amount
  <2>1. table' = [table EXCEPT ![j] = r]
      BY <1>2 DEF update_base, Written
  <2> HIDE DEF row
  <2>2. r.offer = offer /\ r.worth = worth /\ r.pair = row.pair /\ r.amount = row.amount
      BY <1>1 DEF Written, RowSet, row
  <2> QED
      BY <2>1, <2>2
<1> HIDE DEF r
<1>5. /\ NotANumber.side = 0 /\ Refund(row).side = 1 /\ Exchange(row, price.value).side = 2
    BY DEF NotANumber, Refund, Exchange
<1>6. \/ offer = NotANumber
      \/ offer = Refund(row)
      \/ price.is = "number" /\ offer = Exchange(row, price.value)
    BY DEF OfferFor, offer
<1>7. /\ Refund(r) = Refund(row) /\ Exchange(r, price.value) = Exchange(row, price.value)
    BY <1>4 DEF Refund, Exchange
<1>8. ASSUME r.offer.side = 2 PROVE AtPrice(r)
  <2>1. price.is = "number" /\ offer = Exchange(row, price.value)
      BY <1>4, <1>5, <1>6, <1>8
  <2>2. /\ price = GetPrice(r.pair[1], r.pair[2], r.amount, books[1], books[2])
        /\ r.worth = Worth(r.pair[1], r.pair[2], r.amount, books[1], books[2])
      BY <1>4 DEF price, worth
  <2> QED
      BY <1>3, <1>4, <1>7, <2>1, <2>2 DEF AtPrice
<1>9. r.offer.side = 1 => r.offer = Refund(r)
    BY <1>4, <1>5, <1>6, <1>7
<1>10. Priced(r)
    BY <1>8, <1>9 DEF Priced
<1> QED
    BY <1>4, <1>10, PricedStays

LEMMA NoPricePriced ==
    ASSUME Inv, Inv', MoneyInv, NoPrice
    PROVE  \A i \in Id : table'[i] \in RowSet => Priced(table'[i])
<1>1. PICK j \in Id : j = at["decode"] /\ table[j] \in RowSet
    BY AtRow DEF NoPrice
<1> DEFINE r == Written(table[j], NotANumber, 0, "illegaled")
<1>2. table' = update_base(j, NotANumber, 0, "illegaled")
    BY <1>1 DEF NoPrice
<1>4. table' = [table EXCEPT ![j] = r] /\ r.offer = NotANumber
    BY <1>1, <1>2 DEF update_base, Written, RowSet
<1> HIDE DEF r
<1>5. Priced(r)
    BY <1>4, Unpriced
<1> QED
    BY <1>4, <1>5, PricedStays

LEMMA RecordedPriced ==
    ASSUME Inv, Inv', MoneyInv, PaymentRecorded
    PROVE  \A i \in Id : table'[i] \in RowSet => Priced(table'[i])
<1>1. PICK j \in Id : j = at["pay"] /\ table[j] \in RowSet
    BY AtRow DEF PaymentRecorded
<1> DEFINE r == [table[j] EXCEPT !.quote = "successful"]
<1>2. /\ r.offer = table[j].offer /\ r.worth = table[j].worth
      /\ r.pair = table[j].pair /\ r.amount = table[j].amount
    BY <1>1 DEF RowSet
<1>3. table' = [table EXCEPT ![j] = r]
    BY <1>1 DEF PaymentRecorded, update_quote, Inv, Typed
<1>4. Priced(table[j])
    BY <1>1 DEF MoneyInv
<1> HIDE DEF r
<1>5. Refund(r) = Refund(table[j]) /\ \A v : Exchange(r, v) = Exchange(table[j], v)
    BY <1>2 DEF Exchange, Refund
<1>6. AtPrice(table[j]) => AtPrice(r)
    BY <1>2, <1>5 DEF AtPrice
<1>7. Priced(r)
    BY <1>2, <1>4, <1>5, <1>6 DEF Priced
<1> QED
    BY <1>3, <1>7, PricedStays

LEMMA RowsPriced ==
    ASSUME Inv, Inv', MoneyInv, [Next]_vars
    PROVE  \A i \in Id : table'[i] \in RowSet => Priced(table'[i])
<1>1. CASE UNCHANGED table
    BY <1>1 DEF MoneyInv
<1>2. CASE \E i \in Id, kind \in Kinds, pair \in Pairs, amount \in BaseAmounts :
              Ask(i, kind, pair, amount)
    BY <1>2, AskPriced
<1>3. CASE (\E orders \in Books : FillBooks(orders) \/ RefreshBooks(orders)) \/ EmptyBooks
    BY <1>1, <1>3 DEF FillBooks, RefreshBooks, EmptyBooks
<1>4. CASE DecodeFails \/ DecodeThrows \/ \E i \in Id : Pick(i)
    BY <1>1, <1>4 DEF DecodeFails, DecodeThrows, Pick
<1>5. CASE PaymentNotRecorded \/ Restart
    BY <1>1, <1>5 DEF PaymentNotRecorded, Restart
<1>6. CASE \E i \in Id : Pay(i) \/ ReplyLost(i)
    BY <1>1, <1>6 DEF Pay, ReplyLost, Send
<1>7. CASE UNCHANGED vars
    BY <1>1, <1>7 DEF vars
<1> QED
    BY <1>2, <1>3, <1>4, <1>5, <1>6, <1>7, DecodePriced, NoPricePriced, RecordedPriced
    DEF Next, DecodeLoop, PayLoop, Accident

LEMMA MoneyNext == Inv /\ Inv' /\ MoneyInv /\ [Next]_vars => MoneyInv'
<1> SUFFICES ASSUME Inv, Inv', MoneyInv, [Next]_vars PROVE MoneyInv'
    OBVIOUS
<1>1. pc'["decode"] \in {"idle", "decode", "dead"} /\ pc'["pay"] \in {"idle", "record"}
    BY StepsOfLoops
<1>2. troubles' \in Nat
    BY TroublesCounted
<1>3. pool' \in [Token -> Nat] /\ sent' \in [Id -> Seq(Offer)]
    BY PoolStep
<1>4. \A i \in Id : table'[i] \in RowSet => Priced(table'[i])
    BY RowsPriced
<1> QED
    BY <1>1, <1>2, <1>3, <1>4 DEF MoneyInv

LEMMA MoneyAlways == Spec => [](Inv /\ MoneyInv)
<1>1. Inv /\ MoneyInv /\ [Next]_vars => (Inv /\ MoneyInv)'
    BY InvNext, MoneyNext
<1>2. Init => Inv /\ MoneyInv
    BY InvInit, MoneyInit
<1> QED
    BY <1>1, <1>2, PTL DEF Spec

----------------------------------------------------------------------------
(* The theorems.                                                           *)

LEMMA PaidIfInv == Inv => PaidAsOffered
<1> SUFFICES ASSUME Inv, NEW i \in Id
             PROVE  /\ i \notin doubtful => Len(sent[i]) <= 1
                    /\ \A n \in DOMAIN sent[i] : sent[i][n] = table[i].offer
    BY DEF PaidAsOffered
<1>1. RowOK(table[i], sent[i], Decoding(i), Paying(i), i \notin doubtful)
    BY RowFacts
<1>2. i \notin doubtful => Len(sent[i]) \in {0, 1}
    BY <1>1 DEF RowOK
<1>3. DOMAIN sent[i] = 1 .. Len(sent[i])
    BY RowFacts
<1> QED
    BY <1>1, <1>2, <1>3 DEF RowOK

(* Whatever is sent for a row is what it was offered, and it is sent once  *)
(* although the payment is made before it is recorded, unless the row met  *)
(* an accident: the transfers of quoteTXProcessLoop.                       *)
THEOREM AlwaysPaidAsOffered == Spec => []PaidAsOffered
  BY PaidIfInv, Always, PTL

(* The tables and the pool are what the program takes them for; the pool   *)
(* never owes anything, and whatever is sent is a number: transfer.        *)
THEOREM TypeCorrect == Spec => []TypeOK
<1>1. ASSUME Inv, MoneyInv PROVE TypeOK
  <2>1. table \in [Id -> Row \cup {NoRow}]
    <3>1. RowSet \subseteq Row
        BY MoneyTypes DEF RowSet, Row
    <3> QED
        BY <1>1, <3>1 DEF Inv, Typed
  <2>2. snapshot \in {order_book_v2(orders) : orders \in Books} \cup {NoBooks}
      BY <1>1 DEF Inv, Typed, BookSet
  <2>3. \A l \in Loop : at[l] = 0 <=> pc[l] \in {"idle", "dead"}
      BY <1>1 DEF Inv, Typed, MoneyInv, Loop
  <2>4. doubtful \subseteq Id
      BY <1>1 DEF Inv, Typed
  <2> QED
      BY <1>1, <2>1, <2>2, <2>3, <2>4 DEF TypeOK, Inv, Typed, MoneyInv
<1> QED
    BY <1>1, MoneyAlways, PTL

(* An amount times the nearest unit of its price is its value, but for the *)
(* rounding.                                                               *)
Near(m, paid, worth) ==
    LET error == 500 * m + 1000 IN paid \in 1000 * worth - error .. 1000 * worth + error

LEMMA NearWorth ==
    ASSUME NEW m \in Nat \ {0}, NEW value \in Nat
    PROVE  Near(m, 995 * m * Rounded(value, m) + 5 * m * Rounded(value, m), Unit * value)
<1> DEFINE q == Rounded(value, m)
           t == m * q
           w == Unit * value
<1>1. q \in Nat /\ 2 * t <= 2 * w + m /\ 2 * w <= 2 * t + m
    BY RoundedFacts
<1>2. t \in Nat /\ w \in Nat
    BY <1>1, UnitAssumption, Products
<1>3. 995 * m * q = 995 * t /\ 5 * m * q = 5 * t
  <2>1. \A c \in Nat : (c * m) * q = c * (m * q)
      BY <1>1, Products
  <2>2. 995 \in Nat /\ 5 \in Nat
      OBVIOUS
  <2> QED
      BY <2>1, <2>2
<1> HIDE DEF q, t, w
<1>4. 995 * t + 5 * t \in 1000 * w - (500 * m + 1000) .. 1000 * w + (500 * m + 1000)
    BY <1>1, <1>2
<1> QED
    BY <1>3, <1>4 DEF q, w, Near

(* Users who ask for CNYC get what they were offered, once, for a base     *)
(* that reached the express account; what they get and the fee together    *)
(* are, but for the rounding, the most that their base could be sold for   *)
(* in one and the same state of the books, or the base goes back:          *)
(* get_price, baseTXDecodeLoop and quoteTXProcessLoop.                     *)
THEOREM AlwaysFairDeal == Spec => []FairDeal
<1>1. ASSUME Inv, MoneyInv PROVE FairDeal
  <2>1. ASSUME NEW i \in Id, sent[i] # <<>>, table[i].pair[2] = "CNYC"
        PROVE  Deal(table[i])
    <3> DEFINE row == table[i]
    <3>1. RowOK(row, sent[i], Decoding(i), Paying(i), i \notin doubtful)
        BY <1>1, RowFacts
    <3>2. row # NoRow /\ row.kind = "good"
        BY <2>1, <3>1 DEF RowOK
    <3>3. row \in RowSet
        BY <1>1, <3>2, RowFacts
    <3>4. Priced(row) /\ row.pair \in Pairs /\ row.amount \in BaseAmounts
        BY <1>1, <3>3 DEF MoneyInv, RowSet
    <3>5. row.pair[2] = "CNYC"
        BY <2>1
    <3>6. row.amount \in Nat \ {0}
        BY <3>4, AmountAssumption
    <3> HIDE DEF row
    <3>7. ASSUME row.offer.side = 2
          PROVE  LET paid == row.offer.amount + row.offer.fee
                     error == 500 * row.amount + 1000 IN
                 paid \in 1000 * row.worth - error .. 1000 * row.worth + error
      <4>1. PICK books \in BookSet :
               /\ row.offer = Exchange(row, GetPrice(row.pair[1], row.pair[2], row.amount,
                                                     books[1], books[2]).value)
               /\ row.worth = Worth(row.pair[1], row.pair[2], row.amount, books[1], books[2])
          BY <3>4, <3>7 DEF Priced, AtPrice
      <4>2. PICK value \in Nat :
               /\ GetPrice(row.pair[1], row.pair[2], row.amount, books[1], books[2])
                     = Number(Rounded(value, row.amount))
               /\ Worth(row.pair[1], row.pair[2], row.amount, books[1], books[2]) = Unit * value
          BY <3>4, <3>5, PriceFacts
      <4>3. row.offer = Exchange(row, Rounded(value, row.amount)) /\ row.worth = Unit * value
          BY <4>1, <4>2 DEF Number
      <4>4. /\ row.offer.amount = 995 * row.amount * Rounded(value, row.amount)
            /\ row.offer.fee = 5 * row.amount * Rounded(value, row.amount)
          BY <4>3 DEF Exchange
      <4>5. Near(row.amount, row.offer.amount + row.offer.fee, row.worth)
          BY <3>6, <4>3, <4>4, NearWorth
      <4> QED
          BY <4>5 DEF Near
    <3>8. row.offer.side = 1 => row.offer.amount = 1000 * Unit * row.amount
        BY <3>4 DEF Priced, Refund
    <3> QED
        BY <3>2, <3>7, <3>8 DEF Deal, row
  <2>2. PaidAsOffered
      BY <1>1, PaidIfInv
  <2> QED
      BY <2>1, <2>2 DEF FairDeal
<1> QED
    BY <1>1, MoneyAlways, PTL

LEMMA StageIs ==
    ASSUME NEW i
    PROVE  /\ i \notin doubtful => StageOf(i) = Stage(table[i], sent[i])
           /\ i \notin doubtful' => StageOf(i)' = Stage(table'[i], sent'[i])
           /\ i \in doubtful /\ table[i] # NoRow => StageOf(i) = "doubtful"
           /\ i \in doubtful' /\ table'[i] # NoRow => StageOf(i)' = "doubtful"
<1>1. i \notin doubtful => StageOf(i) = Stage(table[i], sent[i])
    BY DEF StageOf, Stage
<1>2. i \notin doubtful' => StageOf(i)' = Stage(table'[i], sent'[i])
    BY DEF StageOf, Stage
<1>3. /\ i \in doubtful /\ table[i] # NoRow => StageOf(i) = "doubtful"
      /\ i \in doubtful' /\ table'[i] # NoRow => StageOf(i)' = "doubtful"
    BY DEF StageOf
<1> QED
    BY <1>1, <1>2, <1>3

Stages == [i \in Id |-> StageOf(i)]

(* A step that leaves the rows alone, or puts them in doubt, is a Doubt of *)
(* the ledger; one that is about a row moves it, leaves its stage or puts  *)
(* it in doubt.                                                            *)
LEMMA LedgerStep ==
    ASSUME Inv, Inv', Rests \/ \E j \in Id : Advances(j)
    PROVE  [Ledger!Next]_Stages
<1> DEFINE Same(i) == table'[i] = table[i] /\ sent'[i] = sent[i]
<1>1. \A i \in Id : /\ i \in doubtful => StageOf(i) = "doubtful"
                    /\ i \in doubtful' => StageOf(i)' = "doubtful"
    BY StageIs, NoRowFacts DEF Inv, Typed
<1>2. doubtful \subseteq doubtful'
    BY DEF Rests, Advances
<1>3. ASSUME NEW i \in Id, Same(i), i \notin doubtful'
      PROVE  StageOf(i)' = StageOf(i)
    BY <1>2, <1>3, StageIs
<1>4. \A i \in Id : table[i] \in RowSet => StageOf(i) # "none"
    BY NoRowFacts DEF StageOf
<1> HIDE DEF Same
<1>5. ASSUME \A i \in Id \ doubtful' : Same(i),
             \A i \in doubtful' \ doubtful : table[i] \in RowSet
      PROVE  Ledger!Next
  <2>1. doubtful' \subseteq Id
      BY DEF Inv, Typed
  <2>2. \A i \in doubtful' : Stages[i] # "none"
      BY <1>1, <1>4, <1>5, <2>1 DEF Stages
  <2>3. Stages' = [i \in Id |-> IF i \in doubtful' THEN "doubtful" ELSE Stages[i]]
      BY <1>1, <1>3, <1>5 DEF Stages
  <2>4. Ledger!Doubt(doubtful')
      BY <2>2, <2>3 DEF Ledger!Doubt, Stages
  <2> QED
      BY <2>1, <2>4 DEF Ledger!Next
<1>6. CASE Rests
  <2>1. \A i \in Id : Same(i)
      BY <1>6 DEF Rests, Same
  <2>2. \A i \in doubtful' : table[i] \in RowSet
      BY <1>6 DEF Rests, Inv, Typed
  <2> QED
      BY <1>5, <2>1, <2>2
<1>7. ASSUME NEW j \in Id, Advances(j) PROVE [Ledger!Next]_Stages
  <2>1. \A i \in Id \ {j} : Same(i)
      BY <1>7 DEF Advances, Same
  <2>2. CASE j \in doubtful' /\ table[j] # NoRow
    <3>1. \A i \in Id \ doubtful' : Same(i)
        BY <2>1, <2>2
    <3>2. \A i \in doubtful' \ doubtful : table[i] \in RowSet
        BY <1>7, <2>2 DEF Inv, Typed, Advances
    <3> QED
        BY <1>5, <3>1, <3>2
  <2>3. CASE doubtful' = doubtful /\ j \in doubtful
    <3>1. \A i \in Id : StageOf(i)' = StageOf(i)
        BY <1>1, <1>3, <2>1, <2>3
    <3> QED
        BY <3>1 DEF Stages
  <2>4. CASE doubtful' = doubtful /\ j \notin doubtful
    <3>1. MayMove(StageOf(j), StageOf(j)')
        BY <1>7, <2>4, StageIs DEF Advances, Moves
    <3>2. \A i \in Id \ {j} : StageOf(i)' = StageOf(i)
        BY <1>1, <1>3, <2>1, <2>4
    <3>3. Stages' = [Stages EXCEPT ![j] = StageOf(j)']
        BY <3>2 DEF Stages
    <3>4. Stages[j] = StageOf(j)
        BY DEF Stages
    <3>5. CASE StageOf(j) = StageOf(j)'
        BY <3>3, <3>4, <3>5 DEF Stages
    <3>6. CASE StageOf(j) = "none" /\ StageOf(j)' \in {"requested", "taken"}
      <4>1. Ledger!Request(j)
          BY <3>3, <3>4, <3>6 DEF Ledger!Request, Ledger!Move, Stages
      <4> QED
          BY <4>1 DEF Ledger!Next
    <3>7. CASE StageOf(j) = "requested" /\ StageOf(j)' \in {"taken", "refused"}
      <4>1. Ledger!Take(j) \/ Ledger!Refuse(j)
          BY <3>3, <3>4, <3>7 DEF Ledger!Take, Ledger!Refuse, Ledger!Move, Stages
      <4> QED
          BY <4>1 DEF Ledger!Next
    <3>8. CASE StageOf(j) = "taken" /\ StageOf(j)' = "paid"
      <4>1. Ledger!Pay(j)
          BY <3>3, <3>4, <3>8 DEF Ledger!Pay, Ledger!Move, Stages
      <4> QED
          BY <4>1 DEF Ledger!Next
    <3> QED
        BY <3>1, <3>5, <3>6, <3>7, <3>8 DEF MayMove
  <2> QED
      BY <1>7, <2>2, <2>3, <2>4 DEF Advances
<1> QED
    BY <1>6, <1>7

(* For every request, whatever goes wrong for others: a base that reached  *)
(* the express account is never refused, what was not taken is not paid,   *)
(* and what is paid or refused is over: the two loops of express_watcher.  *)
THEOREM PromisesKept == Spec => KeepsPromises
<1>1. Init => Ledger!Init
  <2> SUFFICES ASSUME Init PROVE Ledger!Init
      OBVIOUS
  <2>1. \A i \in Id : StageOf(i) = "none"
      BY DEF Init, StageOf
  <2> QED
      BY <2>1 DEF Ledger!Init
<1>2. Inv /\ Inv' /\ [Next]_vars => [Ledger!Next]_Stages
    BY EveryStep, LedgerStep
<1>3. Spec => Ledger!Init /\ [][Ledger!Next]_Stages
    BY <1>1, <1>2, Always, PTL DEF Spec
<1> QED
    BY <1>3, PTL DEF KeepsPromises, Ledger!Spec, Stages

=============================================================================
