---------------------------- MODULE ConsoleProofs ----------------------------
(* The console's ring is two sequences, the finished characters and the line *)
(* being edited (module LineInput), and what a read returns is a line.       *)
EXTENDS Console, TLAPS, WellFoundedInduction, NaturalsInduction

\* What is typed and finished, and what is typed and can still be edited.
Ready == Span(r, w)
Line == Span(w, e)

-----------------------------------------------------------------------------
(* Indices that wrap *)

\* A number is determined by its quotient and its remainder.
LEMMA ModIs ==
  ASSUME NEW a \in Nat \ {0}, NEW q \in Int, NEW s \in 0..(a - 1), NEW x \in Int, x = a * q + s
  PROVE  x % a = s
<1> DEFINE d == (x \div a) - q
<1>1. x = a * (x \div a) + (x % a) /\ x \div a \in Int /\ x % a \in 0..(a - 1)
  OBVIOUS
<1>2. a * d = s - (x % a) /\ d \in Int
  BY <1>1
<1>3. CASE d >= 1
  <2>1. a * d >= a
    BY <1>2, <1>3
  <2> QED BY <1>1, <1>2, <2>1
<1>4. CASE d <= -1
  <2>1. a * d <= -a
    BY <1>2, <1>4
  <2> QED BY <1>1, <1>2, <2>1
<1>5. CASE d = 0
  BY <1>1, <1>2, <1>5
<1> QED
  BY <1>2, <1>3, <1>4, <1>5

\* Numbers that differ by less than the modulus have different remainders.
LEMMA ModDistinct ==
  ASSUME NEW a \in Nat \ {0}, NEW x \in Int, NEW y \in Int, x < y, y - x < a
  PROVE  x % a # y % a
<1> SUFFICES ASSUME x % a = y % a PROVE FALSE
  BY Zenon
<1> DEFINE d == (y \div a) - (x \div a)
<1>1. x = a * (x \div a) + (x % a) /\ y = a * (y \div a) + (y % a) /\ x \div a \in Int /\ y \div a \in Int
  OBVIOUS
<1>2. y - x = a * d /\ d \in Int
  BY <1>1
<1>3. CASE d >= 1
  <2>1. a * d >= a
    BY <1>2, <1>3
  <2> QED BY <1>2, <2>1
<1>4. CASE d <= 0
  <2>1. a * d <= 0
    BY <1>2, <1>4
  <2> QED BY <1>2, <2>1
<1> QED
  BY <1>2, <1>3, <1>4

\* The sizes of the ring and of its indices.
LEMMA Sizes ==
  /\ INPUT_BUF \in Nat \ {0} /\ UintMod \in Nat \ {0} /\ MaxRead \in Nat
  /\ INPUT_BUF < UintMod
BY ConsoleAssumption

\* A number is itself modulo 2^32 when it is a uint, and wraps otherwise.
LEMMA UintIs ==
  ASSUME NEW x \in Int
  PROVE  /\ Uint(x) \in 0..(UintMod - 1)
         /\ 0 <= x /\ x < UintMod => Uint(x) = x
         /\ UintMod <= x /\ x < 2 * UintMod => Uint(x) = x - UintMod
         /\ -UintMod <= x /\ x < 0 => Uint(x) = x + UintMod
<1> USE Sizes
<1>1. Uint(x) \in 0..(UintMod - 1)
  BY DEF Uint
<1>2. ASSUME 0 <= x, x < UintMod PROVE Uint(x) = x
  BY <1>2, x = UintMod * 0 + x, x \in 0..(UintMod - 1), ModIs DEF Uint
<1>3. ASSUME UintMod <= x, x < 2 * UintMod PROVE Uint(x) = x - UintMod
  BY <1>3, x = UintMod * 1 + (x - UintMod), x - UintMod \in 0..(UintMod - 1), ModIs DEF Uint
<1>4. ASSUME -UintMod <= x, x < 0 PROVE Uint(x) = x + UintMod
  BY <1>4, x = UintMod * (-1) + (x + UintMod), x + UintMod \in 0..(UintMod - 1), ModIs DEF Uint
<1> QED
  BY <1>1, <1>2, <1>3, <1>4, Zenon

\* The size of the ring divides 2^32, so an index may wrap at any time: the
\* place in the ring it stands for is the same.
LEMMA PlaceOf ==
  ASSUME NEW x \in Int
  PROVE  Uint(x) % INPUT_BUF = x % INPUT_BUF /\ x % INPUT_BUF \in 0..(INPUT_BUF - 1)
<1> USE Sizes
<1> DEFINE m == UintMod \div INPUT_BUF
           q == x \div UintMod
           s == Uint(x)
           t == s \div INPUT_BUF
           v == s % INPUT_BUF
           g == m * q + t
<1>1. UintMod = INPUT_BUF * m /\ m \in Int
  BY ConsoleAssumption
<1>2. x = UintMod * q + s /\ q \in Int /\ s \in Int
  BY DEF Uint
<1> HIDE DEF m, q, s
<1>3. s = INPUT_BUF * t + v /\ t \in Int /\ v \in 0..(INPUT_BUF - 1)
  BY <1>2
<1> HIDE DEF t, v
<1>4. x = INPUT_BUF * g + v /\ g \in Int
  BY <1>1, <1>2, <1>3
<1> HIDE DEF g
<1>5. x % INPUT_BUF = v
  BY <1>3, <1>4, ModIs, Zenon
<1> QED
  BY <1>3, <1>5, Zenon DEF s, v

\* An index that wrapped before a step names the same place after it.
LEMMA PlaceFrom ==
  ASSUME NEW x \in Int, NEW z \in Int
  PROVE  (Uint(x) + z) % INPUT_BUF = (x + z) % INPUT_BUF
<1> USE Sizes
<1> DEFINE m == UintMod \div INPUT_BUF
           q == x \div UintMod
           s == Uint(x)
           t == (x + z) \div INPUT_BUF
           u == (x + z) % INPUT_BUF
           g == t - m * q
           y == s + z
<1>1. UintMod = INPUT_BUF * m /\ m \in Int
  BY ConsoleAssumption
<1>2. x = UintMod * q + s /\ q \in Int /\ s \in Int
  BY DEF Uint
<1>3. x + z = INPUT_BUF * t + u /\ t \in Int /\ u \in 0..(INPUT_BUF - 1)
  OBVIOUS
<1> HIDE DEF m, q, s, t, u
<1>4. y = INPUT_BUF * g + u /\ g \in Int /\ y \in Int
  BY <1>1, <1>2, <1>3
<1> HIDE DEF g, y
<1>5. y % INPUT_BUF = u
  BY <1>3, <1>4, ModIs
<1> QED
  BY <1>5, Zenon DEF s, u, y

-----------------------------------------------------------------------------
(* Going round the ring *)

\* The uints, the index k on from x, how far y is from x, and the place of the jth
\* character from x on.
Uints == 0..(UintMod - 1)
On(x, k) == Uint(x + k)
Dist(x, y) == Uint(y - x)
Place(x, j) == (x + j - 1) % INPUT_BUF

\* An index k steps on is at distance k.
LEMMA Along ==
  ASSUME NEW x \in Uints, NEW k \in 0..INPUT_BUF
  PROVE  On(x, k) \in Uints /\ Dist(x, On(x, k)) = k
<1> USE Sizes DEF On, Dist, Uints
<1>1. Uint(x + k) \in Uints /\ (Uint(x + k) = x + k \/ Uint(x + k) = x + k - UintMod)
  BY UintIs
<1> QED
  BY <1>1, UintIs

\* One step after the other.
LEMMA Onward ==
  ASSUME NEW x \in Uints, NEW k \in 0..INPUT_BUF, NEW l \in 0..INPUT_BUF, k + l <= INPUT_BUF
  PROVE  On(On(x, k), l) = On(x, k + l)
<1> USE Sizes DEF On, Uints
<1>1. Uint(x + k) \in Uints /\ (Uint(x + k) = x + k \/ Uint(x + k) = x + k - UintMod)
  BY UintIs
<1>2. CASE Uint(x + k) = x + k
  BY <1>2
<1>3. CASE Uint(x + k) = x + k - UintMod
  BY <1>1, <1>3, UintIs
<1> QED
  BY <1>1, <1>2, <1>3, Zenon

\* Steps back.
LEMMA Back ==
  ASSUME NEW x \in Uints, NEW l \in 0..INPUT_BUF, NEW k \in 0..l
  PROVE  Uint(On(x, l) - k) = On(x, l - k)
<1> USE Sizes DEF On, Uints
<1>1. Uint(x + l) \in Uints /\ (Uint(x + l) = x + l \/ Uint(x + l) = x + l - UintMod)
  BY UintIs
<1>2. CASE Uint(x + l) = x + l
  BY <1>2
<1>3. CASE Uint(x + l) = x + l - UintMod
  BY <1>1, <1>3, UintIs
<1> QED
  BY <1>1, <1>2, <1>3, Zenon

\* The distance between two indices leads from one to the other.
LEMMA Apart ==
  ASSUME NEW x \in Uints, NEW y \in Uints
  PROVE  Dist(x, y) \in Uints /\ On(x, Dist(x, y)) = y /\ (Dist(x, y) = 0 <=> x = y)
<1> USE Sizes DEF On, Dist, Uints
<1>1. CASE y >= x
  BY <1>1, UintIs
<1>2. CASE y < x
  BY <1>2, UintIs
<1> QED
  BY <1>1, <1>2

\* A place of the ring.
LEMMA PlaceIn ==
  ASSUME NEW x \in Uints, NEW j \in Int
  PROVE  Place(x, j) \in 0..(INPUT_BUF - 1) /\ Uint(x + j - 1) % INPUT_BUF = Place(x, j)
BY Sizes, PlaceOf, x + j - 1 \in Int, Zenon DEF Place, Uints

\* The ring's size divides 2^32, so its places follow the indices also where they wrap.
LEMMA PlaceOn ==
  ASSUME NEW x \in Uints, NEW k \in 0..INPUT_BUF, NEW j \in Int
  PROVE  Place(On(x, k), j) = Place(x, k + j)
<1> USE Sizes DEF Uints
<1>1. (Uint(x + k) + (j - 1)) % INPUT_BUF = (x + k + (j - 1)) % INPUT_BUF
  BY PlaceFrom
<1>2. Uint(x + k) \in Int
  BY UintIs
<1>3. Uint(x + k) + (j - 1) = Uint(x + k) + j - 1 /\ x + k + (j - 1) = x + (k + j) - 1
  BY <1>2
<1> QED
  BY <1>1, <1>3, Zenon DEF Place, On

\* Indices less than the ring's size apart have different places.
LEMMA PlaceDistinct ==
  ASSUME NEW x \in Uints, NEW i \in Int, NEW j \in Int, i < j, j - i < INPUT_BUF
  PROVE  Place(x, i) # Place(x, j)
<1> USE Sizes DEF Uints
<1> DEFINE a == x + i - 1
           b == x + j - 1
<1>1. a \in Int /\ b \in Int /\ a < b /\ b - a < INPUT_BUF
  OBVIOUS
<1> HIDE DEF a, b
<1>2. a % INPUT_BUF # b % INPUT_BUF
  BY <1>1, ModDistinct, Zenon
<1> QED
  BY <1>2, Zenon DEF Place, a, b

\* k characters of the ring b from index x on.
Chars(b, x, k) == [j \in 1..k |-> b[Place(x, j)]]

\* The three indices of the ring.
RingAt(x, y, z) ==
  /\ x \in Uints /\ y \in Uints /\ z \in Uints
  /\ Dist(x, y) + Dist(y, z) = Dist(x, z)
  /\ Dist(x, z) <= INPUT_BUF
  /\ Dist(x, z) = INPUT_BUF => y = z

\* Indices R and L apart are those of a ring with R characters finished and L
\* more in the line.
LEMMA RingOf ==
  ASSUME NEW x \in Uints, NEW R \in Nat, NEW L \in Nat, R + L <= INPUT_BUF,
         R + L = INPUT_BUF => L = 0, NEW y, y = On(x, R), NEW z, z = On(x, R + L)
  PROVE  RingAt(x, y, z) /\ Dist(x, y) = R /\ Dist(y, z) = L /\ Dist(x, z) = R + L
<1> USE Sizes
<1>0. R \in 0..INPUT_BUF /\ L \in 0..INPUT_BUF /\ R + L \in 0..INPUT_BUF
  OBVIOUS
<1>1. y \in Uints /\ Dist(x, y) = R
  BY <1>0, Along, Zenon
<1>2. z \in Uints /\ Dist(x, z) = R + L
  BY <1>0, Along, Zenon
<1>3. z = On(y, L)
  BY <1>0, Onward, Zenon
<1>4. Dist(y, z) = L
  BY <1>0, <1>1, <1>3, Along, Zenon
<1> QED
  BY <1>1, <1>2, <1>4 DEF RingAt

\* The two sequences that the ring is.
LEMMA RingHas ==
  ASSUME RingAt(r, w, e)
  PROVE  /\ r \in Uints /\ Dist(r, w) \in Nat /\ Dist(w, e) \in Nat
         /\ Dist(r, w) + Dist(w, e) <= INPUT_BUF
         /\ Dist(r, w) + Dist(w, e) = INPUT_BUF => Dist(w, e) = 0
         /\ w = On(r, Dist(r, w)) /\ e = On(r, Dist(r, w) + Dist(w, e)) /\ e = On(w, Dist(w, e))
         /\ Ready = Chars(buf, r, Dist(r, w)) /\ Line = Chars(buf, w, Dist(w, e))
         /\ Len(Ready) = Dist(r, w) /\ Len(Line) = Dist(w, e)
<1> USE DEF RingAt
<1>1. Dist(r, w) \in Nat /\ Dist(w, e) \in Nat /\ w = On(r, Dist(r, w)) /\ e = On(w, Dist(w, e))
  BY Apart, Sizes DEF Uints
<1>2. e = On(r, Dist(r, w) + Dist(w, e))
  BY Apart
<1>3. Dist(r, w) + Dist(w, e) = INPUT_BUF => Dist(w, e) = 0
  BY Apart, Zenon
<1>4. Ready = Chars(buf, r, Dist(r, w))
  BY <1>1, PlaceIn DEF Ready, Span, At, Chars, Dist
<1>5. Line = Chars(buf, w, Dist(w, e))
  BY <1>1, PlaceIn DEF Line, Span, At, Chars, Dist
<1>6. Len(Ready) = Dist(r, w) /\ Len(Line) = Dist(w, e)
  BY <1>1, <1>4, <1>5 DEF Chars
<1> QED
  BY <1>1, <1>2, <1>3, <1>4, <1>5, <1>6, Zenon

\* The same of the next state.
LEMMA RingThen ==
  ASSUME RingAt(r, w, e)'
  PROVE  Ready' = Chars(buf', r', Dist(r', w')) /\ Line' = Chars(buf', w', Dist(w', e'))
<1> USE DEF RingAt
<1>1. Dist(r', w') \in Nat /\ Dist(w', e') \in Nat
  BY Apart, Sizes DEF Uints
<1>2. Ready' = Chars(buf', r', Dist(r', w'))
  BY <1>1, PlaceIn DEF Ready, Span, At, Chars, Dist
<1>3. Line' = Chars(buf', w', Dist(w', e'))
  BY <1>1, PlaceIn DEF Line, Span, At, Chars, Dist
<1> QED
  BY <1>2, <1>3, Zenon

-----------------------------------------------------------------------------
(* What a change of the indices does to the two sequences *)

\* d is b with a c behind the k characters from x on, and these are the same in both.
Behind(b, d, x, k, c) ==
  /\ \A j \in 1..k : d[Place(x, j)] = b[Place(x, j)]
  /\ d[Place(x, k + 1)] = c

\* A character stored behind k others: those stay.
LEMMA StoreChar ==
  ASSUME NEW T, NEW b \in [0..(INPUT_BUF - 1) -> T], NEW x \in Uints, NEW k \in 0..(INPUT_BUF - 1),
         NEW c
  PROVE  Behind(b, [b EXCEPT ![Place(x, k + 1)] = c], x, k, c)
<1> USE Sizes
<1> DEFINE d == [b EXCEPT ![Place(x, k + 1)] = c]
<1>1. Place(x, k + 1) \in 0..(INPUT_BUF - 1)
  BY PlaceIn, k + 1 \in Int, Zenon
<1>2. ASSUME NEW j \in 1..k PROVE d[Place(x, j)] = b[Place(x, j)]
  <2>1. Place(x, j) # Place(x, k + 1)
    BY PlaceDistinct, j \in Int, k + 1 \in Int, j < k + 1, (k + 1) - j < INPUT_BUF, Zenon
  <2>2. Place(x, j) \in 0..(INPUT_BUF - 1)
    BY PlaceIn, j \in Int, Zenon
  <2> QED
    BY <2>1, <2>2, Zenon
<1> QED
  BY <1>1, <1>2, Zenon DEF Behind

\* Where the next character goes.
LEMMA NextPlace ==
  ASSUME RingAt(r, w, e)
  PROVE  e % INPUT_BUF = Place(r, Dist(r, w) + Dist(w, e) + 1) /\ Uint(e + 1) = On(e, 1)
<1>1. e \in Int /\ e + 1 - 1 = e
  BY Sizes DEF RingAt, Uints
<1>2. e % INPUT_BUF = Place(e, 1)
  BY <1>1, Zenon DEF Place
<1>3. Dist(r, w) + Dist(w, e) \in 0..INPUT_BUF
  BY RingHas, Sizes
<1>4. Place(e, 1) = Place(r, Dist(r, w) + Dist(w, e) + 1)
  BY <1>3, RingHas, PlaceOn
<1> QED
  BY <1>2, <1>4, Zenon DEF On

\* The ring with R finished characters and L others has been given a c behind them,
\* and nothing else in it changes.
StoredAt(R, L, c) ==
  /\ R \in Nat /\ L \in Nat /\ R + L < INPUT_BUF /\ Len(Ready) = R /\ Len(Line) = L /\ r \in Uints
  /\ \A j \in 1..R : buf'[Place(r, j)] = Ready[j]
  /\ \A j \in 1..L : buf'[Place(r, R + j)] = Line[j] /\ buf'[Place(w, j)] = Line[j]
  /\ buf'[Place(r, R + L + 1)] = c /\ buf'[Place(w, L + 1)] = c
  /\ w = On(r, R) /\ Uint(e + 1) = On(r, R + L + 1)

\* A character is stored.
LEMMA StoredNext ==
  ASSUME RingAt(r, w, e), NEW T, buf \in [0..(INPUT_BUF - 1) -> T], Dist(r, e) < INPUT_BUF, NEW c,
         buf' = [buf EXCEPT ![e % INPUT_BUF] = c]
  PROVE  StoredAt(Dist(r, w), Dist(w, e), c)
<1>0. PICK R, L : R = Dist(r, w) /\ L = Dist(w, e)
  BY Zenon
<1> USE Sizes
<1>1. /\ R \in Nat /\ L \in Nat /\ R + L < INPUT_BUF /\ w = On(r, R) /\ e = On(r, R + L)
      /\ Ready = Chars(buf, r, R) /\ Line = Chars(buf, w, L) /\ r \in Uints /\ w \in Uints
      /\ Len(Ready) = R /\ Len(Line) = L
  BY <1>0, RingHas, Zenon DEF RingAt
<1>2. e % INPUT_BUF = Place(r, R + L + 1) /\ Uint(e + 1) = On(e, 1)
  BY <1>0, NextPlace, Zenon
<1>3. R + L \in 0..(INPUT_BUF - 1) /\ R \in 0..INPUT_BUF
  BY <1>1
<1>4. (\A j \in 1..(R + L) : buf'[Place(r, j)] = buf[Place(r, j)]) /\ buf'[Place(r, R + L + 1)] = c
  <2>1. PICK k : k = R + L
    BY Zenon
  <2>2. k \in 0..(INPUT_BUF - 1) /\ buf' = [buf EXCEPT ![Place(r, k + 1)] = c]
    BY <1>2, <1>3, <2>1, Zenon
  <2>3. Behind(buf, [buf EXCEPT ![Place(r, k + 1)] = c], r, k, c)
    BY <1>1, <2>2, StoreChar, Zenon
  <2> QED
    BY <2>1, <2>2, <2>3, Zenon DEF Behind
<1>5. On(e, 1) = On(r, R + L + 1)
  BY <1>1, <1>3, Onward
<1>6. \A j \in 1..L + 1 : Place(w, j) = Place(r, R + j)
  BY <1>1, <1>3, PlaceOn
<1>7. ASSUME NEW j \in 1..R PROVE buf'[Place(r, j)] = Ready[j]
  <2>1. j \in 1..(R + L)
    BY <1>1
  <2>2. Ready[j] = buf[Place(r, j)]
    BY <1>1, Zenon DEF Chars
  <2> QED
    BY <1>4, <2>1, <2>2, Zenon
<1>8. ASSUME NEW j \in 1..L PROVE buf'[Place(r, R + j)] = Line[j] /\ buf'[Place(w, j)] = Line[j]
  <2>1. R + j \in 1..(R + L) /\ j \in 1..L + 1
    BY <1>1
  <2>2. Line[j] = buf[Place(w, j)]
    BY <1>1, Zenon DEF Chars
  <2> QED
    BY <1>4, <1>6, <2>1, <2>2, Zenon
<1>9. buf'[Place(w, L + 1)] = c
  <2>1. L + 1 \in 1..L + 1 /\ R + (L + 1) = R + L + 1
    BY <1>1
  <2> QED
    BY <1>4, <1>6, <2>1, Zenon
<1>10. StoredAt(R, L, c)
  BY <1>1, <1>2, <1>4, <1>5, <1>7, <1>8, <1>9, Zenon DEF StoredAt
<1> QED
  BY <1>0, <1>10, Zenon

\* The elements of a concatenation.
LEMMA Joined ==
  ASSUME NEW T, NEW s \in Seq(T), NEW t \in Seq(T)
  PROVE  /\ s \o t \in Seq(T) /\ Len(s \o t) = Len(s) + Len(t)
         /\ \A j \in 1..Len(s) : (s \o t)[j] = s[j]
         /\ \A j \in 1..Len(t) : (s \o t)[Len(s) + j] = t[j]
OBVIOUS

\* A character is stored and the line goes on.
LEMMA Typed ==
  ASSUME RingAt(r, w, e), NEW T, buf \in [0..(INPUT_BUF - 1) -> T], Dist(r, e) < INPUT_BUF, NEW c,
         buf' = [buf EXCEPT ![e % INPUT_BUF] = c], e' = Uint(e + 1), r' = r, w' = w,
         Uint(e + 1) # Uint(r + INPUT_BUF), NEW U, Ready \in Seq(U), NEW V, Line \in Seq(V)
  PROVE  RingAt(r, w, e)' /\ Line' = Append(Line, c) /\ Ready' = Ready /\ Len(Line) + Len(Ready) + 1 < INPUT_BUF
<1> USE Sizes
<1>0. PICK R, L : R = Dist(r, w) /\ L = Dist(w, e)
  BY Zenon
<1>a. StoredAt(R, L, c)
  BY <1>0, StoredNext, Zenon
<1>1. /\ R \in Nat /\ L \in Nat /\ R + L < INPUT_BUF /\ Len(Ready) = R /\ Len(Line) = L /\ r \in Uints
      /\ \A j \in 1..R : buf'[Place(r, j)] = Ready[j]
      /\ \A j \in 1..L : buf'[Place(r, R + j)] = Line[j] /\ buf'[Place(w, j)] = Line[j]
      /\ buf'[Place(r, R + L + 1)] = c /\ buf'[Place(w, L + 1)] = c
      /\ w = On(r, R) /\ Uint(e + 1) = On(r, R + L + 1)
  BY <1>a, Zenon DEF StoredAt
<1>2. R + L + 1 < INPUT_BUF
  <2>1. On(r, R + L + 1) # On(r, INPUT_BUF)
    BY <1>1, Zenon DEF On
  <2>2. R + L + 1 # INPUT_BUF
    BY <2>1, Zenon
  <2>3. R \in Nat /\ L \in Nat /\ R + L < INPUT_BUF
    BY <1>1, Zenon
  <2> QED
    BY <2>2, <2>3
<1>3. RingAt(r, w, e)' /\ Dist(r', w') = R /\ Dist(w', e') = L + 1
  <2>1. e' = On(r', R + (L + 1)) /\ L + 1 \in Nat /\ R + (L + 1) < INPUT_BUF
    BY <1>1, <1>2, R + (L + 1) = R + L + 1
  <2> QED
    BY <1>1, <2>1, RingOf
<1>4. Ready' = Chars(buf', r, R) /\ Line' = Chars(buf', w, L + 1)
  BY <1>3, RingThen, Zenon
<1>6. Ready' = Ready
  BY <1>1, <1>4 DEF Chars
<1>7. Line' = Append(Line, c)
  <2> DEFINE s == Append(Line, c)
  <2>1. s \in Seq(V \cup {c}) /\ Len(s) = L + 1
    BY <1>1
  <2>2. ASSUME NEW j \in 1..L + 1 PROVE buf'[Place(w, j)] = s[j]
    <3>1. CASE j \in 1..L
      BY <1>1, <3>1
    <3>2. CASE j = L + 1
      BY <1>1, <3>2
    <3> QED
      BY <1>1, <3>1, <3>2
  <2> HIDE DEF s
  <2>3. Line' = s
    BY <1>1, <1>4, <2>1, <2>2 DEF Chars
  <2> QED
    BY <2>3, Zenon DEF s
<1> QED
  BY <1>1, <1>2, <1>3, <1>6, <1>7

\* A character is stored and finishes the line.
LEMMA Finished ==
  ASSUME RingAt(r, w, e), NEW T, buf \in [0..(INPUT_BUF - 1) -> T], Dist(r, e) < INPUT_BUF, NEW c,
         buf' = [buf EXCEPT ![e % INPUT_BUF] = c], e' = Uint(e + 1), r' = r, w' = Uint(e + 1),
         NEW U, Ready \in Seq(U), NEW V, Line \in Seq(V)
  PROVE  /\ RingAt(r, w, e)' /\ Line' = <<>> /\ Ready' = Ready \o Append(Line, c)
         /\ Len(Line) + Len(Ready) < INPUT_BUF
         /\ Uint(e + 1) = Uint(r + INPUT_BUF) => Len(Line) + Len(Ready) + 1 = INPUT_BUF
<1> USE Sizes
<1>0. PICK R, L : R = Dist(r, w) /\ L = Dist(w, e)
  BY Zenon
<1>a. StoredAt(R, L, c)
  BY <1>0, StoredNext, Zenon
<1>1. /\ R \in Nat /\ L \in Nat /\ R + L < INPUT_BUF /\ Len(Ready) = R /\ Len(Line) = L /\ r \in Uints
      /\ \A j \in 1..R : buf'[Place(r, j)] = Ready[j]
      /\ \A j \in 1..L : buf'[Place(r, R + j)] = Line[j] /\ buf'[Place(w, j)] = Line[j]
      /\ buf'[Place(r, R + L + 1)] = c /\ buf'[Place(w, L + 1)] = c
      /\ w = On(r, R) /\ Uint(e + 1) = On(r, R + L + 1)
  BY <1>a, Zenon DEF StoredAt
<1>2. RingAt(r, w, e)' /\ Dist(r', w') = R + L + 1 /\ Dist(w', e') = 0
  <2>1. PICK R1 : R1 = R + L + 1
    BY Zenon
  <2>2. R1 \in Nat /\ R1 + 0 <= INPUT_BUF /\ R1 + 0 = R1 /\ 0 \in Nat
    BY <1>1, <2>1
  <2>3. r' \in Uints /\ w' = On(r', R1) /\ e' = On(r', R1 + 0)
    BY <1>1, <2>1, <2>2, Zenon
  <2>4. RingAt(r', w', e') /\ Dist(r', w') = R1 /\ Dist(w', e') = 0
    BY <2>2, <2>3, RingOf
  <2> QED
    BY <2>1, <2>4, Zenon
<1>3. Ready' = Chars(buf', r, R + L + 1) /\ Line' = Chars(buf', w', 0)
  BY <1>2, RingThen, Zenon
<1>4. Line' = <<>>
  BY <1>3 DEF Chars
<1>5. Ready' = Ready \o Append(Line, c)
  <2> DEFINE s == Ready \o Append(Line, c)
  <2>1. Append(Line, c) \in Seq(V \cup {c}) /\ Len(Append(Line, c)) = L + 1
    BY <1>1
  <2>2. /\ s \in Seq(U \cup V \cup {c}) /\ Len(s) = R + L + 1
        /\ \A j \in 1..R : s[j] = Ready[j]
        /\ \A j \in 1..L + 1 : s[R + j] = Append(Line, c)[j]
    <3>1. Ready \in Seq(U \cup V \cup {c}) /\ Append(Line, c) \in Seq(U \cup V \cup {c})
      BY <2>1
    <3>2. PICK t : t = Append(Line, c)
      BY Zenon
    <3>3. R + (L + 1) = R + L + 1 /\ Len(Ready) = R /\ Len(t) = L + 1
      BY <1>1, <2>1, <3>2
    <3>4. /\ Ready \o t \in Seq(U \cup V \cup {c}) /\ Len(Ready \o t) = Len(Ready) + Len(t)
          /\ \A j \in 1..Len(Ready) : (Ready \o t)[j] = Ready[j]
          /\ \A j \in 1..Len(t) : (Ready \o t)[Len(Ready) + j] = t[j]
      BY <3>1, <3>2, Joined
    <3> QED
      BY <3>2, <3>3, <3>4, Zenon
  <2>3. \A j \in 1..R : s[j] = Ready[j]
    BY <2>2, Zenon
  <2>4. ASSUME NEW j \in 1..L PROVE s[R + j] = Line[j]
    <3>1. j \in 1..L + 1 /\ Append(Line, c)[j] = Line[j]
      BY <1>1
    <3> QED
      BY <2>2, <3>1, Zenon
  <2>5. s[R + L + 1] = c
    <3>1. L + 1 \in 1..L + 1 /\ Append(Line, c)[L + 1] = c /\ R + (L + 1) = R + L + 1
      BY <1>1
    <3>2. s[R + (L + 1)] = Append(Line, c)[L + 1]
      BY <2>2, <3>1, Zenon
    <3> QED
      BY <3>1, <3>2, Zenon
  <2> HIDE DEF s
  <2>6. ASSUME NEW j \in 1..(R + L + 1) PROVE buf'[Place(r, j)] = s[j]
    <3>1. CASE j \in 1..R
      BY <1>1, <2>3, <3>1, Zenon
    <3>2. CASE j \in R + 1..R + L
      <4>1. j - R \in 1..L /\ R + (j - R) = j
        BY <1>1, <3>2
      <4> QED
        BY <1>1, <2>4, <4>1, ZenonT(60)
    <3>3. CASE j = R + L + 1
      BY <1>1, <2>5, <3>3, Zenon
    <3>4. j \in 1..R \/ j \in R + 1..R + L \/ j = R + L + 1
      <4>1. R \in Nat /\ L \in Nat
        BY <1>1, Zenon
      <4> QED
        BY <4>1
    <3> QED
      BY <3>1, <3>2, <3>3, <3>4, Zenon
  <2>7. Ready' = s
    BY <1>1, <1>3, <2>2, <2>6 DEF Chars
  <2> QED
    BY <2>7, Zenon DEF s
<1>6. On(r, R + L + 1) = On(r, INPUT_BUF) => R + L + 1 = INPUT_BUF
  <2>1. R + L + 1 \in 0..INPUT_BUF /\ INPUT_BUF \in 0..INPUT_BUF
    BY <1>1
  <2> QED
    BY <1>1, <2>1, Along, Zenon
<1> QED
  BY <1>1, <1>2, <1>4, <1>5, <1>6 DEF On

\* The line gets k characters shorter.
LEMMA Erased ==
  ASSUME RingAt(r, w, e), NEW k \in 0..Dist(w, e), e' = Uint(e - k), UNCHANGED <<buf, r, w>>,
         NEW V, Line \in Seq(V)
  PROVE  RingAt(r, w, e)' /\ Line' = SubSeq(Line, 1, Len(Line) - k) /\ Ready' = Ready /\ k <= Len(Line)
<1> USE Sizes
<1>0. PICK R, L : R = Dist(r, w) /\ L = Dist(w, e)
  BY Zenon
<1>1. /\ R \in Nat /\ L \in Nat /\ R + L <= INPUT_BUF /\ (R + L = INPUT_BUF => L = 0)
      /\ w = On(r, R) /\ e = On(r, R + L) /\ r \in Uints
      /\ Ready = Chars(buf, r, R) /\ Line = Chars(buf, w, L) /\ Len(Line) = L
  BY <1>0, RingHas, Zenon
<1>2. k \in 0..L
  BY <1>0, Zenon
<1>3. e' = On(r', R + (L - k))
  <2>1. R + L \in 0..INPUT_BUF /\ k \in 0..(R + L) /\ R + L - k = R + (L - k)
    BY <1>1, <1>2
  <2> QED
    BY <1>1, <2>1, Back
<1>4. L - k \in Nat /\ R + (L - k) <= INPUT_BUF /\ (R + (L - k) = INPUT_BUF => L - k = 0)
  BY <1>1, <1>2
<1>5. RingAt(r, w, e)' /\ Dist(r', w') = R /\ Dist(w', e') = L - k
  BY <1>1, <1>3, <1>4, RingOf
<1>6. Ready' = Chars(buf, r, R) /\ Line' = Chars(buf, w, L - k)
  BY <1>5, RingThen, Zenon
<1>7. Line' = SubSeq(Line, 1, L - k)
  BY <1>1, <1>2, <1>4, <1>6 DEF Chars
<1> QED
  BY <1>1, <1>2, <1>5, <1>6, <1>7

\* What is left of a sequence without its first k elements.
LEMMA Suffix ==
  ASSUME NEW U, NEW q \in Seq(U), NEW R, R = Len(q), NEW k \in 0..R
  PROVE  /\ SubSeq(q, k + 1, R) \in Seq(U) /\ Len(SubSeq(q, k + 1, R)) = R - k
         /\ \A j \in 1..(R - k) : SubSeq(q, k + 1, R)[j] = q[k + j]
<1>1. R \in Nat
  OBVIOUS
<1> QED
  BY <1>1

\* The first k characters are taken.
LEMMA Consumed ==
  ASSUME RingAt(r, w, e), NEW k \in 0..Dist(r, w), r' = Uint(r + k), UNCHANGED <<buf, w, e>>,
         NEW U, Ready \in Seq(U)
  PROVE  RingAt(r, w, e)' /\ Ready' = SubSeq(Ready, k + 1, Len(Ready)) /\ Line' = Line
         /\ Uint(r' - r) = k /\ k <= Len(Ready)
<1> USE Sizes
<1>0. PICK R, L : R = Dist(r, w) /\ L = Dist(w, e)
  BY Zenon
<1>1. /\ R \in Nat /\ L \in Nat /\ R + L <= INPUT_BUF /\ (R + L = INPUT_BUF => L = 0)
      /\ w = On(r, R) /\ e = On(r, R + L) /\ r \in Uints
      /\ Ready = Chars(buf, r, R) /\ Line = Chars(buf, w, L) /\ Len(Ready) = R
  BY <1>0, RingHas, Zenon
<1>2. k \in 0..R /\ r' = On(r, k)
  BY <1>0, Zenon DEF On
<1>3. /\ R - k \in Nat /\ (R - k) + L <= INPUT_BUF /\ ((R - k) + L = INPUT_BUF => L = 0)
      /\ k \in 0..INPUT_BUF /\ R - k \in 0..INPUT_BUF /\ (R - k) + L \in 0..INPUT_BUF
      /\ k + (R - k) = R /\ k + ((R - k) + L) = R + L
  BY <1>1, <1>2
<1>4. r' \in Uints /\ Dist(r, r') = k
  BY <1>1, <1>2, <1>3, Along, Zenon
<1>5. w' = On(r', R - k) /\ e' = On(r', (R - k) + L)
  <2>1. On(On(r, k), R - k) = On(r, R)
    BY <1>1, <1>3, Onward
  <2>2. On(On(r, k), (R - k) + L) = On(r, R + L)
    BY <1>1, <1>3, Onward
  <2> QED
    BY <1>1, <1>2, <2>1, <2>2, Zenon
<1>6. RingAt(r, w, e)' /\ Dist(r', w') = R - k /\ Dist(w', e') = L
  BY <1>1, <1>3, <1>4, <1>5, RingOf
<1>7. Ready' = Chars(buf, r', R - k) /\ Line' = Chars(buf, w, L)
  BY <1>6, RingThen, Zenon
<1>8. Ready' = SubSeq(Ready, k + 1, R)
  <2> DEFINE s == SubSeq(Ready, k + 1, R)
  <2>1. s \in Seq(U) /\ Len(s) = R - k /\ \A j \in 1..(R - k) : s[j] = Ready[k + j]
    <3>1. R = Len(Ready) /\ k \in 0..R
      BY <1>1, <1>2, Zenon
    <3> HIDE Sizes
    <3> QED
      BY <3>1, Suffix
  <2> HIDE DEF s
  <2>2. ASSUME NEW j \in 1..(R - k) PROVE buf[Place(r', j)] = s[j]
    <3>1. k + j \in 1..R /\ j \in Int
      BY <1>1, <1>2
    <3>2. Place(r', j) = Place(r, k + j)
      BY <1>1, <1>2, <1>3, <3>1, PlaceOn
    <3>3. Ready[k + j] = buf[Place(r, k + j)]
      BY <1>1, <3>1, Zenon DEF Chars
    <3> QED
      BY <2>1, <3>2, <3>3, Zenon
  <2>3. Ready' = s
    BY <1>3, <1>7, <2>1, <2>2, SMTT(40), Z3T(40) DEF Chars
  <2> QED
    BY <2>3, Zenon DEF s
<1> QED
  BY <1>1, <1>2, <1>4, <1>6, <1>7, <1>8 DEF Dist

-----------------------------------------------------------------------------
(* The invariant *)

\* The next thing to read is an end of file.
EofNext == Len(Ready) > 0 /\ Ready[1] = "^D"

\* The types; what is stored by a read is a sequence for every process.
Types == TypeOK /\ dst \in [Procs -> Seq(Letters \cup {"\n"})]

\* A line being edited has no end yet: ^U need not look for one.
Contents == Ready \in Seq(Stored) /\ Line \in Seq(Letters)

\* Who is in consoleread or consolewrite has the lock of the inode, and a read that
\* goes on has not met the end of a line.
Calls == \A p \in Procs :
  /\ pc[p] \in {"read", "write", "asleep", "done"} => ilock = p
  /\ pc[p] \in {"read", "asleep"} => op[p] = "read" /\ dst[p] \in Seq(Letters)
  /\ pc[p] \in {"user", "lock", "write"} => dst[p] = <<>>
  /\ pc[p] = "write" => op[p] = "write"

\* WholeLine, said of the sequence of finished characters.
ReadsLine(p) ==
  /\ result[p] = Len(dst[p])
  /\ \A i \in 1..(result[p] - 1) : dst[p][i] # "\n"
  /\ result[p] \in 1..(target[p] - 1) => dst[p][result[p]] = "\n" \/ EofNext
Returned == \A p \in Procs : pc[p] = "done" /\ op[p] = "read" /\ result[p] # -1 => ReadsLine(p)

IInv == Types /\ RingAt(r, w, e) /\ Contents /\ Calls /\ Returned

\* A step of the two sequences, or none.
LineStep == Lines!LNext \/ (Line' = Line /\ Ready' = Ready)

\* The ends of a line are no letters.
LEMMA Ends ==
  "\n" \notin Letters /\ "^D" \notin Letters /\ "none" \notin Stored /\ Letters \subseteq Stored
BY ConsoleAssumption, Zenon DEF Stored

\* The empty sequence.
LEMMA Empty == ASSUME NEW T PROVE <<>> \in Seq(T) /\ Len(<<>>) = 0
OBVIOUS

\* The length of a sequence.
LEMMA Lengths == \A T : \A s \in Seq(T) : Len(s) \in Nat
OBVIOUS

\* What Returned says depends on these alone.
LEMMA ReturnedFrame ==
  ASSUME Returned, UNCHANGED <<op, target, dst, result>>,
         \A p \in Procs : pc'[p] = "done" => pc[p] = "done", EofNext => EofNext'
  PROVE  Returned'
BY Zenon DEF Returned, ReadsLine

\* And of a process that is not done, it says nothing.
LEMMA ReturnedBut ==
  ASSUME Returned, NEW p, pc'[p] # "done" \/ op'[p] = "write", EofNext => EofNext',
         \A q \in Procs : q # p => /\ pc'[q] = pc[q] /\ op'[q] = op[q] /\ target'[q] = target[q]
                                  /\ dst'[q] = dst[q] /\ result'[q] = result[q]
  PROVE  Returned'
BY DEF Returned, ReadsLine

\* The keyboard wakes readers; nothing else about the processes changes.
LEMMA IntrProcs ==
  ASSUME Types, Calls, Returned, UNCHANGED procs, Wake \/ UNCHANGED pc, EofNext => EofNext',
         {r', w', e'} \subseteq 0..(UintMod - 1), buf' \in [0..(INPUT_BUF - 1) -> Stored \cup {"none"}]
  PROVE  Types' /\ Calls' /\ Returned'
<1>1. UNCHANGED <<ilock, op, target, dst, result, killed>>
  BY Zenon DEF procs
<1>2. pc' \in [Procs -> {"user", "lock", "read", "write", "asleep", "done"}]
  BY DEF Types, TypeOK, Wake
<1>3. \A p \in Procs : pc'[p] = pc[p] \/ (pc[p] = "asleep" /\ pc'[p] = "read")
  <2>1. CASE Wake
    BY <2>1, Zenon DEF Wake
  <2>2. CASE UNCHANGED pc
    BY <2>2, Zenon
  <2> QED
    BY <2>1, <2>2, Zenon
<1>4. Types'
  BY <1>1, <1>2, Zenon DEF Types, TypeOK
<1>5. Calls'
  BY <1>1, <1>3, Zenon DEF Calls
<1>6. Returned'
  BY <1>1, <1>3, ReturnedFrame, Zenon
<1> QED
  BY <1>4, <1>5, <1>6, Zenon

\* ^U goes back to the end of the line before.
LEMMA WholeLineErased ==
  ASSUME IInv
  PROVE  Unfinished = Dist(w, e)
<1> USE Sizes
<1>0. PICK L : L = Dist(w, e)
  BY Zenon
<1> DEFINE S == {k \in 0..L : \A j \in 1..k : At(e - j) # "\n"}
<1>1. /\ L \in Nat /\ L <= INPUT_BUF /\ Line \in Seq(Letters) /\ Len(Line) = L /\ Line = Chars(buf, w, L)
      /\ w \in Uints /\ e = On(w, L)
  BY <1>0, RingHas DEF IInv, Contents, RingAt
<1>2. ASSUME NEW j \in 1..L PROVE At(e - j) # "\n"
  <2>1. L - j \in 0..INPUT_BUF /\ L \in 0..INPUT_BUF /\ j \in 0..L /\ L - j + 1 \in 1..L
    BY <1>1
  <2>2. Line[L - j + 1] \in Letters /\ Line[L - j + 1] = buf[Place(w, L - j + 1)]
    BY <1>1, <2>1 DEF Chars
  <2>3. Uint(e - j) = On(w, L - j) /\ On(w, L - j) \in Uints
    BY <1>1, <2>1, Back, Along, Zenon
  <2>4. On(w, L - j) % INPUT_BUF = Place(On(w, L - j), 1)
    BY <2>3, On(w, L - j) + 1 - 1 = On(w, L - j), Zenon DEF Place, Uints
  <2>5. Place(On(w, L - j), 1) = Place(w, L - j + 1)
    BY <1>1, <2>1, PlaceOn
  <2> QED
    BY <2>2, <2>3, <2>4, <2>5, Ends, Zenon DEF At
<1>3. L \in S /\ \A y \in S : L >= y
  BY <1>1, <1>2
<1>4. \A x \in S : (\A y \in S : x >= y) => x = L
  BY <1>1, <1>3
<1>5. Max(S) = L
  BY <1>3, <1>4, Zenon DEF Max
<1>6. Unfinished = Max(S)
  BY <1>0, Zenon DEF Unfinished, Dist
<1> QED
  BY <1>0, <1>5, <1>6, Zenon

\* A key of the keyboard or a byte of the serial line.
LEMMA IntrStep ==
  ASSUME IInv, NEW c \in Getc, consoleintr(c)
  PROVE  IInv' /\ LineStep /\ r' = r
<1> USE DEF IInv
<1>1. UNCHANGED procs /\ buf \in [0..(INPUT_BUF - 1) -> Stored \cup {"none"}]
  BY Zenon DEF consoleintr, Types, TypeOK
<1>2. CASE ListProcesses(c) \/ UNCHANGED <<input, pc>>
  <2>1. UNCHANGED <<buf, r, w, e, pc>>
    BY <1>2, Zenon DEF ListProcesses, input
  <2>2. Ready' = Ready /\ Line' = Line
    BY <2>1, Zenon DEF Ready, Line, Span, At
  <2>3. RingAt(r, w, e)' /\ Contents' /\ (EofNext => EofNext')
    BY <2>1, <2>2, Zenon DEF RingAt, Contents, EofNext
  <2>4. {r', w', e'} \subseteq 0..(UintMod - 1) /\ buf' \in [0..(INPUT_BUF - 1) -> Stored \cup {"none"}]
    BY <1>1, <2>1, Zenon DEF Types, TypeOK
  <2> QED
    BY <1>1, <2>1, <2>2, <2>3, <2>4, IntrProcs, Zenon DEF LineStep
<1>3. ASSUME NEW k \in 0..Dist(w, e), e' = Uint(e - k), UNCHANGED <<buf, r, w, pc>>,
             k = 1 \/ k = Dist(w, e)
      PROVE  IInv' /\ LineStep /\ r' = r
  <2>1. RingAt(r, w, e)' /\ Line' = SubSeq(Line, 1, Len(Line) - k) /\ Ready' = Ready /\ k <= Len(Line)
    BY <1>3, Erased, Zenon DEF Contents
  <2>2. Contents' /\ (EofNext => EofNext')
    BY <2>1, <1>3 DEF Contents, EofNext
  <2>3. {r', w', e'} \subseteq 0..(UintMod - 1) /\ buf' \in [0..(INPUT_BUF - 1) -> Stored \cup {"none"}]
    BY <1>1, <1>3, <2>1, Zenon DEF RingAt, Uints
  <2>4. Len(Line) = Dist(w, e)
    BY RingHas, Zenon
  <2>5. Lines!LNext
    BY <1>3, <2>1, <2>4, Zenon DEF Lines!LNext, Lines!Erase, Line, Ready
  <2> QED
    BY <1>1, <1>3, <2>1, <2>2, <2>3, <2>5, IntrProcs, Zenon DEF LineStep
<1>4. CASE KillLine(c)
  BY <1>3, <1>4, WholeLineErased, RingHas DEF KillLine
<1>5. CASE Backspace(c)
  <2>1. CASE e # w
    <3>1. 1 \in 0..Dist(w, e)
      BY <2>1, Apart, RingHas, SMTT(40), Z3T(40) DEF RingAt
    <3> QED
      BY <1>3, <1>5, <2>1, <3>1, Zenon DEF Backspace
  <2>2. CASE e = w
    BY <1>2, <1>5, <2>2, Zenon DEF Backspace, input
  <2> QED
    BY <2>1, <2>2, Zenon
<1>6. CASE TypeChar(c)
  <2> DEFINE ch == IF c = "\r" THEN "\n" ELSE c
  <2>1. ch \in Stored
    BY <1>6, Zenon DEF TypeChar
  <2>2. CASE ~(Dist(r, e) < INPUT_BUF)
    BY <1>2, <1>6, <2>2, Zenon DEF TypeChar, Dist
  <2>3. CASE Dist(r, e) < INPUT_BUF
    <3>1. buf' = [buf EXCEPT ![e % INPUT_BUF] = ch] /\ e' = Uint(e + 1) /\ r' = r
      BY <1>6, <2>3, Zenon DEF TypeChar, Dist
    <3> HIDE DEF ch
    <3>2. buf' \in [0..(INPUT_BUF - 1) -> Stored \cup {"none"}]
      BY <1>1, <2>1, <3>1, Zenon
    <3>3. Ready \in Seq(Stored) /\ Line \in Seq(Letters)
      BY Zenon DEF Contents
    <3>4. CASE Finishes(ch, Uint(e + 1))
      <4>1. w' = Uint(e + 1) /\ Wake
        BY <1>6, <2>3, <3>4, Zenon DEF TypeChar, Dist, ch
      <4>2. /\ RingAt(r, w, e)' /\ Line' = <<>> /\ Ready' = Ready \o Append(Line, ch)
            /\ Len(Line) + Len(Ready) < INPUT_BUF
            /\ Uint(e + 1) = Uint(r + INPUT_BUF) => Len(Line) + Len(Ready) + 1 = INPUT_BUF
        BY <1>1, <2>3, <3>1, <3>3, <4>1, Finished, Zenon
      <4>3. Contents' /\ (EofNext => EofNext')
        BY <2>1, <3>3, <4>2, Ends DEF Contents, EofNext
      <4>4. Lines!LNext
        <5>1. ch \in {"\n", "^D"} \/ Len(Line) + Len(Ready) + 1 = INPUT_BUF
          BY <3>4, <4>2, Zenon DEF Finishes
        <5> QED
          BY <2>1, <4>2, <5>1, Zenon DEF Lines!LNext, Lines!Type, Line, Ready
      <4>5. {r', w', e'} \subseteq 0..(UintMod - 1)
        BY <4>2, Zenon DEF RingAt, Uints
      <4> QED
        BY <1>1, <3>1, <3>2, <4>1, <4>2, <4>3, <4>4, <4>5, IntrProcs, Zenon DEF LineStep
    <3>5. CASE ~Finishes(ch, Uint(e + 1))
      <4>1. UNCHANGED <<w, pc>>
        BY <1>6, <2>3, <3>5, Zenon DEF TypeChar, Dist, ch
      <4>2. RingAt(r, w, e)' /\ Line' = Append(Line, ch) /\ Ready' = Ready /\ Len(Line) + Len(Ready) + 1 < INPUT_BUF
        BY <1>1, <2>3, <3>1, <3>3, <3>5, <4>1, Typed, Zenon DEF Finishes
      <4>3. ch \in Letters
        BY <2>1, <3>5, Zenon DEF Finishes, Stored
      <4>4. Contents' /\ (EofNext => EofNext')
        BY <3>3, <4>2, <4>3 DEF Contents, EofNext
      <4>5. Lines!LNext
        <5>1. Len(Line) \in Nat /\ Len(Ready) \in Nat
          BY <3>3
        <5>2. ch \notin {"\n", "^D"}
          BY <3>5, Zenon DEF Finishes
        <5>3. Len(Line) + Len(Ready) < INPUT_BUF /\ Len(Line) + Len(Ready) + 1 # INPUT_BUF
          BY <4>2, <5>1, Sizes
        <5>4. Lines!Type(ch)
          BY <4>2, <5>2, <5>3, Zenon DEF Lines!Type, Line, Ready
        <5> QED
          BY <2>1, <5>4, Zenon DEF Lines!LNext
      <4>6. {r', w', e'} \subseteq 0..(UintMod - 1)
        BY <4>2, Zenon DEF RingAt, Uints
      <4> QED
        BY <1>1, <3>1, <3>2, <4>1, <4>2, <4>4, <4>5, <4>6, IntrProcs, Zenon DEF LineStep
    <3> QED
      BY <3>4, <3>5, Zenon
  <2> QED
    BY <2>2, <2>3, Zenon
<1> QED
  BY <1>2, <1>4, <1>5, <1>6, Zenon DEF consoleintr

-----------------------------------------------------------------------------
(* consoleread *)

\* Every nonempty set of numbers has a least one, and Min is it.
LEMMA MinIs ==
  ASSUME NEW S, S \subseteq Nat, S # {}
  PROVE  Min(S) \in S /\ \A y \in S : Min(S) <= y
<1>1. \E x \in S : \A y \in S : ~(<<y, x>> \in OpToRel(<, Nat))
  BY NatLessThanWellFounded, WFMin, Zenon
<1>2. \E x \in S : \A y \in S : ~(y < x)
  BY <1>1, Zenon DEF OpToRel
<1>3. \E x \in S : \A y \in S : x =< y
  BY <1>2
<1> QED
  BY <1>3, Zenon DEF Min

\* The smaller of two numbers.
LEMMA MinTwo ==
  ASSUME NEW a \in Nat, NEW b \in Nat
  PROVE  Min({a, b}) = IF a <= b THEN a ELSE b
BY MinIs, {a, b} \subseteq Nat, {a, b} # {}

\* What a read takes out of the ring does not touch the line being edited; a
\* reader has the lock of the inode, so no other read is under way or has just returned.
LEMMA ReadTakes ==
  ASSUME IInv, NEW p \in Procs, pc[p] = "read", NEW k \in 0..Len(Ready), r' = Uint(r + k),
         NEW chars \in Seq(Letters \cup {"\n"}), Len(dst[p]) + Len(chars) <= target[p],
         Take(p, chars), UNCHANGED <<buf, w, e, ilock, op, target, killed>>
  PROVE  /\ RingAt(r, w, e)' /\ Contents' /\ LineStep
         /\ Ready' = SubSeq(Ready, k + 1, Len(Ready)) /\ Uint(r' - r) = k
         /\ dst' \in [Procs -> Seq(Letters \cup {"\n"})] /\ dst'[p] = dst[p] \o chars
         /\ Len(dst'[p]) = Len(dst[p]) + Len(chars)
         /\ \A q \in Procs : q # p => dst'[q] = dst[q] /\ pc[q] \in {"user", "lock"}
         /\ {r', w', e'} \subseteq 0..(UintMod - 1)
<1> USE DEF IInv
<1>1. Len(Ready) = Dist(r, w) /\ Ready \in Seq(Stored) /\ Line \in Seq(Letters)
  BY RingHas, Zenon DEF Contents
<1>2. RingAt(r, w, e)' /\ Ready' = SubSeq(Ready, k + 1, Len(Ready)) /\ Line' = Line /\ Uint(r' - r) = k
  BY <1>1, Consumed, Zenon
<1>3. Contents'
  BY <1>1, <1>2 DEF Contents
<1>4. LineStep
  <2>1. CASE k = 0
    BY <1>1, <1>2, <2>1 DEF LineStep
  <2>2. CASE k # 0
    BY <1>1, <1>2, <2>2 DEF LineStep, Lines!LNext, Lines!Consume, Line, Ready
  <2> QED
    BY <2>1, <2>2, Zenon
<1>5. dst[p] \in Seq(Letters \cup {"\n"}) /\ dst[p] \o chars \in Seq(Letters \cup {"\n"})
  BY DEF Types
<1>6. dst' \in [Procs -> Seq(Letters \cup {"\n"})] /\ dst'[p] = dst[p] \o chars /\ \A q \in Procs : q # p => dst'[q] = dst[q]
  BY <1>5, Zenon DEF Take, Types
<1>7. \A q \in Procs : q # p => pc[q] \in {"user", "lock"}
  BY Zenon DEF Calls, Types, TypeOK
<1>8. Len(dst'[p]) = Len(dst[p]) + Len(chars)
  BY <1>5, <1>6
<1> QED
  BY <1>2, <1>3, <1>4, <1>6, <1>7, <1>8, Zenon DEF RingAt, Uints

\* The read returns.
LEMMA ReadLeaves ==
  ASSUME IInv, NEW p \in Procs, pc[p] = "read", NEW k \in 0..Len(Ready), r' = Uint(r + k),
         NEW chars \in Seq(Letters \cup {"\n"}), Len(dst[p]) + Len(chars) <= target[p],
         Take(p, chars), UNCHANGED <<buf, w, e, ilock, op, target, killed>>,
         NEW res \in Int, Leave(p, res),
         res = -1 \/ res = Len(dst[p]) + Len(chars),
         \A i \in 1..(Len(chars) - 1) : chars[i] # "\n",
         \/ res = -1
         \/ res = target[p]
         \/ Len(chars) > 0 /\ chars[Len(chars)] = "\n"
         \/ k < Len(Ready) /\ Ready[k + 1] = "^D"
         \/ res = 0
  PROVE  IInv' /\ LineStep
<1> USE DEF IInv
<1>1. /\ RingAt(r, w, e)' /\ Contents' /\ LineStep
      /\ Ready' = SubSeq(Ready, k + 1, Len(Ready))
      /\ dst' \in [Procs -> Seq(Letters \cup {"\n"})] /\ dst'[p] = dst[p] \o chars
      /\ Len(dst'[p]) = Len(dst[p]) + Len(chars)
      /\ \A q \in Procs : q # p => dst'[q] = dst[q] /\ pc[q] \in {"user", "lock"}
      /\ {r', w', e'} \subseteq 0..(UintMod - 1)
  BY ReadTakes, Zenon
<1>2. /\ pc'[p] = "done" /\ result'[p] = res
      /\ \A q \in Procs : q # p => pc'[q] = pc[q] /\ result'[q] = result[q]
      /\ pc' \in [Procs -> {"user", "lock", "read", "write", "asleep", "done"}]
  BY Zenon DEF Leave, Types, TypeOK
<1>3. /\ dst[p] \in Seq(Letters) /\ target[p] \in 0..MaxRead /\ MaxRead \in Nat /\ Len(dst[p]) \in Nat
      /\ Len(chars) \in Nat /\ ilock = p /\ op[p] = "read"
  BY Sizes, SMTT(40), Z3T(40) DEF Calls, Types, TypeOK
<1>4. Types'
  <2>1. result' \in [Procs -> -1..MaxRead]
    BY <1>3, SMTT(40), Z3T(40) DEF Leave, Types, TypeOK
  <2>2. \A q \in Procs : dst'[q] \in Seq(Letters \cup {"\n"}) /\ Len(dst'[q]) <= target[q]
    BY <1>1, Zenon DEF Types, TypeOK
  <2> QED
    BY <1>1, <1>2, <2>1, <2>2, Zenon DEF Types, TypeOK
<1>5. Calls'
  BY <1>1, <1>2, <1>3, Zenon DEF Calls
<1>6. Returned'
  <2>1. ASSUME res # -1
        PROVE /\ result'[p] = Len(dst'[p])
              /\ \A i \in 1..(result'[p] - 1) : dst'[p][i] # "\n"
              /\ result'[p] \in 1..(target'[p] - 1) => dst'[p][result'[p]] = "\n" \/ EofNext'
    <3>1. res = Len(dst[p]) + Len(chars) /\ result'[p] = Len(dst'[p])
      BY <1>1, <1>2, <2>1, Zenon
    <3>2. ASSUME NEW i \in 1..(res - 1) PROVE dst'[p][i] # "\n"
      <4>1. /\ \A j \in 1..Len(dst[p]) : (dst[p] \o chars)[j] = dst[p][j]
            /\ \A j \in 1..Len(chars) : (dst[p] \o chars)[Len(dst[p]) + j] = chars[j]
        <5>1. dst[p] \in Seq(Letters \cup {"\n"})
          BY Zenon DEF Types
        <5> QED
          BY <5>1, Joined
      <4>2. CASE i \in 1..Len(dst[p])
        <5>1. dst[p][i] \in Letters
          BY <1>3, <4>2
        <5> QED
          BY <1>1, <4>1, <4>2, <5>1, Ends, Zenon
      <4>3. CASE i \notin 1..Len(dst[p])
        <5>1. PICK j : j = i - Len(dst[p])
          BY Zenon
        <5>2. j \in 1..(Len(chars) - 1) /\ j \in 1..Len(chars) /\ i = Len(dst[p]) + j
          BY <1>3, <3>1, <4>3, <5>1, SMTT(40), Z3T(40)
        <5>3. (dst[p] \o chars)[Len(dst[p]) + j] = chars[j] /\ chars[j] # "\n"
          BY <4>1, <5>2, Zenon
        <5> QED
          BY <1>1, <5>2, <5>3, Zenon
      <4> QED
        BY <4>2, <4>3, Zenon
    <3>3. ASSUME res \in 1..(target[p] - 1) PROVE dst'[p][res] = "\n" \/ EofNext'
      <4>1. CASE Len(chars) > 0 /\ chars[Len(chars)] = "\n"
        BY <1>1, <1>3, <3>1, <4>1, SMTT(40), Z3T(40)
      <4>2. CASE k < Len(Ready) /\ Ready[k + 1] = "^D"
        <5>1. Ready \in Seq(Stored)
          BY Zenon DEF Contents
        <5> QED
          BY <1>1, <4>2, <5>1, SMTT(40), Z3T(40) DEF EofNext
      <4> QED
        BY <1>3, <2>1, <3>3, <4>1, <4>2
    <3> QED
      BY <1>2, <3>1, <3>2, <3>3, Zenon
  <2>2. \A q \in Procs : pc'[q] = "done" => q = p
    BY <1>1, <1>2, Zenon
  <2> QED
    BY <1>2, <2>1, <2>2, Zenon DEF Returned, ReadsLine
<1> QED
  BY <1>1, <1>4, <1>5, <1>6, Zenon

\* The read has taken all that is finished, and sleeps.
LEMMA ReadSleeps ==
  ASSUME IInv, NEW p \in Procs, pc[p] = "read", NEW k \in 0..Len(Ready), r' = Uint(r + k),
         NEW chars \in Seq(Letters), Len(dst[p]) + Len(chars) <= target[p],
         Take(p, chars), UNCHANGED <<buf, w, e, ilock, op, target, killed, result>>,
         pc' = [pc EXCEPT ![p] = "asleep"]
  PROVE  IInv' /\ LineStep
<1> USE DEF IInv
<1>1. /\ RingAt(r, w, e)' /\ Contents' /\ LineStep
      /\ dst' \in [Procs -> Seq(Letters \cup {"\n"})] /\ dst'[p] = dst[p] \o chars
      /\ Len(dst'[p]) = Len(dst[p]) + Len(chars)
      /\ \A q \in Procs : q # p => dst'[q] = dst[q] /\ pc[q] \in {"user", "lock"}
      /\ {r', w', e'} \subseteq 0..(UintMod - 1)
  BY ReadTakes, SMTT(40), Z3T(40)
<1>2. /\ pc'[p] = "asleep" /\ \A q \in Procs : q # p => pc'[q] = pc[q]
      /\ pc' \in [Procs -> {"user", "lock", "read", "write", "asleep", "done"}]
  BY Zenon DEF Types, TypeOK
<1>3. Types'
  <2>1. \A q \in Procs : dst'[q] \in Seq(Letters \cup {"\n"}) /\ Len(dst'[q]) <= target[q]
    BY <1>1, Zenon DEF Types, TypeOK
  <2> QED
    BY <1>1, <1>2, <2>1, Zenon DEF Types, TypeOK
<1>4. Calls'
  <2>1. dst[p] \in Seq(Letters) /\ ilock = p /\ op[p] = "read"
    BY Zenon DEF Calls
  <2>2. dst'[p] \in Seq(Letters)
    BY <1>1, <2>1
  <2> QED
    BY <1>1, <1>2, <2>1, <2>2, ZenonT(60) DEF Calls
<1>5. \A q \in Procs : pc'[q] # "done"
  BY <1>1, <1>2, Zenon
<1>6. Returned'
  BY <1>5, Zenon DEF Returned
<1> QED
  BY <1>1, <1>3, <1>4, <1>6, Zenon

\* Characters that were taken and are no end of file.
LEMMA NoEofTaken ==
  ASSUME Ready \in Seq(Stored), NEW k \in 0..Len(Ready), Uint(r' - r) = k, \A j \in 1..k : Ready[j] # "^D"
  PROVE  EofAlone
<1>1. \A j \in DOMAIN SubSeq(Ready, 1, k) : SubSeq(Ready, 1, k)[j] # "^D"
  OBVIOUS
<1> QED
  BY <1>1, Zenon DEF EofAlone, Ready

\* consoleread up to its return or its sleep.
LEMMA ReadStep ==
  ASSUME IInv, NEW p \in Procs, consoleread(p)
  PROVE  IInv' /\ LineStep /\ EofAlone
<1> USE DEF IInv
<1>0. PICK len, left : len = Len(Ready) /\ left = n[p]
  BY Zenon
<1>m. PICK m : m = Min({len, left})
  BY Zenon
<1>s. PICK stops : stops = {k \in 1..m : Ready[k] \in {"\n", "^D"}}
  BY Zenon
<1>1. /\ Ready \in Seq(Stored) /\ len \in Nat /\ pc[p] = "read" /\ dst[p] \in Seq(Letters)
      /\ left \in Nat /\ left = target[p] - Len(dst[p]) /\ Len(dst[p]) \in Nat /\ target[p] \in Nat
  <2>1. pc[p] = "read" /\ Ready \in Seq(Stored)
    BY Zenon DEF Contents, consoleread
  <2>2. target[p] \in 0..MaxRead /\ Len(dst[p]) <= target[p] /\ dst[p] \in Seq(Letters)
    BY <2>1, Zenon DEF Types, TypeOK, Calls
  <2>3. n[p] = target[p] - Len(dst[p])
    BY Zenon DEF n
  <2>4. Len(dst[p]) \in Nat /\ Len(Ready) \in Nat
    BY <2>1, <2>2, Lengths, Zenon
  <2>5. target[p] \in Nat
    BY <2>2, Sizes
  <2> QED
    BY <1>0, <2>1, <2>2, <2>3, <2>4, <2>5, SMTT(20), Z3T(20)
<1>2. UNCHANGED <<buf, w, e, ilock, op, target, killed>>
  BY Zenon DEF consoleread
<1>3. m \in Nat /\ m <= len /\ m <= left /\ (m = len \/ m = left)
  <2>1. Min({len, left}) = IF len <= left THEN len ELSE left
    BY <1>1, MinTwo, Zenon
  <2> QED
    BY <1>1, <1>m, <2>1
<1>4. \A k \in 1..len : Ready[k] \in Letters \cup {"\n", "^D"}
  BY <1>0, <1>1 DEF Stored
<1>7. \/ /\ stops # {} /\ Ready[Min(stops)] = "\n"
         /\ r' = Uint(r + Min(stops)) /\ Take(p, SubSeq(Ready, 1, Min(stops))) /\ Leave(p, Len(dst'[p]))
      \/ /\ stops # {} /\ Ready[Min(stops)] = "^D"
         /\ r' = Uint(r + EofRead(p, Min(stops))) /\ Take(p, SubSeq(Ready, 1, Min(stops) - 1))
         /\ Leave(p, Len(dst'[p]))
      \/ /\ stops = {} /\ left <= len
         /\ r' = Uint(r + left) /\ Take(p, SubSeq(Ready, 1, left)) /\ Leave(p, target[p])
      \/ /\ stops = {} /\ left > len /\ r' = w /\ Take(p, Ready)
         /\ Leave(p, -1) \/ (pc' = [pc EXCEPT ![p] = "asleep"] /\ UNCHANGED result)
  BY <1>0, <1>m, <1>s, Zenon DEF consoleread, Ready
<1>5. CASE stops # {}
  <2>0. stops \subseteq Nat
    BY <1>s, <1>3
  <2>1. PICK k : k = Min(stops)
    BY Zenon
  <2>2. /\ k \in 1..len /\ k <= left /\ Ready[k] \in {"\n", "^D"}
        /\ \A j \in stops : k <= j
    <3>1. k \in stops /\ \A j \in stops : k <= j
      BY <1>5, <2>0, <2>1, MinIs, Zenon
    <3> QED
      BY <1>s, <1>1, <1>3, <3>1, SMTT(40), Z3T(40)
  <2>3. ASSUME NEW j \in 1..(k - 1) PROVE Ready[j] \in Letters
    <3>1. j \in 1..m /\ j \in 1..len /\ ~(k <= j)
      <4>1. k \in 1..m
        BY <1>s, <1>5, <2>0, <2>1, MinIs, Zenon
      <4> QED
        BY <1>1, <1>3, <4>1, SMTT(40), Z3T(40)
    <3>2. j \notin stops
      BY <2>2, <3>1, Zenon
    <3> QED
      BY <1>s, <1>4, <3>1, <3>2, Zenon
  <2>4. CASE Ready[k] = "\n"
    <3> DEFINE chars == SubSeq(Ready, 1, k)
               res == Len(dst[p]) + Len(chars)
    <3>1. r' = Uint(r + k) /\ Take(p, chars) /\ Leave(p, Len(dst'[p]))
      BY <1>5, <1>7, <2>1, <2>4, Zenon
    <3>2. Len(chars) = k /\ \A j \in 1..k : chars[j] = Ready[j]
      BY <1>1, <2>2, SMTT(20), Z3T(20)
    <3>3. chars \in Seq(Letters \cup {"\n"})
      BY <1>1, <2>2, <2>3, <2>4, <3>2, SMTT(40), Z3T(40)
    <3> HIDE DEF chars
    <3>4. Len(dst'[p]) = res /\ res \in Int
      <4>1. dst'[p] = dst[p] \o chars /\ dst[p] \in Seq(Letters \cup {"\n"})
        BY <3>1, Zenon DEF Take, Types
      <4>2. Len(dst[p] \o chars) = Len(dst[p]) + Len(chars)
        BY <3>3, <4>1, Joined
      <4> QED
        BY <1>1, <2>2, <3>2, <4>1, <4>2, SMTT(40), Z3T(40)
    <3>5. Leave(p, res)
      BY <3>1, <3>4, Zenon
    <3>6. k \in 0..Len(Ready) /\ Len(dst[p]) + Len(chars) <= target[p]
      BY <1>0, <1>1, <2>2, <3>2, SMTT(40), Z3T(40)
    <3>7. (\A i \in 1..(Len(chars) - 1) : chars[i] # "\n") /\ Len(chars) > 0 /\ chars[Len(chars)] = "\n"
      BY <2>2, <2>3, <2>4, <3>2, Ends
    <3> HIDE DEF res
    <3>8. IInv' /\ LineStep
      BY <1>1, <1>2, <3>1, <3>3, <3>4, <3>5, <3>6, <3>7, ReadLeaves, Zenon DEF res
    <3>9. Uint(r' - r) = k
      BY <1>1, <1>2, <3>1, <3>3, <3>6, ReadTakes, Zenon
    <3>10. \A j \in 1..k : Ready[j] # "^D"
      BY <2>2, <2>3, <2>4, Ends
    <3> QED
      BY <1>1, <3>6, <3>8, <3>9, <3>10, NoEofTaken, Zenon
  <2>5. CASE Ready[k] = "^D"
    <3> DEFINE chars == SubSeq(Ready, 1, k - 1)
               res == Len(dst[p]) + Len(chars)
               k1 == EofRead(p, k)
    <3>1. r' = Uint(r + k1) /\ Take(p, chars) /\ Leave(p, Len(dst'[p]))
      BY <1>5, <1>7, <2>1, <2>5, Zenon
    <3>2. Len(chars) = k - 1 /\ \A j \in 1..(k - 1) : chars[j] = Ready[j]
      BY <1>1, <2>2
    <3>3. chars \in Seq(Letters \cup {"\n"}) /\ \A i \in 1..(Len(chars) - 1) : chars[i] # "\n"
      BY <1>1, <2>2, <2>3, <3>2, Ends, SMTT(40), Z3T(40)
    <3>0. k1 = k - 1 \/ (k1 = k /\ k = 1 /\ Len(dst[p]) = 0)
      BY <1>0, <1>1, <2>2 DEF EofRead
    <3> HIDE DEF chars, k1
    <3>4. Len(dst'[p]) = res /\ res \in Int
      <4>1. dst'[p] = dst[p] \o chars /\ dst[p] \in Seq(Letters \cup {"\n"})
        BY <3>1, Zenon DEF Take, Types
      <4>2. Len(dst[p] \o chars) = Len(dst[p]) + Len(chars)
        BY <3>3, <4>1, Joined, Zenon
      <4> QED
        BY <1>1, <2>2, <3>2, <4>1, <4>2
    <3>5. Leave(p, res)
      BY <3>1, <3>4, Zenon
    <3>6. k1 \in 0..Len(Ready) /\ Len(dst[p]) + Len(chars) <= target[p]
      BY <1>0, <1>1, <2>2, <3>0, <3>2
    <3>7. (k1 < Len(Ready) /\ Ready[k1 + 1] = "^D") \/ res = 0
      BY <1>0, <1>1, <2>2, <2>5, <3>0, <3>2
    <3> HIDE DEF res
    <3>8. IInv' /\ LineStep
      BY <1>1, <1>2, <3>1, <3>3, <3>4, <3>5, <3>6, <3>7, ReadLeaves, Zenon DEF res
    <3>9. Uint(r' - r) = k1
      BY <1>1, <1>2, <3>1, <3>3, <3>6, ReadTakes, Zenon
    <3>10. CASE k1 = k - 1
      <4>1. \A j \in 1..k1 : Ready[j] # "^D"
        BY <2>2, <2>3, <3>10, Ends, Zenon
      <4> QED
        BY <1>1, <3>6, <3>8, <3>9, <4>1, NoEofTaken, Zenon
    <3>11. CASE k1 = k /\ k = 1 /\ Len(dst[p]) = 0
      <4>1. pc'[p] = "done" /\ result'[p] = 0
        BY <3>2, <3>5, <3>11 DEF Leave, Types, TypeOK, res
      <4>2. Len(SubSeq(Ready, 1, 1)) = 1
        BY <1>1, <2>2, <3>11
      <4>3. EofAlone
        BY <1>1, <3>9, <3>11, <4>1, <4>2, Zenon DEF EofAlone, Ready
      <4> QED
        BY <3>8, <4>3, Zenon
    <3> QED
      BY <3>0, <3>10, <3>11, Zenon
  <2> QED
    BY <2>2, <2>4, <2>5, Zenon
<1>6. CASE stops = {}
  <2>1. \A k \in 1..m : Ready[k] \in Letters
    <3> SUFFICES ASSUME NEW k \in 1..m PROVE Ready[k] \in Letters
      BY Zenon
    <3>1. k \in 1..len /\ k \notin stops
      BY <1>1, <1>3, <1>6
    <3> QED
      BY <1>s, <1>4, <3>1, Zenon
  <2>2. CASE left <= len
    <3> DEFINE chars == SubSeq(Ready, 1, left)
    <3>1. r' = Uint(r + left) /\ Take(p, chars) /\ Leave(p, target[p])
      BY <1>1, <1>6, <1>7, <2>2, SMTT(40), Z3T(40)
    <3>m. m = left
      BY <1>1, <1>3, <2>2
    <3>2. Len(chars) = left /\ \A j \in 1..left : chars[j] = Ready[j]
      BY <1>0, <1>1, <2>2
    <3>3. chars \in Seq(Letters \cup {"\n"}) /\ \A i \in 1..(Len(chars) - 1) : chars[i] # "\n"
      <4>1. chars \in Seq(Stored) /\ \A j \in 1..Len(chars) : chars[j] \in Letters
        BY <1>0, <1>1, <2>1, <2>2, <3>m, <3>2, SMTT(40), Z3T(40)
      <4> QED
        BY <4>1, Ends, SMTT(20), Z3T(20)
    <3> HIDE DEF chars
    <3>4. left \in 0..Len(Ready) /\ Len(dst[p]) + Len(chars) <= target[p] /\ target[p] = Len(dst[p]) + Len(chars)
      BY <1>0, <1>1, <2>2, <3>2, SMTT(20), Z3T(20)
    <3>5. IInv' /\ LineStep
      BY <1>1, <1>2, <3>1, <3>3, <3>4, ReadLeaves, SMTT(40), Z3T(40)
    <3>6. Uint(r' - r) = left
      BY <1>1, <1>2, <3>1, <3>3, <3>4, ReadTakes, Zenon
    <3>7. \A j \in 1..left : Ready[j] # "^D"
      BY <2>1, <3>m, Ends, Zenon
    <3> QED
      BY <1>1, <3>4, <3>5, <3>6, <3>7, NoEofTaken, Zenon
  <2>3. CASE left > len
    <3>1. /\ r' = w /\ Take(p, Ready)
          /\ \/ Leave(p, -1)
             \/ (pc' = [pc EXCEPT ![p] = "asleep"] /\ UNCHANGED result)
      <4>1. ~(left <= len)
        BY <1>1, <2>3
      <4> QED
        BY <1>6, <1>7, <4>1, Zenon
    <3>2. Ready \in Seq(Letters) /\ Ready \in Seq(Letters \cup {"\n"}) /\ \A i \in 1..(Len(Ready) - 1) : Ready[i] # "\n"
      <4>1. m = len
        BY <1>1, <1>3, <2>3
      <4>2. \A i \in 1..Len(Ready) : Ready[i] \in Letters
        BY <1>0, <2>1, <4>1, Zenon
      <4> QED
        BY <1>1, <4>2, Ends
    <3>3. r' = Uint(r + len)
      BY <1>0, <3>1, RingHas, Zenon DEF On
    <3>4. len \in 0..Len(Ready) /\ Len(dst[p]) + Len(Ready) <= target[p]
      BY <1>0, <1>1, <2>3
    <3>5. ASSUME Leave(p, -1) PROVE IInv' /\ LineStep
      <4>1. -1 \in Int
        OBVIOUS
      <4>2. PICK res \in Int : res = -1
        BY <4>1, Zenon
      <4> QED
        BY <1>1, <1>2, <3>1, <3>2, <3>3, <3>4, <3>5, <4>2, ReadLeaves, Zenon
    <3>6. ASSUME pc' = [pc EXCEPT ![p] = "asleep"] /\ UNCHANGED result PROVE IInv' /\ LineStep
      BY <1>1, <1>2, <3>1, <3>2, <3>3, <3>4, <3>6, ReadSleeps, Zenon
    <3>7. Uint(r' - r) = len
      BY <1>1, <1>2, <3>1, <3>2, <3>3, <3>4, ReadTakes, Zenon
    <3>8. \A j \in 1..len : Ready[j] # "^D"
      BY <1>0, <1>1, <3>2, Ends
    <3> QED
      BY <1>1, <3>1, <3>4, <3>5, <3>6, <3>7, <3>8, NoEofTaken, Zenon
  <2> QED
    BY <1>1, <2>2, <2>3
<1> QED
  BY <1>5, <1>6, Zenon

-----------------------------------------------------------------------------
(* The other steps *)

\* A step that leaves the ring alone.
LEMMA SameRing ==
  ASSUME IInv, UNCHANGED input
  PROVE  /\ RingAt(r, w, e)' /\ Contents' /\ LineStep /\ (EofNext => EofNext') /\ EofAlone
         /\ {r', w', e'} \subseteq 0..(UintMod - 1) /\ buf' \in [0..(INPUT_BUF - 1) -> Stored \cup {"none"}]
<1> USE DEF IInv
<1>1. UNCHANGED <<buf, r, w, e>>
  BY Zenon DEF input
<1>2. Ready' = Ready /\ Line' = Line
  BY <1>1, Zenon DEF Ready, Line, Span, At
<1>3. Uint(r' - r) = 0 /\ Ready \in Seq(Stored)
  BY <1>1, Apart, Zenon DEF RingAt, Contents, Dist
<1>4. EofAlone
  BY <1>3, NoEofTaken
<1> QED
  BY <1>1, <1>2, <1>4, Zenon DEF RingAt, Contents, LineStep, EofNext, Types, TypeOK

\* A system call begins.
LEMMA EnterStep ==
  ASSUME IInv, NEW p \in Procs, sys_write(p) \/ \E k \in 0..MaxRead : sys_read(p, k)
  PROVE  IInv' /\ LineStep /\ EofAlone
<1> USE DEF IInv
<1>1. /\ UNCHANGED input /\ UNCHANGED <<ilock, dst, result, killed>>
      /\ pc[p] = "user" /\ pc' = [pc EXCEPT ![p] = "lock"]
      /\ op' \in [Procs -> {"read", "write"}] /\ target' \in [Procs -> 0..MaxRead]
      /\ \A q \in Procs : q # p => op'[q] = op[q] /\ target'[q] = target[q]
  <2>1. CASE sys_write(p)
    BY <2>1, Zenon DEF sys_write, Types, TypeOK
  <2>2. ASSUME NEW k \in 0..MaxRead, sys_read(p, k)
        PROVE  /\ UNCHANGED input /\ UNCHANGED <<ilock, dst, result, killed>>
               /\ pc[p] = "user" /\ pc' = [pc EXCEPT ![p] = "lock"]
               /\ op' \in [Procs -> {"read", "write"}] /\ target' \in [Procs -> 0..MaxRead]
               /\ \A q \in Procs : q # p => op'[q] = op[q] /\ target'[q] = target[q]
    BY <2>2, Zenon DEF sys_read, Types, TypeOK
  <2> QED
    BY <2>1, <2>2, Zenon
<1>2. /\ pc' \in [Procs -> {"user", "lock", "read", "write", "asleep", "done"}] /\ pc'[p] = "lock"
      /\ (\A q \in Procs : q # p => pc'[q] = pc[q]) /\ dst[p] = <<>>
  BY <1>1, Zenon DEF Types, TypeOK, Calls
<1>3. Types'
  <2>1. \A q \in Procs : dst'[q] \in Seq(Letters \cup {"\n"}) /\ Len(dst'[q]) <= target'[q]
    <3> SUFFICES ASSUME NEW q \in Procs PROVE dst'[q] \in Seq(Letters \cup {"\n"}) /\ Len(dst'[q]) <= target'[q]
      BY Zenon
    <3>1. CASE q = p
      <4>1. Len(dst'[p]) = 0 /\ dst'[p] \in Seq(Letters \cup {"\n"})
        BY <1>1, <1>2, Empty, SMTT(40), Z3T(40)
      <4>2. target'[p] \in 0..MaxRead
        BY <1>1, Zenon
      <4> QED
        BY <3>1, <4>1, <4>2, Sizes
    <3>2. CASE q # p
      BY <1>1, <3>2, Zenon DEF Types, TypeOK
    <3> QED
      BY <3>1, <3>2, Zenon
  <2> QED
    BY <1>1, <1>2, <2>1, SameRing, Zenon DEF Types, TypeOK
<1>4. Calls'
  BY <1>1, <1>2, Zenon DEF Calls
<1>5. Returned'
  BY <1>1, <1>2, SameRing, ReturnedBut, ZenonT(60)
<1> QED
  BY <1>1, <1>3, <1>4, <1>5, SameRing, Zenon

\* The lock of the inode is taken.
LEMMA LockStep ==
  ASSUME IInv, NEW p \in Procs, LockInode(p)
  PROVE  IInv' /\ LineStep /\ EofAlone
<1> USE DEF IInv
<1>1. /\ UNCHANGED input /\ UNCHANGED <<op, target, dst, result, killed>> /\ ilock' = p /\ ilock = None
      /\ pc[p] = "lock" /\ pc' = [pc EXCEPT ![p] = op[p]] /\ op[p] \in {"read", "write"}
  BY Zenon DEF LockInode, Types, TypeOK
<1>2. /\ pc' \in [Procs -> {"user", "lock", "read", "write", "asleep", "done"}] /\ pc'[p] = op[p]
      /\ (\A q \in Procs : q # p => pc'[q] = pc[q]) /\ dst[p] = <<>>
  BY <1>1, Zenon DEF Types, TypeOK, Calls
<1>3. \A q \in Procs : pc[q] \in {"user", "lock"}
  BY <1>1, ConsoleAssumption, Zenon DEF Types, TypeOK, Calls
<1>4. Types'
  BY <1>1, <1>2, SameRing, Zenon DEF Types, TypeOK
<1>5. Calls'
  <2>1. <<>> \in Seq(Letters)
    OBVIOUS
  <2> QED
    BY <1>1, <1>2, <1>3, <2>1, Zenon DEF Calls
<1>6. Returned'
  BY <1>1, <1>2, SameRing, ReturnedFrame, Zenon
<1> QED
  BY <1>1, <1>4, <1>5, <1>6, SameRing, Zenon

\* consolewrite is over at once; what it shows is the terminal's.
LEMMA WriteStep ==
  ASSUME IInv, NEW p \in Procs, consolewrite(p)
  PROVE  IInv' /\ LineStep /\ EofAlone
<1> USE DEF IInv
<1>1. /\ UNCHANGED input /\ UNCHANGED <<ilock, op, target, dst, result, killed>>
      /\ pc[p] = "write" /\ pc' = [pc EXCEPT ![p] = "done"]
  BY Zenon DEF consolewrite
<1>2. /\ pc' \in [Procs -> {"user", "lock", "read", "write", "asleep", "done"}] /\ pc'[p] = "done"
      /\ (\A q \in Procs : q # p => pc'[q] = pc[q]) /\ op[p] = "write" /\ ilock = p
  BY <1>1, Zenon DEF Types, TypeOK, Calls
<1>3. Types'
  BY <1>1, <1>2, SameRing, Zenon DEF Types, TypeOK
<1>4. Calls'
  BY <1>1, <1>2, Zenon DEF Calls
<1>5. Returned'
  BY <1>1, <1>2, SameRing, ReturnedBut, Zenon
<1> QED
  BY <1>1, <1>3, <1>4, <1>5, SameRing, Zenon

\* The call returns.
LEMMA UnlockStep ==
  ASSUME IInv, NEW p \in Procs, UnlockInode(p)
  PROVE  IInv' /\ LineStep /\ EofAlone
<1> USE DEF IInv
<1>1. /\ UNCHANGED input /\ ilock' = None /\ pc[p] = "done" /\ pc' = [pc EXCEPT ![p] = "user"]
      /\ killed' = [killed EXCEPT ![p] = FALSE] /\ op' = [op EXCEPT ![p] = "read"]
      /\ target' = [target EXCEPT ![p] = 0] /\ dst' = [dst EXCEPT ![p] = <<>>] /\ result' = [result EXCEPT ![p] = 0]
  BY Zenon DEF UnlockInode
<1>2. /\ pc' \in [Procs -> {"user", "lock", "read", "write", "asleep", "done"}] /\ pc'[p] = "user"
      /\ (\A q \in Procs : q # p => pc'[q] = pc[q] /\ pc[q] \in {"user", "lock"}) /\ ilock = p
      /\ dst'[p] = <<>> /\ \A q \in Procs : q # p => dst'[q] = dst[q] /\ target'[q] = target[q] /\ op'[q] = op[q]
  BY <1>1, Zenon DEF Types, TypeOK, Calls
<1>3. Types'
  <2>1. dst' \in [Procs -> Seq(Letters \cup {"\n"})] /\ target'[p] = 0 /\ Len(dst'[p]) = 0
    <3>1. <<>> \in Seq(Letters \cup {"\n"}) /\ Len(<<>>) = 0
      BY Empty, Zenon
    <3>2. dst \in [Procs -> Seq(Letters \cup {"\n"})] /\ target \in [Procs -> 0..MaxRead]
      BY Zenon DEF Types, TypeOK
    <3> QED
      BY <1>1, <3>1, <3>2, Zenon
  <2>2. ASSUME NEW q \in Procs PROVE dst'[q] \in Seq(Letters \cup {"\n"}) /\ Len(dst'[q]) <= target'[q]
    <3>1. CASE q = p
      BY <2>1, <3>1
    <3>2. CASE q # p
      <4>1. dst[q] \in Seq(Letters \cup {"\n"}) /\ Len(dst[q]) <= target[q]
        BY Zenon DEF Types, TypeOK
      <4> QED
        BY <1>2, <3>2, <4>1, Zenon
    <3> QED
      BY <3>1, <3>2, Zenon
  <2>3. target' \in [Procs -> 0..MaxRead] /\ result' \in [Procs -> -1..MaxRead] /\ op' \in [Procs -> {"read", "write"}]
        /\ killed' \in [Procs -> BOOLEAN]
    BY <1>1, Sizes, SMTT(40), Z3T(40) DEF Types, TypeOK
  <2> QED
    BY <1>1, <1>2, <2>1, <2>2, <2>3, SameRing, Zenon DEF Types, TypeOK
<1>4. Calls'
  BY <1>1, <1>2, SMTT(40), Z3T(40) DEF Calls
<1>5. Returned'
  BY <1>2, Zenon DEF Returned
<1> QED
  BY <1>1, <1>3, <1>4, <1>5, SameRing, Zenon

\* A process is killed, and woken.
LEMMA KillStep ==
  ASSUME IInv, NEW p \in Procs, kill(p)
  PROVE  IInv' /\ LineStep /\ EofAlone
<1> USE DEF IInv
<1>1. /\ UNCHANGED input /\ UNCHANGED <<ilock, op, target, dst, result>>
      /\ pc' = [pc EXCEPT ![p] = IF @ = "asleep" THEN "read" ELSE @] /\ killed' = [killed EXCEPT ![p] = TRUE]
  BY Zenon DEF kill
<1>2. /\ pc' \in [Procs -> {"user", "lock", "read", "write", "asleep", "done"}]
      /\ \A q \in Procs : pc'[q] = pc[q] \/ (pc[q] = "asleep" /\ pc'[q] = "read")
  BY <1>1, Zenon DEF Types, TypeOK
<1>3. killed' \in [Procs -> BOOLEAN]
  BY <1>1, Zenon DEF Types, TypeOK
<1>4. Types'
  BY <1>1, <1>2, <1>3, SameRing, Zenon DEF Types, TypeOK
<1>5. Calls'
  BY <1>1, <1>2, Zenon DEF Calls
<1>6. Returned'
  BY <1>1, <1>2, SameRing, ReturnedFrame, Zenon
<1> QED
  BY <1>1, <1>4, <1>5, <1>6, SameRing, Zenon

-----------------------------------------------------------------------------
(* The theorems *)

\* At first nothing is typed.
LEMMA Start == Init => IInv /\ Line = <<>> /\ Ready = <<>>
<1> SUFFICES ASSUME Init PROVE IInv /\ Line = <<>> /\ Ready = <<>>
  BY Zenon
<1> USE ConsoleAssumption, Sizes DEF Init
<1>1. r = 0 /\ w = On(r, 0) /\ e = On(r, 0 + 0) /\ r \in Uints
  BY UintIs DEF On, Uints
<1>2. RingAt(r, w, e) /\ Dist(r, w) = 0 /\ Dist(w, e) = 0
  BY <1>1, RingOf
<1>3. Line = <<>> /\ Ready = <<>>
  BY <1>2, RingHas, SMTT(40), Z3T(40) DEF Chars
<1>4. Contents
  BY <1>3 DEF Contents
<1>5. Types
  BY <1>1, SMTT(40), Z3T(40) DEF Types, TypeOK, Uints
<1>6. Calls /\ Returned
  BY Zenon DEF Calls, Returned
<1> QED
  BY <1>2, <1>3, <1>4, <1>5, <1>6, Zenon DEF IInv

\* Every step keeps the invariant, is a step of the two sequences or none, and takes an
\* end of file only for a read that returns nothing else.
LEMMA StepKeeps == IInv /\ [Next]_vars => IInv' /\ LineStep /\ EofAlone
<1> SUFFICES ASSUME IInv, [Next]_vars PROVE IInv' /\ LineStep /\ EofAlone
  BY Zenon
<1>1. ASSUME NEW c \in Getc, consoleintr(c) PROVE IInv' /\ LineStep /\ EofAlone
  <2>1. IInv' /\ LineStep /\ r' = r
    BY <1>1, IntrStep, Zenon
  <2>2. Uint(r' - r) = 0 /\ Ready \in Seq(Stored)
    BY <2>1, Apart, Zenon DEF IInv, RingAt, Contents, Dist
  <2> QED
    BY <2>1, <2>2, NoEofTaken
<1>2. ASSUME UNCHANGED vars PROVE IInv' /\ LineStep /\ EofAlone
  <2>1. UNCHANGED input /\ UNCHANGED <<ilock, pc, op, target, dst, result, killed>>
    BY <1>2, Zenon DEF vars
  <2>2. Types' /\ Calls'
    BY <2>1, SameRing, Zenon DEF IInv, Types, TypeOK, Calls
  <2>3. Returned'
    BY <2>1, SameRing, ReturnedFrame, Zenon DEF IInv
  <2> QED
    BY <2>1, <2>2, <2>3, SameRing, Zenon DEF IInv
<1> QED
  BY <1>1, <1>2, ReadStep, EnterStep, LockStep, WriteStep, UnlockStep, KillStep, Zenon DEF Next, Step

\* The inductive invariant of the console.
THEOREM Invariance == Spec => []IInv
<1>1. Init => IInv
  BY Start, Zenon
<1>2. IInv /\ [Next]_vars => IInv'
  BY StepKeeps, Zenon
<1> QED
  BY <1>1, <1>2, PTL DEF Spec

\* What the invariant says in terms of the ring.
LEMMA Seen == IInv => FullIsReadable /\ WholeLine
<1> SUFFICES ASSUME IInv PROVE FullIsReadable /\ WholeLine
  BY Zenon
<1> USE DEF IInv
<1>1. FullIsReadable
  BY Zenon DEF FullIsReadable, RingAt, Types, Dist
<1>2. EofNext => r # w /\ At(r) = "^D"
  <2>1. Len(Ready) = Dist(r, w) /\ Dist(r, w) \in Nat
    BY RingHas, Zenon
  <2>2. r \in Int /\ r + 1 - 1 = r
    BY Sizes DEF RingAt, Uints
  <2>3. EofNext => Ready[1] = At(r)
    BY <2>1, <2>2 DEF EofNext, Ready, Span, Dist
  <2> QED
    BY <2>1, <2>3, Apart DEF EofNext, RingAt
<1>3. WholeLine
  BY <1>2, Zenon DEF WholeLine, Returned, ReadsLine
<1> QED
  BY <1>1, <1>3, Zenon

\* The ring overwrites nothing, and a full one can be read to its end, wherever
\* the indices wrap.
THEOREM NothingOverwritten == Spec => []FullIsReadable
BY Invariance, Seen, PTL

\* Reads return line by line; an end of file comes alone.
THEOREM LinesOneByOne == Spec => LineByLine
<1>1. IInv /\ IInv' /\ [Next]_vars => [EofAlone /\ WholeLine']_vars
  <2>1. IInv' => WholeLine'
    BY Seen, PTL
  <2> QED
    BY <2>1, StepKeeps, Zenon
<1> QED
  BY <1>1, Invariance, PTL DEF Spec, LineByLine

\* The ring with its three indices implements the two sequences of LineInput.
THEOREM RingIsLines == Spec => IsLineInput
<1>1. Init => Lines!LInit
  BY Start, Zenon DEF Lines!LInit, Line, Ready
<1>2. IInv /\ [Next]_vars => [Lines!LNext]_<<Line, Ready>>
  BY StepKeeps, Zenon DEF LineStep
<1> QED
  BY <1>1, <1>2, Invariance, PTL DEF Spec, IsLineInput, Lines!LSpec, Line, Ready
=============================================================================
