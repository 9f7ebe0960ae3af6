------------------------ MODULE RunPartition_proofs ------------------------
(***************************************************************************)
(* Proofs about RunPartition for every set of runs, every ceiling and page *)
(* length, every interval and any number of changes of the listing.        *)
(***************************************************************************)
EXTENDS RunPartition, FiniteSetTheorems, TLAPS

Windows == [from : Nat, to : Nat]
Listings == [runs : SUBSET Run, rows : Nat, total : Nat, full : Nat, page : Nat \ {0}]
Errors == {"TRANSIENT_NETWORK", "PARTITION_LIMIT"}
Reasons == Errors \union {"DENSITY_CEILING", "PAGINATION_FAILURE", "LIVE_STATE_RACE", "CANCELLED"}

\* The types; what a listing says is kept only while a window is listed.
TypeInv ==
  /\ created \in Creations
  /\ visible \subseteq Run /\ gone \subseteq Run /\ steady \subseteq visible
  /\ visible \cap gone = {}
  /\ changes \in Nat /\ changes >= Cardinality(gone)
  /\ requested \in Requests
  /\ pc \in {"walk", "pages", "stopped", "returned", "cancelled"}
  /\ todo \in Seq(Windows)
  /\ assigned \subseteq Run
  /\ gaps \in Seq(Reasons)
  /\ pc = "pages" => total \in Nat /\ listing \in Listings /\ todo # <<>>

\* The windows still to be searched lie end to end, up to the end of the cover,
\* and meet on full seconds.
Tiled ==
  /\ \A i \in 1 .. Len(todo) : /\ todo[i].from % Sec = 0 /\ todo[i].to % Sec = 0
                               /\ todo[i].from < todo[i].to
  /\ \A i \in 1 .. (Len(todo) - 1) : todo[i].to = todo[i + 1].from
  /\ todo # <<>> => /\ Queried.from <= todo[1].from
                    /\ todo[Len(todo)].to = Queried.to

\* Where the windows that were dealt with end.
Frontier == IF todo = <<>> THEN Queried.to ELSE todo[1].from
Covered(r) == Queried.from <= created[r] /\ created[r] < Frontier

\* How many of the rows of Window the pages read so far have room for.
Room == (listing.page - 1) * PerPage
Held == Cardinality(Found(Window))

\* While runs only appear a window never holds fewer than the probe counted,
\* while they only go it never holds more; as long as it holds as many, the
\* pages read so far hold the newest of its runs.
PagesInv ==
  pc = "pages" =>
    /\ total < Ceiling
    /\ gone = {} => total <= Held
    /\ changes = Cardinality(gone) => /\ Held <= total /\ listing.total <= total
                                      /\ Room = 0 \/ Room < total
    /\ listing.rows <= Room
    /\ listing.full * PerPage <= listing.rows
    /\ OneKindOfChange /\ Held = total =>
         /\ listing.runs = {r \in Found(Window) : Rank(Window, r) < Room}
         /\ listing.rows = Cardinality(listing.runs)

\* Without a gap nothing that stayed in the listing is missing so far.
SilenceInv ==
  OneKindOfChange /\ gaps = <<>> => \A r \in steady : Covered(r) => r \in assigned

CrowdedIn(from, to) == {t \in from .. (to - 1) : t % Sec = 0 /\ Crowded(t)}
Calm == changes = 0 /\ Range(gaps) \cap Errors = {}

\* In a quiet listing every gap so far is a crowded second and nothing else is
\* missing.
QuietInv ==
  Calm /\ pc # "cancelled" =>
    /\ assigned = {r \in visible : Covered(r) /\ ~Crowded(created[r])}
    /\ Len(gaps) = Cardinality(CrowdedIn(Queried.from, Frontier))
    /\ Range(gaps) \subseteq {"DENSITY_CEILING"}

\* The enumeration ends with no window left, or with an error and its gap.
EndInv ==
  /\ pc = "stopped" => "TRANSIENT_NETWORK" \in Range(gaps)
  /\ pc = "returned" => /\ result = Within(assigned)
                        /\ todo = <<>> \/ "TRANSIENT_NETWORK" \in Range(gaps)

Inv == /\ TypeInv /\ Tiled /\ PagesInv /\ SilenceInv /\ QuietInv /\ EndInv

-----------------------------------------------------------------------------
(* Seconds.                                                                 *)

LEMMA DivMod == ASSUME NEW a \in Nat, NEW n \in Nat \ {0}
  PROVE /\ a \div n \in Nat /\ a % n \in 0 .. (n - 1)
        /\ a = n * (a \div n) + (a % n)
  OBVIOUS
LEMMA Multiple == ASSUME NEW k \in Nat, NEW n \in Nat \ {0}
  PROVE (n * k) % n = 0 /\ (n * k) \div n = k
  <1>1. n * k \in Nat
    OBVIOUS
  <1> DEFINE q == (n * k) \div n
             m == (n * k) % n
  <1>2. q \in Nat /\ m \in 0 .. (n-1) /\ n * k = n * q + m
    BY <1>1, DivMod
  <1> HIDE DEF q, m
  <1>3. n * (k - q) = m
    BY <1>2
  <1>4. CASE k - q >= 1
    <2>1. n * (k - q) >= n
      BY <1>2, <1>4
    <2> QED BY <2>1, <1>2, <1>3
  <1>5. CASE k - q <= 0 - 1
    <2>1. n * (k - q) < 0
      BY <1>2, <1>5
    <2> QED BY <2>1, <1>2, <1>3
  <1>6. k = q
    BY <1>2, <1>4, <1>5
  <1> QED BY <1>2, <1>3, <1>6 DEF q, m

LEMMA Successor ==
  ASSUME NEW n \in Nat \ {0}, NEW x \in Nat, NEW y \in Nat,
         x % n = 0, y % n = 0, x < y
  PROVE  x + n <= y /\ (x + n) % n = 0
  <1> DEFINE i == x \div n
             j == y \div n
  <1>1. i \in Nat /\ j \in Nat /\ x = n * i /\ y = n * j
    BY DivMod
  <1> HIDE DEF i, j
  <1>2. n * (j - i) > 0
    BY <1>1
  <1>3. j - i >= 1
    <2> SUFFICES ASSUME j - i <= 0 PROVE FALSE
      BY <1>1
    <2>1. n * (j - i) <= 0
      BY <1>1
    <2> QED BY <1>1, <1>2, <2>1
  <1>4. n * (j - i) >= n
    BY <1>1, <1>3
  <1>5. x + n = n * (i + 1) /\ i + 1 \in Nat
    BY <1>1
  <1>6. (x + n) % n = 0
    BY <1>5, Multiple
  <1> QED BY <1>1, <1>4, <1>6

LEMMA Midpoint ==
  ASSUME NEW n \in Nat \ {0}, NEW a \in Nat, NEW b \in Nat,
         a % n = 0, b % n = 0, b - a > n,
         NEW m, m = a + n * (((b - a) \div n) \div 2)
  PROVE  m \in Nat /\ m % n = 0 /\ a < m /\ m < b
  <1> DEFINE i == a \div n
             j == b \div n
             h == (j - i) \div 2
  <1>1. i \in Nat /\ j \in Nat /\ a = n * i /\ b = n * j
    BY DivMod
  <1> HIDE DEF i, j
  <1>2. b - a = n * (j - i)
    BY <1>1
  <1>3. j - i > 1
    <2> SUFFICES ASSUME j - i <= 1 PROVE FALSE
      BY <1>1
    <2>1. n * (j - i) <= n
      BY <1>1
    <2> QED BY <1>2, <2>1
  <1>4. (b - a) \div n = j - i
    <2>1. j - i \in Nat
      BY <1>1, <1>3
    <2> QED BY <1>2, <2>1, Multiple
  <1>5. h \in Nat /\ 1 <= h /\ h < j - i
    BY <1>1, <1>3
  <1> HIDE DEF h
  <1>6. m = n * (i + h) /\ i + h \in Nat
    <2>1. m = n * i + n * h
      BY <1>1, <1>4 DEF h
    <2> QED BY <2>1, <1>1, <1>5
  <1>7. n * h >= n /\ n * (j - i - h) >= n /\ n * h \in Nat
    BY <1>1, <1>5
  <1>8. m = a + n * h /\ b = m + n * (j - i - h)
    BY <1>1, <1>5, <1>6
  <1>9. m % n = 0
    BY <1>6, Multiple
  <1> QED BY <1>7, <1>8, <1>9

LEMMA Cover ==
  ASSUME NEW n \in Nat \ {0}, NEW a \in Nat, NEW b \in Nat, a < b,
         NEW c, c = n * (a \div n), NEW d, d = n * ((b + n - 1) \div n)
  PROVE  /\ c \in Nat /\ d \in Nat /\ c % n = 0 /\ d % n = 0
         /\ c <= a /\ b <= d
  <1> DEFINE i == a \div n
             j == (b + n - 1) \div n
  <1>1. i \in Nat /\ a % n \in 0 .. (n - 1) /\ a = c + (a % n) /\ c = n * i
    BY DivMod
  <1>2. j \in Nat /\ (b + n - 1) % n \in 0 .. (n - 1) /\ b + n - 1 = d + ((b + n - 1) % n)
        /\ d = n * j
    <2>1. b + n - 1 \in Nat
      OBVIOUS
    <2> QED BY <2>1, DivMod
  <1> HIDE DEF i, j
  <1>3. (n * i) % n = 0 /\ (n * j) % n = 0
    BY <1>1, <1>2, Multiple
  <1>4. c \in Nat /\ d \in Nat
    BY <1>1, <1>2
  <1>5. c % n = 0 /\ d % n = 0
    <2>1. c = n * i /\ d = n * j
      BY <1>1, <1>2
    <2> QED BY ONLY <1>3, <2>1
  <1> QED BY <1>1, <1>2, <1>4, <1>5

LEMMA FullPages ==
  ASSUME NEW n \in Nat \ {0}, NEW c \in Nat, c % n = 0, NEW f \in Nat, f >= c \div n
  PROVE  f * n >= c
  <1> DEFINE k == c \div n
  <1>1. k \in Nat /\ c = n * k /\ f >= k
    BY DivMod
  <1> HIDE DEF k
  <1>2. n * (f - k) >= 0
    BY <1>1
  <1> QED BY <1>1, <1>2

\* Max and Min of two numbers.
LEMMA OfTwo ==
  ASSUME NEW a \in Int, NEW b \in Int
  PROVE  /\ Max({a, b}) = IF a >= b THEN a ELSE b
         /\ Min({a, b}) = IF a <= b THEN a ELSE b
  <1>1. Max({a, b}) = IF a >= b THEN a ELSE b
    <2> DEFINE m == IF a >= b THEN a ELSE b
               P(x) == x \in {a, b} /\ \A y \in {a, b} : x >= y
    <2>1. P(m) /\ \A x : P(x) => x = m
      OBVIOUS
    <2>2. Max({a, b}) = CHOOSE x \in {a, b} : \A y \in {a, b} : x >= y
      BY DEF Max
    <2> QED BY <2>1, <2>2
  <1>2. Min({a, b}) = IF a <= b THEN a ELSE b
    <2> DEFINE m == IF a <= b THEN a ELSE b
               P(x) == x \in {a, b} /\ \A y \in {a, b} : x <= y
    <2>1. P(m) /\ \A x : P(x) => x = m
      OBVIOUS
    <2>2. Min({a, b}) = CHOOSE x \in {a, b} : \A y \in {a, b} : x <= y
      BY DEF Min
    <2> QED BY <2>1, <2>2
  <1> QED BY <1>1, <1>2

-----------------------------------------------------------------------------
(* The rows of a window.                                                    *)

\* Runs are created on full seconds, and a window holds finitely many.
LEMMA RunFacts ==
  ASSUME TypeInv
  PROVE  /\ \A r \in Run : created[r] \in Nat /\ created[r] % Sec = 0 /\ r \in Nat
         /\ IsFiniteSet(visible)
         /\ \A S \in SUBSET visible : IsFiniteSet(S) /\ Cardinality(S) \in Nat
         /\ \A w : Found(w) \in SUBSET visible
  <1>1. \A r \in Run : created[r] \in Nat /\ created[r] % Sec = 0 /\ r \in Nat
    BY PartitionAssumption DEF TypeInv, PartitionAssumption
  <1>2. IsFiniteSet(visible)
    BY PartitionAssumption, FS_Subset DEF TypeInv, PartitionAssumption
  <1>3. \A S \in SUBSET visible : IsFiniteSet(S) /\ Cardinality(S) \in Nat
    <2> SUFFICES ASSUME NEW S \in SUBSET visible PROVE IsFiniteSet(S) /\ Cardinality(S) \in Nat
      OBVIOUS
    <2>1. IsFiniteSet(S)
      BY <1>2, FS_Subset
    <2> QED BY <2>1, FS_CardinalityType
  <1>4. \A w : Found(w) \in SUBSET visible
    BY DEF Found
  <1> QED BY <1>1, <1>2, <1>3, <1>4

\* A run's rank is below the number of rows, and a newer run's rank is lower.
LEMMA RankFacts ==
  ASSUME TypeInv, NEW w
  PROVE  /\ Cardinality(Found(w)) \in Nat /\ IsFiniteSet(Found(w))
         /\ \A r \in Found(w) : Rank(w, r) \in 0 .. (Cardinality(Found(w)) - 1)
         /\ \A r, s \in Found(w) : r # s => Rank(w, r) # Rank(w, s)
  <1> DEFINE F == Found(w)
             Above(r) == {other \in F : Newer(other, r)}
  <1>1. /\ \A r \in F : created[r] \in Nat /\ r \in Nat
        /\ Cardinality(F) \in Nat /\ IsFiniteSet(F)
    BY RunFacts DEF TypeInv
  <1>2. \A r \in F : ~Newer(r, r)
    BY <1>1 DEF Newer
  <1>3. \A r, s \in F : r # s => Newer(r, s) \/ Newer(s, r)
    BY <1>1 DEF Newer
  <1>4. \A q, r, s \in F : Newer(q, r) /\ Newer(r, s) => Newer(q, s)
    BY <1>1 DEF Newer
  <1>5. \A r \in F : Rank(w, r) = Cardinality(Above(r))
    BY DEF Rank
  <1> HIDE DEF F
  <1>6. \A r \in F : /\ IsFiniteSet(Above(r)) /\ Cardinality(Above(r)) \in Nat
                     /\ Cardinality(Above(r)) <= Cardinality(F)
                     /\ Cardinality(Above(r)) # Cardinality(F)
    <2> SUFFICES ASSUME NEW r \in F
                 PROVE  /\ IsFiniteSet(Above(r)) /\ Cardinality(Above(r)) \in Nat
                        /\ Cardinality(Above(r)) <= Cardinality(F)
                        /\ Cardinality(Above(r)) # Cardinality(F)
      OBVIOUS
    <2>1. Above(r) \in SUBSET F /\ r \notin Above(r)
      BY <1>2
    <2>2. /\ IsFiniteSet(Above(r)) /\ Cardinality(Above(r)) <= Cardinality(F)
          /\ Cardinality(F) = Cardinality(Above(r)) => F = Above(r)
      BY <1>1, <2>1, FS_Subset
    <2>3. Cardinality(Above(r)) \in Nat
      BY <2>2, FS_CardinalityType
    <2> QED BY <2>1, <2>2, <2>3
  <1>7. \A r, s \in F : Newer(r, s) => Cardinality(Above(r)) < Cardinality(Above(s))
    <2> SUFFICES ASSUME NEW r \in F, NEW s \in F, Newer(r, s)
                 PROVE  Cardinality(Above(r)) < Cardinality(Above(s))
      OBVIOUS
    <2>1. Above(r) \in SUBSET Above(s) /\ r \in Above(s) /\ r \notin Above(r)
      BY <1>2, <1>4
    <2>2. /\ Cardinality(Above(r)) <= Cardinality(Above(s))
          /\ Cardinality(Above(s)) = Cardinality(Above(r)) => Above(s) = Above(r)
      BY <1>6, <2>1, FS_Subset
    <2>3. Cardinality(Above(r)) \in Nat /\ Cardinality(Above(s)) \in Nat
      BY <1>6, Zenon
    <2>4. Cardinality(Above(s)) # Cardinality(Above(r))
      BY <2>1, <2>2
    <2> HIDE DEF Above
    <2> QED BY <2>2, <2>3, <2>4
  <1>8. \A r \in F : Rank(w, r) \in 0 .. (Cardinality(F) - 1)
    <2> HIDE DEF Above
    <2> QED BY <1>1, <1>5, <1>6
  <1>9. \A r, s \in F : r # s => Rank(w, r) # Rank(w, s)
    <2> SUFFICES ASSUME NEW r \in F, NEW s \in F, r # s PROVE Rank(w, r) # Rank(w, s)
      OBVIOUS
    <2> HIDE DEF Above
    <2>1. Cardinality(Above(r)) # Cardinality(Above(s))
      BY <1>3, <1>6, <1>7
    <2> QED BY <1>5, <2>1
  <1> QED BY <1>1, <1>8, <1>9 DEF F

\* No more rows than there are ranks.
LEMMA RankInterval ==
  ASSUME TypeInv, NEW w, NEW a \in Int, NEW b \in Int,
         NEW S \in SUBSET Found(w), \A r \in S : Rank(w, r) \in a .. b
  PROVE  /\ IsFiniteSet(S) /\ Cardinality(S) \in Nat
         /\ Cardinality(S) <= IF a > b THEN 0 ELSE b - a + 1
  <1> DEFINE f == [r \in S |-> Rank(w, r)]
  <1>1. f \in [S -> a .. b]
    OBVIOUS
  <1>2. \A r, s \in S : f[r] = f[s] => r = s
    BY RankFacts
  <1>3. f \in Injection(S, a .. b)
    <2> HIDE DEF f
    <2> QED BY <1>1, <1>2 DEF Injection, IsInjective
  <1>4. IsFiniteSet(a .. b) /\ Cardinality(a .. b) = IF a > b THEN 0 ELSE b - a + 1
    BY FS_Interval
  <1>5. IsFiniteSet(S) /\ Cardinality(S) <= Cardinality(a .. b)
    <2> HIDE DEF f
    <2> QED BY <1>3, <1>4, FS_Injection
  <1>6. Cardinality(S) \in Nat
    BY <1>5, FS_CardinalityType
  <1> QED BY <1>4, <1>5, <1>6

\* A page holds the rows between its two ranks: at most PerPage, and no more
\* than the earlier pages have left over.
LEMMA PageFacts ==
  ASSUME TypeInv, NEW w, NEW p \in Nat \ {0},
         NEW K, K = (p - 1) * PerPage
  PROVE  /\ K \in Nat /\ p * PerPage = K + PerPage
         /\ SearchPage(w, p) = {r \in Found(w) : Rank(w, r) \in K .. (K + PerPage - 1)}
         /\ IsFiniteSet(SearchPage(w, p)) /\ Cardinality(SearchPage(w, p)) \in Nat
         /\ Cardinality(SearchPage(w, p)) <= PerPage
         /\ K <= Cardinality(Found(w)) =>
              Cardinality(SearchPage(w, p)) <= Cardinality(Found(w)) - K
         /\ K > Cardinality(Found(w)) => Cardinality(SearchPage(w, p)) = 0
  <1> DEFINE S == SearchPage(w, p)
             n == Cardinality(Found(w))
  <1>1. PerPage \in Nat \ {0}
    BY PartitionAssumption DEF PartitionAssumption
  <1>2. K \in Nat /\ p * PerPage = K + PerPage
    BY <1>1
  <1>3. S = {r \in Found(w) : Rank(w, r) \in K .. (K + PerPage - 1)}
    <2>1. (p - 1) * PerPage = K /\ p * PerPage - 1 = K + PerPage - 1
      BY <1>1, <1>2
    <2>2. S = {r \in Found(w) : Rank(w, r) \in ((p - 1) * PerPage) .. (p * PerPage - 1)}
      BY DEF SearchPage
    <2> QED BY ONLY <2>1, <2>2, Zenon
  <1>4. n \in Nat /\ \A r \in Found(w) : Rank(w, r) \in 0 .. (n - 1)
    BY RankFacts
  <1> HIDE DEF S, n
  <1>5. /\ S \in SUBSET Found(w)
        /\ \A r \in S : Rank(w, r) \in K .. (K + PerPage - 1)
        /\ \A r \in S : Rank(w, r) \in K .. (n - 1)
    <2>1. S \in SUBSET Found(w) /\ \A r \in S : Rank(w, r) \in K .. (K + PerPage - 1)
      BY <1>3
    <2>2. \A r \in S : Rank(w, r) \in K .. (n - 1)
      BY <1>1, <1>2, <1>4, <2>1
    <2> QED BY <2>1, <2>2
  <1>6. /\ IsFiniteSet(S) /\ Cardinality(S) \in Nat
        /\ Cardinality(S) <= IF K > K + PerPage - 1 THEN 0 ELSE K + PerPage - 1 - K + 1
    <2> DEFINE top == K + PerPage - 1
    <2>1. K \in Int /\ top \in Int
      BY <1>1, <1>2
    <2>2. \A r \in S : Rank(w, r) \in K .. top
      BY <1>5
    <2> HIDE DEF top
    <2>3. /\ IsFiniteSet(S) /\ Cardinality(S) \in Nat
          /\ Cardinality(S) <= IF K > top THEN 0 ELSE top - K + 1
      BY <1>5, <2>1, <2>2, RankInterval
    <2> QED BY <1>1, <1>2, <2>3 DEF top
  <1>7. Cardinality(S) <= IF K > n - 1 THEN 0 ELSE n - 1 - K + 1
    <2>1. K \in Int /\ n - 1 \in Int
      BY <1>2, <1>4
    <2> QED BY <1>5, <2>1, RankInterval
  <1>8. Cardinality(S) <= PerPage
    BY <1>1, <1>2, <1>6
  <1>9. /\ K <= n => Cardinality(S) <= n - K
        /\ K > n => Cardinality(S) = 0
    BY <1>2, <1>4, <1>6, <1>7
  <1> QED BY <1>2, <1>3, <1>6, <1>8, <1>9 DEF S, n

\* The listing with one more page still holds the newest rows, if it did.
LEMMA WithPageFacts ==
  ASSUME TypeInv, PagesInv, pc = "pages"
  PROVE  /\ Room \in Nat /\ Held \in Nat /\ IsFiniteSet(Found(Window))
         /\ WithPage \in Listings
         /\ WithPage.page = listing.page + 1
         /\ listing.page * PerPage = Room + PerPage
         /\ WithPage.rows <= Room + PerPage
         /\ WithPage.full * PerPage <= WithPage.rows
         /\ WithPage.total = IF listing.total >= Held THEN listing.total ELSE Held
         /\ Room <= Held => WithPage.rows <= Held
         /\ Room > Held => WithPage.rows <= Room
         /\ OneKindOfChange /\ Held = total =>
              /\ WithPage.runs = {r \in Found(Window) : Rank(Window, r) < Room + PerPage}
              /\ WithPage.rows = Cardinality(WithPage.runs)
  <1> DEFINE page == SearchPage(Window, listing.page)
             size == Cardinality(page)
  <1>1. /\ listing \in Listings /\ total \in Nat
        /\ PerPage \in Nat \ {0}
    BY PartitionAssumption DEF TypeInv, PartitionAssumption
  <1>2. /\ listing.page \in Nat \ {0} /\ listing.rows \in Nat /\ listing.full \in Nat
        /\ listing.total \in Nat /\ listing.runs \subseteq Run
    BY <1>1 DEF Listings
  <1>3. /\ Room \in Nat /\ listing.page * PerPage = Room + PerPage
        /\ page = {r \in Found(Window) : Rank(Window, r) \in Room .. (Room + PerPage - 1)}
        /\ IsFiniteSet(page) /\ size \in Nat /\ size <= PerPage
        /\ Room <= Held => size <= Held - Room
        /\ Room > Held => size = 0
    <2>1. Room = (listing.page - 1) * PerPage
      BY DEF Room
    <2> HIDE DEF page, size
    <2>2. /\ Room \in Nat /\ listing.page * PerPage = Room + PerPage
          /\ SearchPage(Window, listing.page)
               = {r \in Found(Window) : Rank(Window, r) \in Room .. (Room + PerPage - 1)}
          /\ IsFiniteSet(SearchPage(Window, listing.page))
          /\ Cardinality(SearchPage(Window, listing.page)) \in Nat
          /\ Cardinality(SearchPage(Window, listing.page)) <= PerPage
          /\ Room <= Cardinality(Found(Window)) =>
               Cardinality(SearchPage(Window, listing.page)) <= Cardinality(Found(Window)) - Room
          /\ Room > Cardinality(Found(Window)) => Cardinality(SearchPage(Window, listing.page)) = 0
      BY <1>2, <2>1, PageFacts
    <2> QED BY <2>2 DEF page, size, Held
  <1>4. /\ Held \in Nat /\ IsFiniteSet(Found(Window)) /\ Found(Window) \subseteq Run
        /\ \A r \in Found(Window) : Rank(Window, r) \in 0 .. (Held - 1)
    BY RankFacts, RunFacts DEF Held, TypeInv
  <1>5. WithPage = [runs |-> listing.runs \union page,
                    rows |-> listing.rows + size,
                    total |-> Max({listing.total, Held}),
                    full |-> IF size = PerPage THEN listing.full + 1 ELSE listing.full,
                    page |-> listing.page + 1]
    BY DEF WithPage, Held
  <1>6. Max({listing.total, Held}) = IF listing.total >= Held THEN listing.total ELSE Held
    BY <1>2, <1>4, OfTwo
  <1>7. listing.rows <= Room /\ listing.full * PerPage <= listing.rows
    BY DEF PagesInv
  <1>8. ASSUME OneKindOfChange, Held = total
        PROVE  /\ listing.runs \union page = {r \in Found(Window) : Rank(Window, r) < Room + PerPage}
               /\ listing.rows + size = Cardinality(listing.runs \union page)
    <2>1. /\ listing.runs = {r \in Found(Window) : Rank(Window, r) < Room}
          /\ listing.rows = Cardinality(listing.runs)
      BY <1>8 DEF PagesInv
    <2>2. IsFiniteSet(listing.runs) /\ listing.runs \cap page = {}
      <3>1. listing.runs \in SUBSET Found(Window)
        BY <2>1
      <3>2. IsFiniteSet(listing.runs)
        BY <1>4, <3>1, FS_Subset
      <3>3. ASSUME NEW r \in listing.runs, r \in page PROVE FALSE
        BY <1>3, <1>4, <2>1, <3>3
      <3> QED BY <3>2, <3>3
    <2>3. Cardinality(listing.runs \union page)
            = Cardinality(listing.runs) + Cardinality(page) - Cardinality(listing.runs \cap page)
      BY <1>3, <2>2, FS_Union
    <2>4. Cardinality(listing.runs \cap page) = 0
      BY <2>2, FS_EmptySet
    <2>5. listing.rows + size = Cardinality(listing.runs \union page)
      BY <1>2, <1>3, <2>1, <2>3, <2>4
    <2>6. ASSUME NEW r \in Found(Window)
          PROVE  (Rank(Window, r) < Room \/ Rank(Window, r) \in Room .. (Room + PerPage - 1))
                   <=> Rank(Window, r) < Room + PerPage
      BY <1>1, <1>3, <1>4
    <2> QED BY <1>3, <2>1, <2>5, <2>6
  <1>9. (listing.full + 1) * PerPage = listing.full * PerPage + PerPage
        /\ listing.full * PerPage \in Nat
    BY <1>1, <1>2
  <1> HIDE DEF page, size
  <1>10. page \subseteq Run
    BY <1>3, <1>4
  <1>11. WithPage \in Listings
    <2>1. Max({listing.total, Held}) \in Nat
      BY <1>2, <1>4, <1>6
    <2> QED BY <1>2, <1>3, <1>5, <1>10, <2>1 DEF Listings
  <1>12. /\ WithPage.page = listing.page + 1
         /\ WithPage.rows = listing.rows + size
         /\ WithPage.runs = listing.runs \union page
         /\ WithPage.total = Max({listing.total, Held})
         /\ WithPage.full = IF size = PerPage THEN listing.full + 1 ELSE listing.full
    BY <1>5
  <1>13. WithPage.rows <= Room + PerPage
    BY <1>1, <1>2, <1>3, <1>7, <1>12
  <1>14. WithPage.full * PerPage <= WithPage.rows
    <2>1. CASE size = PerPage
      BY <1>1, <1>2, <1>3, <1>7, <1>9, <1>12, <2>1
    <2>2. CASE size # PerPage
      BY <1>1, <1>2, <1>3, <1>7, <1>9, <1>12, <2>2
    <2> QED BY <2>1, <2>2
  <1>15. /\ Room <= Held => WithPage.rows <= Held
         /\ Room > Held => WithPage.rows <= Room
    BY <1>2, <1>3, <1>4, <1>7, <1>12
  <1> QED BY <1>3, <1>4, <1>6, <1>8, <1>11, <1>12, <1>13, <1>14, <1>15

-----------------------------------------------------------------------------
(* The windows.                                                             *)

\* The window that is searched next.
LEMMA FirstWindow ==
  ASSUME TypeInv, Tiled, todo # <<>>
  PROVE  /\ Window = todo[1] /\ Window \in Windows
         /\ Len(todo) \in Nat \ {0}
         /\ Window.from % Sec = 0 /\ Window.to % Sec = 0 /\ Window.from < Window.to
         /\ Window.from \in Nat /\ Window.to \in Nat
         /\ Frontier = Window.from /\ Queried.from <= Window.from
         /\ Tail(todo) \in Seq(Windows) /\ Len(Tail(todo)) = Len(todo) - 1
         /\ \A i \in 1 .. Len(Tail(todo)) : Tail(todo)[i] = todo[i + 1]
  <1>1. todo \in Seq(Windows) /\ Len(todo) \in Nat \ {0} /\ Window = todo[1] /\ Window \in Windows
    BY DEF TypeInv, Window
  <1>2. /\ Tail(todo) \in Seq(Windows) /\ Len(Tail(todo)) = Len(todo) - 1
        /\ \A i \in 1 .. Len(Tail(todo)) : Tail(todo)[i] = todo[i + 1]
    BY <1>1
  <1>3. 1 \in 1 .. Len(todo)
    BY <1>1
  <1>4. /\ Window.from % Sec = 0 /\ Window.to % Sec = 0 /\ Window.from < Window.to
        /\ Queried.from <= Window.from /\ Frontier = Window.from
    BY <1>1, <1>3 DEF Tiled, Frontier
  <1> QED BY <1>1, <1>2, <1>4 DEF Windows

\* Leaving the next window unsplit moves the frontier to its end.
LEMMA TailTiles ==
  ASSUME TypeInv, Tiled, todo # <<>>, todo' = Tail(todo), requested' = requested
  PROVE  /\ Tiled' /\ todo' \in Seq(Windows)
         /\ Frontier' = Window.to
         /\ Queried' = Queried
  <1>1. Queried' = Queried
    BY DEF Queried
  <1>2. /\ Window = todo[1] /\ Len(todo) \in Nat \ {0}
        /\ todo' \in Seq(Windows) /\ Len(todo') = Len(todo) - 1
        /\ \A i \in 1 .. Len(todo') : todo'[i] = todo[i + 1]
    BY FirstWindow
  <1>3. todo' # <<>> <=> Len(todo) > 1
    <2>1. \A s \in Seq(Windows) : s = <<>> <=> Len(s) = 0
      OBVIOUS
    <2>2. todo' = <<>> <=> Len(todo') = 0
      BY <1>2, <2>1
    <2> QED BY <1>2, <2>2
  <1>4. \A i \in 1 .. Len(todo') : /\ todo'[i].from % Sec = 0 /\ todo'[i].to % Sec = 0
                                   /\ todo'[i].from < todo'[i].to
    <2> SUFFICES ASSUME NEW i \in 1 .. Len(todo')
                 PROVE  /\ todo'[i].from % Sec = 0 /\ todo'[i].to % Sec = 0
                        /\ todo'[i].from < todo'[i].to
      OBVIOUS
    <2>1. i + 1 \in 1 .. Len(todo) /\ todo'[i] = todo[i + 1]
      BY <1>2
    <2> QED BY <2>1 DEF Tiled
  <1>5. \A i \in 1 .. (Len(todo') - 1) : todo'[i].to = todo'[i + 1].from
    <2> SUFFICES ASSUME NEW i \in 1 .. (Len(todo') - 1)
                 PROVE  todo'[i].to = todo'[i + 1].from
      OBVIOUS
    <2>1. /\ i + 1 \in 1 .. (Len(todo) - 1)
          /\ todo'[i] = todo[i + 1] /\ todo'[i + 1] = todo[(i + 1) + 1]
      BY <1>2
    <2> QED BY <2>1 DEF Tiled
  <1>6. CASE Len(todo) = 1
    <2>1. todo' = <<>> /\ Window.to = Queried.to
      BY <1>2, <1>3, <1>6 DEF Tiled
    <2>2. Frontier' = Window.to
      BY <1>1, <2>1 DEF Frontier
    <2> QED BY <1>1, <1>2, <1>4, <1>5, <2>1, <2>2 DEF Tiled
  <1>7. CASE Len(todo) > 1
    <2>1. /\ 1 \in 1 .. (Len(todo) - 1) /\ 1 \in 1 .. Len(todo') /\ Len(todo') \in 1 .. Len(todo')
          /\ todo'[1] = todo[1 + 1] /\ todo'[Len(todo')] = todo[Len(todo)]
      BY <1>2, <1>7
    <2>2. todo[1].to = todo[1 + 1].from /\ todo[1].from < todo[1].to
          /\ Queried.from <= todo[1].from /\ todo[Len(todo)].to = Queried.to
      BY <1>7, <2>1 DEF Tiled
    <2>3. Frontier' = Window.to
      BY <1>2, <1>3, <1>7, <2>1, <2>2 DEF Frontier
    <2>4. Queried.from <= todo'[1].from
      <3>1. /\ todo[1].from \in Nat /\ todo[1].to \in Nat
        BY FirstWindow
      <3>2. Queried.from \in Nat
        BY PartitionAssumption, Cover DEF Queried, secondCover, TypeInv, PartitionAssumption
      <3> QED BY <2>1, <2>2, <3>1, <3>2
    <2> QED BY <1>1, <1>2, <1>4, <1>5, <2>1, <2>2, <2>3, <2>4 DEF Tiled
  <1> QED BY <1>2, <1>6, <1>7

\* Splitting the next window moves nothing.
LEMMA SplitTiles ==
  ASSUME TypeInv, Tiled, todo # <<>>, Splittable(Window),
         todo' = splitWindow(Window) \o Tail(todo), requested' = requested
  PROVE  /\ Tiled' /\ todo' \in Seq(Windows) /\ todo' # <<>>
         /\ Frontier' = Frontier
         /\ Queried' = Queried
  <1> DEFINE mid == Window.from + Sec * (((Window.to - Window.from) \div Sec) \div 2)
             lower == [from |-> Window.from, to |-> mid]
             upper == [from |-> mid, to |-> Window.to]
  <1>1. Queried' = Queried
    BY DEF Queried
  <1>2. /\ Window = todo[1] /\ Len(todo) \in Nat \ {0}
        /\ Window.from % Sec = 0 /\ Window.to % Sec = 0
        /\ Window.from \in Nat /\ Window.to \in Nat
        /\ Frontier = Window.from /\ Queried.from <= Window.from
        /\ Tail(todo) \in Seq(Windows) /\ Len(Tail(todo)) = Len(todo) - 1
        /\ \A i \in 1 .. Len(Tail(todo)) : Tail(todo)[i] = todo[i + 1]
    BY FirstWindow
  <1>3. /\ mid \in Nat /\ mid % Sec = 0 /\ Window.from < mid /\ mid < Window.to
    <2>1. Sec \in Nat \ {0} /\ Window.to - Window.from > Sec
      BY PartitionAssumption DEF PartitionAssumption, Splittable
    <2> QED BY <1>2, <2>1, Midpoint
  <1>4. splitWindow(Window) = <<lower, upper>>
    BY DEF splitWindow
  <1> HIDE DEF mid
  <1>5. lower \in Windows /\ upper \in Windows
    BY <1>2, <1>3 DEF Windows
  <1>6. /\ lower.from = Window.from /\ lower.to = mid /\ upper.from = mid /\ upper.to = Window.to
    OBVIOUS
  <1> HIDE DEF lower, upper
  <1>7. /\ todo' \in Seq(Windows) /\ Len(todo') = Len(todo) + 1
        /\ todo'[1] = lower /\ todo'[2] = upper
        /\ \A i \in 3 .. Len(todo') : todo'[i] = todo[i - 1]
    <2>1. <<lower, upper>> \in Seq(Windows)
      BY <1>5
    <2>2. /\ todo' = <<lower, upper>> \o Tail(todo) /\ Len(<<lower, upper>>) = 2
      BY <1>4
    <2>3. todo' \in Seq(Windows) /\ Len(todo') = Len(todo) + 1
      <3>1. Tail(todo) \in Seq(Windows) /\ Len(Tail(todo)) = Len(todo) - 1 /\ Len(todo) \in Nat
        BY <1>2
      <3>2. \A s, t \in Seq(Windows) : s \o t \in Seq(Windows) /\ Len(s \o t) = Len(s) + Len(t)
        OBVIOUS
      <3>3. todo' \in Seq(Windows) /\ Len(todo') = Len(<<lower, upper>>) + Len(Tail(todo))
        BY <2>1, <2>2, <3>1, <3>2
      <3> QED BY <2>2, <3>1, <3>3
    <2>4. todo'[1] = lower /\ todo'[2] = upper
      BY <1>2, <2>1, <2>2
    <2>5. ASSUME NEW i \in 3 .. Len(todo') PROVE todo'[i] = todo[i - 1]
      <3>1. todo'[i] = Tail(todo)[i - 2] /\ i - 2 \in 1 .. Len(Tail(todo))
        BY <1>2, <2>1, <2>2, <2>3
      <3>2. Tail(todo)[i - 2] = todo[(i - 2) + 1]
        BY <1>2, <3>1
      <3>3. (i - 2) + 1 = i - 1
        BY <1>2, <2>3
      <3> QED BY <3>1, <3>2, <3>3
    <2> QED BY <2>3, <2>4, <2>5
  <1>8. ASSUME NEW i \in 1 .. Len(todo')
        PROVE  /\ todo'[i].from % Sec = 0 /\ todo'[i].to % Sec = 0
               /\ todo'[i].from < todo'[i].to
    <2>1. CASE i = 1
      BY <1>2, <1>3, <1>6, <1>7, <2>1
    <2>2. CASE i = 2
      BY <1>2, <1>3, <1>6, <1>7, <2>2
    <2>3. CASE i \in 3 .. Len(todo')
      <3>1. i - 1 \in 1 .. Len(todo) /\ todo'[i] = todo[i - 1]
        BY <1>2, <1>7, <2>3
      <3> QED BY <3>1 DEF Tiled
    <2> QED BY <1>2, <1>7, <2>1, <2>2, <2>3
  <1>9. ASSUME NEW i \in 1 .. (Len(todo') - 1)
        PROVE  todo'[i].to = todo'[i + 1].from
    <2>1. CASE i = 1
      BY <1>6, <1>7, <2>1
    <2>2. CASE i = 2
      <3>1. todo'[i + 1] = todo[2] /\ 1 \in 1 .. (Len(todo) - 1) /\ todo'[i] = upper
        BY <1>2, <1>7, <2>2
      <3>2. todo[1].to = todo[2].from
        BY <3>1 DEF Tiled
      <3> QED BY <1>2, <1>6, <3>1, <3>2
    <2>3. CASE i \in 3 .. (Len(todo') - 1)
      <3>1. /\ i - 1 \in 1 .. (Len(todo) - 1) /\ (i - 1) + 1 = i
            /\ todo'[i] = todo[i - 1] /\ todo'[i + 1] = todo[i]
        <4>1. i \in 3 .. Len(todo') /\ i + 1 \in 3 .. Len(todo') /\ (i + 1) - 1 = i
          BY <1>2, <1>7, <2>3
        <4>2. todo'[i] = todo[i - 1] /\ todo'[i + 1] = todo[(i + 1) - 1]
          BY <1>7, <4>1
        <4> QED BY <1>2, <1>7, <2>3, <4>1, <4>2
      <3>2. todo[i - 1].to = todo[(i - 1) + 1].from
        BY <3>1 DEF Tiled
      <3> QED BY <3>1, <3>2
    <2> QED BY <1>2, <1>7, <2>1, <2>2, <2>3
  <1>10. todo' # <<>> /\ Queried.from <= todo'[1].from /\ Frontier' = Frontier
    <2>1. todo' # <<>>
      BY <1>2, <1>7
    <2> QED BY <1>2, <1>6, <1>7, <2>1 DEF Frontier
  <1>11. todo'[Len(todo')].to = Queried'.to
    <2>1. todo[Len(todo)].to = Queried.to
      BY DEF Tiled
    <2>2. CASE Len(todo) = 1
      BY <1>1, <1>2, <1>6, <1>7, <2>1, <2>2
    <2>3. CASE Len(todo) > 1
      <3>1. Len(todo') \in 3 .. Len(todo') /\ Len(todo') - 1 = Len(todo)
        BY <1>2, <1>7, <2>3
      <3>2. todo'[Len(todo')] = todo[Len(todo)]
        BY <1>7, <3>1
      <3> QED BY <1>1, <2>1, <3>2
    <2>4. Len(todo) = 1 \/ Len(todo) > 1
      BY <1>2
    <2> QED BY <2>2, <2>3, <2>4
  <1> QED BY <1>1, <1>7, <1>8, <1>9, <1>10, <1>11 DEF Tiled

-----------------------------------------------------------------------------
(* GitHub's steps.                                                          *)

\* Before the first request nothing was searched and nothing is missing.
LEMMA InitInv == Init => Inv
  <1> SUFFICES ASSUME Init PROVE Inv
    OBVIOUS
  <1>1. /\ IsFiniteSet({}) /\ Cardinality({}) = 0
    BY FS_EmptySet
  <1>2. /\ requested.from \in Nat /\ requested.to \in Nat /\ requested.from < requested.to
        /\ requested \in Requests
        /\ Sec \in Nat \ {0}
    BY PartitionAssumption DEF Init, PartitionAssumption
  <1>3. /\ Queried.from \in Nat /\ Queried.to \in Nat
        /\ Queried.from % Sec = 0 /\ Queried.to % Sec = 0
        /\ Queried.from < Queried.to
        /\ Queried = [from |-> Queried.from, to |-> Queried.to]
    <2>1. /\ Queried.from = Sec * (requested.from \div Sec)
          /\ Queried.to = Sec * ((requested.to + Sec - 1) \div Sec)
          /\ Queried = [from |-> Queried.from, to |-> Queried.to]
      BY DEF Queried, secondCover
    <2>2. /\ Queried.from \in Nat /\ Queried.to \in Nat
          /\ Queried.from % Sec = 0 /\ Queried.to % Sec = 0
          /\ Queried.from <= requested.from /\ requested.to <= Queried.to
      BY <1>2, <2>1, Cover
    <2> QED BY <1>2, <2>1, <2>2
  <1>4. todo = <<Queried>> /\ Queried \in Windows
    BY <1>3 DEF Init, Queried, Windows
  <1>5. TypeInv
    BY <1>1, <1>2, <1>4 DEF Init, TypeInv
  <1>6. Tiled
    BY <1>3, <1>4 DEF Tiled
  <1>7. Frontier = Queried.from
    BY <1>4 DEF Frontier
  <1>8. SilenceInv
    BY <1>3, <1>5, <1>7, RunFacts DEF SilenceInv, Covered, TypeInv
  <1>9. QuietInv
    <2>1. assigned = {} /\ gaps = <<>> /\ Len(gaps) = 0 /\ Range(gaps) = {}
      BY DEF Init, Range
    <2>2. {r \in visible : Covered(r) /\ ~Crowded(created[r])} = {}
      BY <1>3, <1>5, <1>7, RunFacts DEF Covered, TypeInv
    <2>3. CrowdedIn(Queried.from, Frontier) = {}
      BY <1>3, <1>7 DEF CrowdedIn
    <2> QED BY <1>1, <2>1, <2>2, <2>3 DEF QuietInv
  <1>10. PagesInv /\ EndInv
    BY DEF Init, PagesInv, EndInv
  <1> QED BY <1>5, <1>6, <1>8, <1>9, <1>10 DEF Inv

\* A change of the listing: what was counted and read of the window in hand is
\* current only if the change does not concern it.
LEMMA GitHubStep ==
  ASSUME Inv, NEW r \in Run, Appear(r) \/ Delete(r)
  PROVE  Inv'
  <1>1. /\ created' = created /\ UNCHANGED enumeration /\ changes' = changes + 1
    BY DEF Appear, Delete
  <1>2. /\ requested' = requested /\ pc' = pc /\ todo' = todo /\ total' = total
        /\ listing' = listing /\ assigned' = assigned /\ gaps' = gaps /\ result' = result
    BY <1>1 DEF enumeration
  <1>3. /\ TypeInv /\ Tiled /\ PagesInv /\ SilenceInv /\ QuietInv /\ EndInv
    BY DEF Inv
  <1>4. /\ IsFiniteSet(gone) /\ Cardinality(gone) \in Nat /\ changes \in Nat
        /\ changes >= Cardinality(gone)
    <2>1. IsFiniteSet(gone)
      BY <1>3, PartitionAssumption, FS_Subset DEF TypeInv, PartitionAssumption
    <2> QED BY <1>3, <2>1, FS_CardinalityType DEF TypeInv
  <1>5. CASE Appear(r)
    <2>1. /\ r \notin visible /\ r \notin gone
          /\ visible' = visible \union {r} /\ gone' = gone /\ steady' = steady
      BY <1>5 DEF Appear
    <2>2. changes' # Cardinality(gone')
      BY <1>1, <1>4, <2>1
    <2>3. OneKindOfChange' => gone = {}
      BY <2>1, <2>2 DEF OneKindOfChange
    <2>4. TypeInv'
      BY <1>1, <1>2, <1>3, <1>4, <2>1 DEF TypeInv
    <2>5. PagesInv'
      <3> SUFFICES ASSUME pc = "pages" PROVE PagesInv'
        BY <1>2 DEF PagesInv
      <3>1. /\ total < Ceiling /\ listing.rows <= Room /\ listing.full * PerPage <= listing.rows
            /\ gone = {} => total <= Held
            /\ Room' = Room /\ Window' = Window /\ total \in Nat
        BY <1>2, <1>3 DEF PagesInv, Room, Window, TypeInv
      <3>2. /\ IsFiniteSet(Found(Window)) /\ Held = Cardinality(Found(Window)) /\ Held \in Nat
        BY <1>3, RankFacts DEF Held
      <3>3. CASE r \in Found(Window)'
        <4>1. Found(Window)' = Found(Window) \union {r} /\ r \notin Found(Window)
          BY <1>1, <2>1, <3>1, <3>3 DEF Found
        <4>2. Held' = Held + 1
          BY <3>2, <4>1, FS_AddElement DEF Held
        <4>3. gone' = {} => total' < Held'
          BY <1>2, <2>1, <3>1, <3>2, <4>2
        <4>4. ~(OneKindOfChange' /\ Held' = total')
          BY <2>1, <2>3, <3>1, <3>2, <4>2, <4>3
        <4> QED BY <1>2, <2>2, <3>1, <3>2, <4>2, <4>3, <4>4 DEF PagesInv
      <3>4. CASE r \notin Found(Window)'
        <4>1. Found(Window)' = Found(Window)
          BY <1>1, <2>1, <3>1, <3>4 DEF Found
        <4>2. Held' = Held
          BY <4>1 DEF Held
        <4>3. \A x : Rank(Window, x)' = Rank(Window, x)
          BY <1>1, <4>1 DEF Rank, Newer
        <4>4. OneKindOfChange' /\ Held' = total' =>
                /\ listing.runs = {x \in Found(Window) : Rank(Window, x) < Room}
                /\ listing.rows = Cardinality(listing.runs)
          BY <1>2, <1>3, <2>3, <4>2 DEF PagesInv, OneKindOfChange
        <4>5. OneKindOfChange' /\ Held' = total' =>
                /\ listing'.runs = {x \in Found(Window)' : Rank(Window, x)' < Room'}
                /\ listing'.rows = Cardinality(listing'.runs)
          BY <1>2, <3>1, <4>1, <4>3, <4>4
        <4> QED BY <1>2, <2>1, <2>2, <3>1, <4>2, <4>5 DEF PagesInv
      <3> QED BY <3>3, <3>4
    <2>6. SilenceInv'
      <3>1. OneKindOfChange' => OneKindOfChange
        BY <2>3 DEF OneKindOfChange
      <3> QED BY <1>1, <1>2, <1>3, <2>1, <3>1 DEF SilenceInv, Covered, Frontier, Queried
    <2>7. QuietInv'
      BY <1>1, <1>4 DEF QuietInv, Calm
    <2>8. Tiled' /\ EndInv'
      BY <1>1, <1>2, <1>3 DEF Tiled, Queried, EndInv, Within
    <2> QED BY <2>4, <2>5, <2>6, <2>7, <2>8 DEF Inv
  <1>6. CASE Delete(r)
    <2>1. /\ r \in visible
          /\ visible' = visible \ {r} /\ gone' = gone \union {r} /\ steady' = steady \ {r}
      BY <1>6 DEF Delete
    <2>2. Cardinality(gone') = Cardinality(gone) + 1 /\ gone' # {}
      <3>1. r \notin gone
        BY <1>3, <2>1 DEF TypeInv
      <3> QED BY <1>4, <2>1, <3>1, FS_AddElement
    <2>3. OneKindOfChange' => changes = Cardinality(gone)
      BY <1>1, <1>4, <2>2 DEF OneKindOfChange
    <2>4. TypeInv'
      BY <1>1, <1>2, <1>3, <1>4, <2>1, <2>2 DEF TypeInv
    <2>5. PagesInv'
      <3> SUFFICES ASSUME pc = "pages" PROVE PagesInv'
        BY <1>2 DEF PagesInv
      <3>1. /\ total < Ceiling /\ listing.rows <= Room /\ listing.full * PerPage <= listing.rows
            /\ changes = Cardinality(gone) => /\ Held <= total /\ listing.total <= total
                                              /\ Room = 0 \/ Room < total
            /\ Room' = Room /\ Window' = Window /\ total \in Nat
            /\ changes' = Cardinality(gone') => changes = Cardinality(gone)
        BY <1>1, <1>2, <1>3, <1>4, <2>2 DEF PagesInv, Room, Window, TypeInv
      <3>2. /\ IsFiniteSet(Found(Window)) /\ Held = Cardinality(Found(Window)) /\ Held \in Nat
        BY <1>3, RankFacts DEF Held
      <3>3. CASE r \in Found(Window)
        <4>1. Found(Window)' = Found(Window) \ {r}
          BY <1>1, <2>1, <3>1, <3>3 DEF Found
        <4>2. Held' = Held - 1
          BY <3>2, <3>3, <4>1, FS_RemoveElement DEF Held
        <4>3. changes' = Cardinality(gone') => Held' <= total' /\ Held' # total'
          BY <1>2, <3>1, <3>2, <4>2
        <4>4. ~(OneKindOfChange' /\ Held' = total')
          BY <2>2, <4>3 DEF OneKindOfChange
        <4> QED BY <1>2, <2>2, <3>1, <3>2, <4>2, <4>3, <4>4 DEF PagesInv
      <3>4. CASE r \notin Found(Window)
        <4>1. Found(Window)' = Found(Window)
          BY <1>1, <2>1, <3>1, <3>4 DEF Found
        <4>2. Held' = Held
          BY <4>1 DEF Held
        <4>3. \A x : Rank(Window, x)' = Rank(Window, x)
          BY <1>1, <4>1 DEF Rank, Newer
        <4>4. OneKindOfChange' /\ Held' = total' =>
                /\ listing.runs = {x \in Found(Window) : Rank(Window, x) < Room}
                /\ listing.rows = Cardinality(listing.runs)
          BY <1>2, <1>3, <2>3, <4>2 DEF PagesInv, OneKindOfChange
        <4>5. OneKindOfChange' /\ Held' = total' =>
                /\ listing'.runs = {x \in Found(Window)' : Rank(Window, x)' < Room'}
                /\ listing'.rows = Cardinality(listing'.runs)
          BY <1>2, <3>1, <4>1, <4>3, <4>4
        <4> QED BY <1>2, <2>1, <2>2, <3>1, <4>2, <4>5 DEF PagesInv
      <3> QED BY <3>3, <3>4
    <2>6. SilenceInv'
      <3>1. OneKindOfChange' => OneKindOfChange
        BY <2>3 DEF OneKindOfChange
      <3> QED BY <1>1, <1>2, <1>3, <2>1, <3>1 DEF SilenceInv, Covered, Frontier, Queried
    <2>7. QuietInv'
      BY <1>1, <1>4 DEF QuietInv, Calm
    <2>8. Tiled' /\ EndInv'
      BY <1>1, <1>2, <1>3 DEF Tiled, Queried, EndInv, Within
    <2> QED BY <2>4, <2>5, <2>6, <2>7, <2>8 DEF Inv
  <1> QED BY <1>5, <1>6

-----------------------------------------------------------------------------
(* The steps of the enumeration.                                            *)

\* A list of gaps with more gaps behind it.
LEMMA GapsAppend ==
  ASSUME NEW a \in Seq(Reasons), NEW b \in Seq(Reasons)
  PROVE  /\ a \o b \in Seq(Reasons)
         /\ Len(a \o b) = Len(a) + Len(b) /\ Len(a) \in Nat /\ Len(b) \in Nat
         /\ Range(a \o b) = Range(a) \union Range(b)
         /\ a \o b = <<>> => a = <<>> /\ b = <<>>
  <1>1. /\ a \o b \in Seq(Reasons)
        /\ Len(a \o b) = Len(a) + Len(b) /\ Len(a) \in Nat /\ Len(b) \in Nat
        /\ DOMAIN a = 1 .. Len(a) /\ DOMAIN b = 1 .. Len(b)
        /\ DOMAIN (a \o b) = 1 .. (Len(a) + Len(b))
        /\ \A i \in 1 .. Len(a) : (a \o b)[i] = a[i]
        /\ \A i \in 1 .. Len(b) : (a \o b)[Len(a) + i] = b[i]
    OBVIOUS
  <1>2. ASSUME NEW x \in Range(a \o b) PROVE x \in Range(a) \/ x \in Range(b)
    <2>1. PICK i \in 1 .. (Len(a) + Len(b)) : x = (a \o b)[i]
      BY <1>1 DEF Range
    <2>2. CASE i <= Len(a)
      <3>1. i \in 1 .. Len(a)
        BY <1>1, <2>2
      <3> QED BY <1>1, <2>1, <3>1 DEF Range
    <2>3. CASE i > Len(a)
      <3>1. i - Len(a) \in 1 .. Len(b) /\ Len(a) + (i - Len(a)) = i
        BY <1>1, <2>3
      <3>2. x = b[i - Len(a)]
        BY <1>1, <2>1, <3>1
      <3> QED BY <1>1, <3>1, <3>2 DEF Range
    <2> QED BY <1>1, <2>2, <2>3
  <1>3. ASSUME NEW x \in Range(a) PROVE x \in Range(a \o b)
    <2>1. PICK i \in 1 .. Len(a) : x = a[i]
      BY <1>1 DEF Range
    <2>2. i \in DOMAIN (a \o b) /\ x = (a \o b)[i]
      BY <1>1, <2>1
    <2> QED BY <2>2 DEF Range
  <1>4. ASSUME NEW x \in Range(b) PROVE x \in Range(a \o b)
    <2>1. PICK i \in 1 .. Len(b) : x = b[i]
      BY <1>1 DEF Range
    <2>2. Len(a) + i \in DOMAIN (a \o b) /\ x = (a \o b)[Len(a) + i]
      BY <1>1, <2>1
    <2> QED BY <2>2 DEF Range
  <1>5. Range(a \o b) = Range(a) \union Range(b)
    BY <1>2, <1>3, <1>4
  <1>6. a \o b = <<>> => a = <<>> /\ b = <<>>
    <2> SUFFICES ASSUME a \o b = <<>> PROVE a = <<>> /\ b = <<>>
      OBVIOUS
    <2>1. Len(a) = 0 /\ Len(b) = 0
      BY <1>1
    <2> QED BY <2>1
  <1> QED BY <1>1, <1>5, <1>6

\* Two adjacent windows have the crowded seconds of both.
LEMMA CrowdedAppend ==
  ASSUME NEW a \in Int, NEW b \in Int, NEW c \in Int, a <= b, b <= c
  PROVE  /\ Cardinality(CrowdedIn(a, c)) = Cardinality(CrowdedIn(a, b)) + Cardinality(CrowdedIn(b, c))
         /\ Cardinality(CrowdedIn(a, b)) \in Nat /\ Cardinality(CrowdedIn(b, c)) \in Nat
  <1>1. CrowdedIn(a, c) = CrowdedIn(a, b) \union CrowdedIn(b, c)
    BY DEF CrowdedIn
  <1>2. CrowdedIn(a, b) \cap CrowdedIn(b, c) = {}
    BY DEF CrowdedIn
  <1>3. IsFiniteSet(CrowdedIn(a, b)) /\ IsFiniteSet(CrowdedIn(b, c))
    <2>1. /\ CrowdedIn(a, b) \in SUBSET (a .. (b - 1))
          /\ CrowdedIn(b, c) \in SUBSET (b .. (c - 1))
      BY DEF CrowdedIn
    <2>2. IsFiniteSet(a .. (b - 1)) /\ IsFiniteSet(b .. (c - 1))
      BY FS_Interval
    <2> QED BY <2>1, <2>2, FS_Subset
  <1>4. /\ Cardinality(CrowdedIn(a, b)) \in Nat /\ Cardinality(CrowdedIn(b, c)) \in Nat
    BY <1>3, FS_CardinalityType
  <1>5. Cardinality(CrowdedIn(a, b) \cap CrowdedIn(b, c)) = 0
    BY <1>2, FS_EmptySet
  <1>6. Cardinality(CrowdedIn(a, b) \union CrowdedIn(b, c))
          = Cardinality(CrowdedIn(a, b)) + Cardinality(CrowdedIn(b, c))
            - Cardinality(CrowdedIn(a, b) \cap CrowdedIn(b, c))
    BY <1>3, FS_Union
  <1> QED BY <1>1, <1>4, <1>5, <1>6

\* A window that is left unsplit keeps the invariant if what it keeps of its
\* runs is complete or there is a gap, and exact when the listing is quiet.
LEMMA LeafStep ==
  ASSUME Inv, todo # <<>>,
         NEW next \in {"walk", "stopped"}, NEW status,
         NEW reasons \in Seq(Reasons), NEW runs \in SUBSET Run,
         Leaf(next, status, reasons, runs),
         next = "stopped" => "TRANSIENT_NETWORK" \in Range(reasons),
         pc # "cancelled",
         reasons = <<>> /\ OneKindOfChange =>
           \A r \in steady : IntervalContains(Window, created[r]) => r \in runs,
         changes = 0 /\ Range(reasons) \cap Errors = {} =>
           /\ runs = {r \in visible : IntervalContains(Window, created[r]) /\ ~Crowded(created[r])}
           /\ Cardinality(CrowdedIn(Window.from, Window.to)) = Len(reasons)
           /\ Range(reasons) \subseteq {"DENSITY_CEILING"}
  PROVE  Inv'
  <1>1. /\ TypeInv /\ Tiled /\ SilenceInv /\ QuietInv
    BY DEF Inv
  <1>2. /\ pc' = next /\ todo' = Tail(todo) /\ gaps' = gaps \o reasons
        /\ assigned' = assigned \union runs
        /\ created' = created /\ visible' = visible /\ gone' = gone /\ changes' = changes
        /\ steady' = steady /\ requested' = requested /\ result' = result
    BY DEF Leaf, github
  <1>3. /\ Tiled' /\ todo' \in Seq(Windows) /\ Frontier' = Window.to /\ Queried' = Queried
    BY <1>1, <1>2, TailTiles
  <1>4. /\ Window.from \in Nat /\ Window.to \in Nat /\ Window.from < Window.to
        /\ Frontier = Window.from /\ Queried.from <= Window.from
    BY <1>1, FirstWindow
  <1>5. /\ gaps' \in Seq(Reasons) /\ Len(gaps') = Len(gaps) + Len(reasons)
        /\ Len(gaps) \in Nat /\ Len(reasons) \in Nat
        /\ Range(gaps') = Range(gaps) \union Range(reasons)
        /\ gaps' = <<>> => gaps = <<>> /\ reasons = <<>>
    BY <1>1, <1>2, GapsAppend DEF TypeInv
  <1>6. \A r \in Run : created[r] \in Nat
    BY <1>1, RunFacts
  <1>7. Queried.from \in Nat
    <2>1. Queried.from = Sec * (requested.from \div Sec)
      BY DEF Queried, secondCover
    <2>2. /\ Sec \in Nat \ {0} /\ requested.from \in Nat /\ requested.to \in Nat
          /\ requested.from < requested.to
      BY <1>1, PartitionAssumption DEF TypeInv, PartitionAssumption
    <2> QED BY <2>1, <2>2, Cover
  <1>8. TypeInv'
    BY <1>1, <1>2, <1>3, <1>5 DEF TypeInv
  <1>9. \A r \in Run : Covered(r)' <=> Covered(r) \/ IntervalContains(Window, created[r])
    BY <1>2, <1>3, <1>4, <1>6, <1>7 DEF Covered, IntervalContains
  <1>10. SilenceInv'
    <2> SUFFICES ASSUME OneKindOfChange', gaps' = <<>>, NEW r \in steady', Covered(r)'
                 PROVE  r \in assigned'
      BY DEF SilenceInv
    <2>1. OneKindOfChange /\ r \in steady /\ r \in Run
      BY <1>1, <1>2 DEF OneKindOfChange, TypeInv
    <2>2. CASE Covered(r)
      BY <1>1, <1>2, <1>5, <2>1, <2>2 DEF SilenceInv
    <2>3. CASE IntervalContains(Window, created[r])
      BY <1>2, <1>5, <2>1, <2>3
    <2> QED BY <1>9, <2>1, <2>2, <2>3
  <1>11. QuietInv'
    <2> SUFFICES ASSUME Calm'
                 PROVE  /\ assigned' = {r \in visible' : Covered(r)' /\ ~Crowded(created[r])'}
                        /\ Len(gaps') = Cardinality(CrowdedIn(Queried.from, Frontier)')
                        /\ Range(gaps') \subseteq {"DENSITY_CEILING"}
      BY DEF QuietInv
    <2>1. changes = 0 /\ Range(gaps) \cap Errors = {} /\ Range(reasons) \cap Errors = {}
      BY <1>2, <1>5 DEF Calm
    <2>2. /\ assigned = {r \in visible : Covered(r) /\ ~Crowded(created[r])}
          /\ Len(gaps) = Cardinality(CrowdedIn(Queried.from, Frontier))
          /\ Range(gaps) \subseteq {"DENSITY_CEILING"}
      BY <1>1, <2>1 DEF QuietInv, Calm
    <2>3. \A t : Crowded(t)' <=> Crowded(t)
      BY <1>2 DEF Crowded
    <2>4. \A r : Crowded(created[r])' <=> Crowded(created[r])
      BY <1>2 DEF Crowded
    <2>5. assigned' = {r \in visible' : Covered(r)' /\ ~Crowded(created[r])'}
      <3>1. runs = {r \in visible : IntervalContains(Window, created[r]) /\ ~Crowded(created[r])}
        BY <2>1
      <3>2. visible \subseteq Run
        BY <1>1 DEF TypeInv
      <3> QED BY <1>2, <1>9, <2>2, <2>4, <3>1, <3>2
    <2>6. CrowdedIn(Queried.from, Frontier)' = CrowdedIn(Queried.from, Window.to)
      BY <1>2, <1>3 DEF CrowdedIn, Crowded
    <2>7. Cardinality(CrowdedIn(Queried.from, Window.to))
            = Cardinality(CrowdedIn(Queried.from, Window.from))
              + Cardinality(CrowdedIn(Window.from, Window.to))
      <3>1. /\ Queried.from \in Int /\ Window.from \in Int /\ Window.to \in Int
            /\ Window.from <= Window.to
        BY <1>4, <1>7
      <3> QED BY <1>4, <3>1, CrowdedAppend
    <2>8. Len(gaps') = Cardinality(CrowdedIn(Queried.from, Frontier)')
      BY <1>4, <1>5, <2>1, <2>2, <2>6, <2>7
    <2> QED BY <1>5, <2>1, <2>2, <2>5, <2>8
  <1>12. PagesInv' /\ EndInv'
    BY <1>2, <1>5 DEF PagesInv, EndInv
  <1> QED BY <1>3, <1>8, <1>10, <1>11, <1>12 DEF Inv

\* A list of one gap.
LEMMA OneGap ==
  ASSUME NEW g \in Reasons
  PROVE  /\ <<g>> \in Seq(Reasons) /\ <<g>> # <<>> /\ Len(<<g>>) = 1
         /\ Range(<<g>>) = {g}
  <1>1. <<g>> \in Seq(Reasons) /\ <<g>> # <<>> /\ Len(<<g>>) = 1
    OBVIOUS
  <1>2. <<g>> = [i \in 1 .. 1 |-> g]
    OBVIOUS
  <1>3. Range([i \in 1 .. 1 |-> g]) = {g}
    BY DEF Range
  <1> QED BY <1>1, <1>2, <1>3

\* A gap for an error is always allowed.
LEMMA ErrorLeaf ==
  ASSUME Inv, todo # <<>>, pc # "cancelled", NEW g \in Errors,
         NEW next \in {"walk", "stopped"}, next = "stopped" => g = "TRANSIENT_NETWORK",
         NEW status, Leaf(next, status, <<g>>, {})
  PROVE  Inv'
  <1> DEFINE reasons == <<g>>
             runs == {}
  <1>1. g \in Reasons
    BY DEF Reasons
  <1>2. /\ reasons \in Seq(Reasons) /\ reasons # <<>> /\ Range(reasons) = {g}
    BY <1>1, OneGap
  <1>3. Leaf(next, status, reasons, runs) /\ runs \in SUBSET Run
    OBVIOUS
  <1> HIDE DEF reasons, runs
  <1>4. Range(reasons) \cap Errors # {}
    BY <1>2
  <1>5. next = "stopped" => "TRANSIENT_NETWORK" \in Range(reasons)
    BY <1>2
  <1>6. ~(reasons = <<>> /\ OneKindOfChange)
    BY <1>2
  <1> QED BY <1>2, <1>3, <1>4, <1>5, <1>6, LeafStep

\* A dense window is halved, or it is a single second and the gap is its own.
LEMMA SplitOrSaturateStep ==
  ASSUME Inv, todo # <<>>, pc # "cancelled", splitOrSaturate,
         changes = 0 => Held >= Ceiling
  PROVE  Inv'
  <1>1. /\ TypeInv /\ Tiled /\ SilenceInv /\ QuietInv
    BY DEF Inv
  <1>2. CASE Splittable(Window)
    <2>1. /\ pc' = "walk" /\ todo' = splitWindow(Window) \o Tail(todo)
          /\ created' = created /\ visible' = visible /\ gone' = gone /\ changes' = changes
          /\ steady' = steady /\ requested' = requested /\ result' = result
          /\ assigned' = assigned /\ gaps' = gaps
      BY <1>2 DEF splitOrSaturate, github
    <2>2. /\ Tiled' /\ todo' \in Seq(Windows) /\ Frontier' = Frontier /\ Queried' = Queried
      BY <1>1, <1>2, <2>1, SplitTiles
    <2>3. TypeInv'
      BY <1>1, <2>1, <2>2 DEF TypeInv
    <2>4. SilenceInv'
      BY <1>1, <2>1, <2>2 DEF SilenceInv, Covered, OneKindOfChange
    <2>5. QuietInv'
      <3>1. \A r : Covered(r)' <=> Covered(r)
        BY <2>1, <2>2 DEF Covered
      <3>2. \A r : Crowded(created[r])' <=> Crowded(created[r])
        BY <2>1 DEF Crowded
      <3>3. CrowdedIn(Queried.from, Frontier)' = CrowdedIn(Queried.from, Frontier)
        BY <2>1, <2>2 DEF CrowdedIn, Crowded
      <3>4. Calm' <=> Calm
        BY <2>1 DEF Calm
      <3> QED BY <1>1, <2>1, <3>1, <3>2, <3>3, <3>4 DEF QuietInv
    <2>6. PagesInv' /\ EndInv'
      BY <2>1 DEF PagesInv, EndInv
    <2> QED BY <2>2, <2>3, <2>4, <2>5, <2>6 DEF Inv
  <1>3. CASE ~Splittable(Window)
    <2> DEFINE reasons == <<"DENSITY_CEILING">>
               runs == {}
    <2>1. Leaf("walk", "saturated", reasons, runs)
      BY <1>3 DEF splitOrSaturate
    <2>2. /\ reasons \in Seq(Reasons) /\ reasons # <<>> /\ Len(reasons) = 1
          /\ Range(reasons) = {"DENSITY_CEILING"}
      <3>1. "DENSITY_CEILING" \in Reasons
        BY DEF Reasons
      <3> QED BY <3>1, OneGap
    <2>3. runs \in SUBSET Run
      OBVIOUS
    <2>4. ASSUME changes = 0
          PROVE  /\ {} = {r \in visible : IntervalContains(Window, created[r]) /\ ~Crowded(created[r])}
                 /\ Cardinality(CrowdedIn(Window.from, Window.to)) = 1
      <3>1. /\ Window.from \in Nat /\ Window.to \in Nat /\ Window.from < Window.to
            /\ Window.from % Sec = 0 /\ Window.to % Sec = 0 /\ Sec \in Nat \ {0}
        BY <1>1, FirstWindow, PartitionAssumption DEF PartitionAssumption
      <3>2. Window.to = Window.from + Sec
        <4>1. Window.from + Sec <= Window.to
          BY <3>1, Successor
        <4>2. Window.to - Window.from <= Sec
          BY <1>3, <3>1 DEF Splittable
        <4> QED BY <3>1, <4>1, <4>2
      <3>3. Crowded(Window.from)
        <4>1. Found(Window) = {r \in visible : Window.from <= created[r]
                                               /\ created[r] <= Window.from + Sec}
          BY <3>2 DEF Found
        <4> QED BY <2>4, <4>1 DEF Crowded, Held
      <3>4. ASSUME NEW t \in Nat, t % Sec = 0, Window.from <= t, t < Window.to
            PROVE  t = Window.from
        <4>1. CASE Window.from < t
          <5>1. Window.from + Sec <= t
            BY <3>1, <3>4, <4>1, Successor
          <5> QED BY <3>1, <3>2, <3>4, <5>1
        <4> QED BY <3>1, <3>4, <4>1
      <3>5. ASSUME NEW r \in visible, IntervalContains(Window, created[r]) PROVE Crowded(created[r])
        <4>1. created[r] \in Nat /\ created[r] % Sec = 0
          BY <1>1, RunFacts DEF TypeInv
        <4>2. created[r] = Window.from
          BY <3>4, <3>5, <4>1 DEF IntervalContains
        <4> QED BY <3>3, <4>2
      <3>6. CrowdedIn(Window.from, Window.to) = {Window.from}
        <4>1. Window.from \in CrowdedIn(Window.from, Window.to)
          BY <3>1, <3>3 DEF CrowdedIn
        <4>2. ASSUME NEW t \in CrowdedIn(Window.from, Window.to) PROVE t = Window.from
          BY <3>1, <3>4 DEF CrowdedIn
        <4> QED BY <4>1, <4>2
      <3>7. Cardinality({Window.from}) = 1
        BY FS_Singleton
      <3> QED BY <3>5, <3>6, <3>7
    <2>5. ASSUME changes = 0
          PROVE  /\ runs = {r \in visible : IntervalContains(Window, created[r]) /\ ~Crowded(created[r])}
                 /\ Cardinality(CrowdedIn(Window.from, Window.to)) = Len(reasons)
                 /\ Range(reasons) \subseteq {"DENSITY_CEILING"}
      BY <2>2, <2>4, <2>5
    <2> HIDE DEF reasons, runs
    <2>6. ~(reasons = <<>> /\ OneKindOfChange)
      BY <2>2
    <2> QED BY <2>1, <2>2, <2>3, <2>5, <2>6, LeafStep
  <1> QED BY <1>2, <1>3

\* A step that changes neither windows nor what was found so far, and does not
\* end: only the window in hand has to be looked at.
LEMMA StayStep ==
  ASSUME Inv, UNCHANGED github, UNCHANGED <<requested, todo, assigned, gaps, result>>,
         pc' \in {"walk", "pages"}, pc # "cancelled",
         pc' = "pages" => total' \in Nat /\ listing' \in Listings /\ todo # <<>>
  PROVE  TypeInv' /\ Tiled' /\ SilenceInv' /\ QuietInv' /\ EndInv'
  <1>1. /\ TypeInv /\ Tiled /\ SilenceInv /\ QuietInv
    BY DEF Inv
  <1>2. /\ created' = created /\ visible' = visible /\ gone' = gone /\ changes' = changes
        /\ steady' = steady /\ requested' = requested /\ result' = result
        /\ assigned' = assigned /\ gaps' = gaps /\ todo' = todo
    BY DEF github
  <1>3. Queried' = Queried /\ Frontier' = Frontier
    BY <1>2 DEF Queried, Frontier
  <1>4. TypeInv' /\ Tiled'
    BY <1>1, <1>2, <1>3 DEF TypeInv, Tiled
  <1>5. SilenceInv'
    BY <1>1, <1>2, <1>3 DEF SilenceInv, Covered, OneKindOfChange
  <1>6. QuietInv'
    <2>1. \A r : Covered(r)' <=> Covered(r)
      BY <1>2, <1>3 DEF Covered
    <2>2. \A r : Crowded(created[r])' <=> Crowded(created[r])
      BY <1>2 DEF Crowded
    <2>3. CrowdedIn(Queried.from, Frontier)' = CrowdedIn(Queried.from, Frontier)
      BY <1>2, <1>3 DEF CrowdedIn, Crowded
    <2>4. Calm' <=> Calm
      BY <1>2 DEF Calm
    <2> QED BY <1>1, <1>2, <2>1, <2>2, <2>3, <2>4 DEF QuietInv
  <1>7. EndInv'
    BY DEF EndInv
  <1> QED BY <1>4, <1>5, <1>6, <1>7

\* The probe counts what the window holds now, and no page has been read.
LEMMA ProbeStep ==
  ASSUME Inv, Probe
  PROVE  Inv'
  <1>1. /\ pc = "walk" /\ todo # <<>>
    BY DEF Probe, Walking
  <1>2. TypeInv /\ Tiled
    BY DEF Inv
  <1>3. /\ Held \in Nat /\ Ceiling \in Nat /\ PerPage \in Nat
        /\ \A r \in Found(Window) : Rank(Window, r) \in 0 .. (Held - 1)
    BY <1>2, RankFacts, PartitionAssumption DEF Held, PartitionAssumption
  <1>4. CASE Dense(Held)
    <2>1. splitOrSaturate
      BY <1>4 DEF Probe, Held
    <2>2. Held >= Ceiling
      BY <1>4 DEF Dense
    <2> QED BY <1>1, <2>1, <2>2, SplitOrSaturateStep
  <1>5. CASE ~Dense(Held)
    <2>1. /\ pc' = "pages" /\ total' = Held
          /\ listing' = [runs |-> {}, rows |-> 0, total |-> 0, full |-> 0, page |-> 1]
          /\ UNCHANGED github /\ UNCHANGED <<requested, todo, assigned, gaps, result>>
      BY <1>5 DEF Probe, Held
    <2>2. listing' \in Listings
      BY <2>1 DEF Listings
    <2>3. TypeInv' /\ Tiled' /\ SilenceInv' /\ QuietInv' /\ EndInv'
      BY <1>1, <1>3, <2>1, <2>2, StayStep
    <2>4. Found(Window)' = Found(Window) /\ Held' = Held
      BY <2>1 DEF Found, Held, Window, github
    <2>5. Room' = 0
      BY <1>3, <2>1 DEF Room
    <2>6. \A x : Rank(Window, x)' = Rank(Window, x)
      BY <2>1, <2>4 DEF Rank, Newer, github
    <2>7. {r \in Found(Window)' : Rank(Window, r)' < Room'} = {}
      BY <1>3, <2>4, <2>5, <2>6
    <2>8. Cardinality({}) = 0
      BY FS_EmptySet
    <2>9. total' < Ceiling
      BY <1>3, <1>5, <2>1 DEF Dense
    <2>10. /\ listing'.runs = {} /\ listing'.rows = 0 /\ listing'.total = 0 /\ listing'.full = 0
      BY <2>1
    <2>11. PagesInv'
      BY <1>3, <2>1, <2>4, <2>5, <2>7, <2>8, <2>9, <2>10 DEF PagesInv
    <2> QED BY <2>3, <2>11 DEF Inv
  <1> QED BY <1>4, <1>5

\* One more page, with another one behind it.
LEMMA ReadPageStep ==
  ASSUME Inv, ReadPage
  PROVE  Inv'
  <1>1. /\ pc = "pages" /\ HasNext(Window, listing.page) /\ listing' = WithPage
        /\ UNCHANGED github /\ UNCHANGED <<requested, todo, assigned, gaps, result>>
        /\ pc' = pc /\ total' = total
    BY DEF ReadPage
  <1>2. TypeInv /\ PagesInv /\ total \in Nat /\ todo # <<>>
    BY <1>1 DEF Inv, TypeInv
  <1>3. /\ Room \in Nat /\ Held \in Nat
        /\ WithPage \in Listings
        /\ WithPage.page = listing.page + 1 /\ listing.page \in Nat
        /\ listing.page * PerPage = Room + PerPage
        /\ WithPage.rows <= Room + PerPage
        /\ WithPage.full * PerPage <= WithPage.rows
        /\ WithPage.total = IF listing.total >= Held THEN listing.total ELSE Held
        /\ OneKindOfChange /\ Held = total =>
             /\ WithPage.runs = {r \in Found(Window) : Rank(Window, r) < Room + PerPage}
             /\ WithPage.rows = Cardinality(WithPage.runs)
    BY <1>1, <1>2, WithPageFacts DEF TypeInv, Listings
  <1>4. TypeInv' /\ Tiled' /\ SilenceInv' /\ QuietInv' /\ EndInv'
    BY <1>1, <1>2, <1>3, StayStep
  <1>5. /\ Found(Window)' = Found(Window) /\ Held' = Held
        /\ gone' = gone /\ changes' = changes
    BY <1>1 DEF Found, Held, Window, github
  <1>6. \A x : Rank(Window, x)' = Rank(Window, x)
    BY <1>1, <1>5 DEF Rank, Newer, github
  <1>7. Room' = Room + PerPage
    <2>1. Room' = (listing'.page - 1) * PerPage
      BY DEF Room
    <2>2. listing'.page - 1 = listing.page
      BY <1>1, <1>3
    <2> QED BY <1>3, <2>1, <2>2
  <1>8. Room + PerPage < Held
    <2>1. listing.page * PerPage < Min({Ceiling, Held})
      BY <1>1 DEF HasNext, Held
    <2>2. Ceiling \in Int /\ Held \in Int /\ PerPage \in Int
      BY <1>3, PartitionAssumption DEF PartitionAssumption
    <2>3. Min({Ceiling, Held}) = IF Ceiling <= Held THEN Ceiling ELSE Held
      BY <2>2, OfTwo
    <2> QED BY <1>3, <2>1, <2>2, <2>3
  <1>9. /\ total < Ceiling
        /\ gone = {} => total <= Held
        /\ changes = Cardinality(gone) => Held <= total /\ listing.total <= total
    BY <1>1, <1>2 DEF PagesInv
  <1>10. changes = Cardinality(gone) => /\ Held <= total /\ WithPage.total <= total
                                        /\ Room + PerPage < total
    <2>1. PerPage \in Nat
      BY PartitionAssumption DEF PartitionAssumption
    <2> QED BY <1>2, <1>3, <1>8, <1>9, <2>1
  <1>11. OneKindOfChange' => OneKindOfChange
    BY <1>5 DEF OneKindOfChange
  <1>12. OneKindOfChange' /\ Held' = total' =>
           /\ listing'.runs = {r \in Found(Window)' : Rank(Window, r)' < Room'}
           /\ listing'.rows = Cardinality(listing'.runs)
    BY <1>1, <1>3, <1>5, <1>6, <1>7, <1>11
  <1>13. PagesInv'
    <2>1. (total < Ceiling)' /\ (gone = {} => total <= Held)'
      BY <1>1, <1>5, <1>9
    <2>2. (changes = Cardinality(gone) => /\ Held <= total /\ listing.total <= total
                                          /\ Room = 0 \/ Room < total)'
      <3>1. SUFFICES ASSUME (changes = Cardinality(gone))'
                     PROVE  /\ (Held <= total)' /\ (listing.total <= total)'
                            /\ (Room < total)'
        OBVIOUS
      <3>2. changes = Cardinality(gone)
        BY <1>5, <3>1
      <3> QED BY <1>1, <1>5, <1>7, <1>10, <3>2
    <2>3. (listing.rows <= Room)' /\ (listing.full * PerPage <= listing.rows)'
      <3>1. listing' = WithPage
        BY <1>1
      <3>2. /\ WithPage.rows <= Room + PerPage
            /\ WithPage.full * PerPage <= WithPage.rows
        BY <1>3
      <3>3. listing'.rows = WithPage.rows /\ listing'.full = WithPage.full
        BY <3>1, Zenon
      <3>4. Room' = Room + PerPage
        BY <1>7
      <3>5. listing'.rows <= Room'
        BY ONLY <3>2, <3>3, <3>4, Zenon
      <3>6. listing'.full * PerPage <= listing'.rows
        BY ONLY <3>2, <3>3, Zenon
      <3> QED BY <3>5, <3>6
    <2>4. (OneKindOfChange /\ Held = total =>
             /\ listing.runs = {r \in Found(Window) : Rank(Window, r) < Room}
             /\ listing.rows = Cardinality(listing.runs))'
      BY <1>12
    <2> QED BY <2>1, <2>2, <2>3, <2>4 DEF PagesInv
  <1> QED BY <1>4, <1>13 DEF Inv

\* What the last page tells.  A quiet listing raises no alarm; and a listing
\* whose totals agree has every run of the window, unless both kinds of change
\* happened.
LEMMA LastPageFacts ==
  ASSUME Inv, pc = "pages", ~HasNext(Window, listing.page)
  PROVE  /\ changes = 0 => /\ OneKindOfChange /\ ~Truncated(WithPage) /\ ~Short(WithPage)
                           /\ WithPage.total = total
         /\ OneKindOfChange /\ ~Short(WithPage) /\ WithPage.total = total =>
              WithPage.runs = Found(Window) /\ Held < Ceiling
  <1>1. TypeInv /\ PagesInv
    BY DEF Inv
  <1>2. /\ total \in Nat /\ listing \in Listings /\ Ceiling \in Nat \ {0} /\ PerPage \in Nat \ {0}
        /\ Ceiling % PerPage = 0
    BY <1>1, PartitionAssumption DEF TypeInv, PartitionAssumption
  <1>3. /\ Room \in Nat /\ Held \in Nat /\ IsFiniteSet(Found(Window))
        /\ WithPage \in Listings
        /\ listing.page * PerPage = Room + PerPage
        /\ WithPage.full * PerPage <= WithPage.rows
        /\ WithPage.total = IF listing.total >= Held THEN listing.total ELSE Held
        /\ Room <= Held => WithPage.rows <= Held
        /\ Room > Held => WithPage.rows <= Room
        /\ OneKindOfChange /\ Held = total =>
             /\ WithPage.runs = {r \in Found(Window) : Rank(Window, r) < Room + PerPage}
             /\ WithPage.rows = Cardinality(WithPage.runs)
    BY <1>1, WithPageFacts
  <1>4. /\ total < Ceiling
        /\ gone = {} => total <= Held
        /\ changes = Cardinality(gone) => /\ Held <= total /\ listing.total <= total
                                          /\ Room = 0 \/ Room < total
    BY <1>1 DEF PagesInv
  <1>5. /\ listing.total \in Nat /\ WithPage.total \in Nat /\ WithPage.rows \in Nat
        /\ WithPage.full \in Nat
    BY <1>2, <1>3 DEF Listings
  <1>6. ASSUME OneKindOfChange, Held = total
        PROVE  /\ WithPage.runs = Found(Window) /\ WithPage.rows = Held
    <2>1. Room + PerPage >= Held
      <3>1. ~(listing.page * PerPage < Min({Ceiling, Held}))
        BY DEF HasNext, Held
      <3>2. Min({Ceiling, Held}) = Held
        <4>1. Ceiling \in Int /\ Held \in Int /\ Held <= Ceiling
          BY <1>2, <1>3, <1>4, <1>6
        <4>2. Min({Ceiling, Held}) = IF Ceiling <= Held THEN Ceiling ELSE Held
          BY <4>1, OfTwo
        <4> QED BY <4>1, <4>2
      <3> QED BY <1>2, <1>3, <3>1, <3>2
    <2>2. \A r \in Found(Window) : Rank(Window, r) \in 0 .. (Held - 1)
      BY <1>1, RankFacts DEF Held
    <2>3. \A r \in Found(Window) : Rank(Window, r) < Room + PerPage
      BY <1>2, <1>3, <2>1, <2>2
    <2>4. WithPage.runs = Found(Window)
      BY <1>3, <1>6, <2>3
    <2> QED BY <1>3, <1>6, <2>4 DEF Held
  <1>7. ASSUME changes = 0
        PROVE  /\ OneKindOfChange /\ Held = total /\ WithPage.total = total
               /\ ~Truncated(WithPage) /\ ~Short(WithPage)
    <2>1. gone = {} /\ changes = Cardinality(gone)
      <3>1. IsFiniteSet(gone) /\ Cardinality(gone) \in Nat /\ Cardinality(gone) <= 0
        <4>1. IsFiniteSet(gone)
          BY <1>1, PartitionAssumption, FS_Subset DEF TypeInv, PartitionAssumption
        <4> QED BY <1>1, <1>7, <4>1, FS_CardinalityType DEF TypeInv
      <3> QED BY <1>7, <3>1, FS_EmptySet
    <2>2. OneKindOfChange /\ Held = total
      BY <1>2, <1>3, <1>4, <2>1 DEF OneKindOfChange
    <2>3. WithPage.total = total
      <3>1. listing.total <= total
        BY <1>4, <2>1
      <3> QED BY <1>2, <1>3, <1>5, <2>2, <3>1
    <2>4. WithPage.rows = total
      BY <1>6, <2>2
    <2>5. ~Short(WithPage)
      BY <1>2, <2>3, <2>4 DEF Short
    <2>6. ~(WithPage.full >= Ceiling \div PerPage)
      <3> SUFFICES ASSUME WithPage.full >= Ceiling \div PerPage PROVE FALSE
        OBVIOUS
      <3>1. WithPage.full * PerPage >= Ceiling
        BY <1>2, <1>5, FullPages
      <3>2. WithPage.full * PerPage \in Nat
        BY <1>2, <1>5
      <3> QED BY <1>2, <1>3, <1>4, <2>4, <3>1, <3>2
    <2>7. ~Truncated(WithPage)
      BY <1>2, <1>4, <2>3, <2>6 DEF Truncated, Dense
    <2> QED BY <2>2, <2>3, <2>5, <2>7
  <1>8. ASSUME OneKindOfChange, ~Short(WithPage), WithPage.total = total
        PROVE  Held = total
    <2>1. CASE gone = {}
      BY <1>2, <1>3, <1>4, <1>5, <1>8, <2>1
    <2>2. CASE changes = Cardinality(gone)
      <3> SUFFICES ASSUME Held < total PROVE FALSE
        BY <1>2, <1>3, <1>4, <2>2
      <3>1. WithPage.rows < total
        BY <1>2, <1>3, <1>4, <1>5, <2>2
      <3> QED BY <1>2, <1>5, <1>8, <3>1 DEF Short
    <2> QED BY <1>8, <2>1, <2>2 DEF OneKindOfChange
  <1>9. OneKindOfChange /\ ~Short(WithPage) /\ WithPage.total = total =>
          WithPage.runs = Found(Window) /\ Held < Ceiling
    BY <1>4, <1>6, <1>8
  <1> QED BY <1>7, <1>9

\* A window whose listing ends is complete, or it has a gap.
LEMMA ReadLastPageStep ==
  ASSUME Inv, ReadLastPage
  PROVE  Inv'
  <1> DEFINE runs == assignRunsToWindow(Window, WithPage.runs)
  <1>1. /\ pc = "pages" /\ ~HasNext(Window, listing.page)
    BY DEF ReadLastPage
  <1>2. TypeInv /\ Tiled /\ todo # <<>>
    BY <1>1 DEF Inv, TypeInv
  <1>3. /\ changes = 0 => /\ OneKindOfChange /\ ~Truncated(WithPage) /\ ~Short(WithPage)
                          /\ WithPage.total = total
        /\ OneKindOfChange /\ ~Short(WithPage) /\ WithPage.total = total =>
             WithPage.runs = Found(Window) /\ Held < Ceiling
    BY <1>1, LastPageFacts
  <1>4. runs \in SUBSET Run
    <2>1. WithPage \in Listings
      BY <1>1, WithPageFacts DEF Inv
    <2> QED BY <2>1 DEF Listings, assignRunsToWindow
  <1>5. CASE Truncated(WithPage) /\ splitOrSaturate
    BY <1>1, <1>2, <1>3, <1>5, SplitOrSaturateStep
  <1>6. CASE ~Truncated(WithPage) /\ Short(WithPage)
             /\ Leaf("walk", "gap", <<"PAGINATION_FAILURE">>, {})
    <2> DEFINE reasons == <<"PAGINATION_FAILURE">>
               none == {}
    <2>1. reasons \in Seq(Reasons) /\ reasons # <<>>
      <3>1. "PAGINATION_FAILURE" \in Reasons
        BY DEF Reasons
      <3> QED BY <3>1, OneGap
    <2>2. Leaf("walk", "gap", reasons, none) /\ none \in SUBSET Run
      BY <1>6
    <2>3. changes # 0
      BY <1>3, <1>6
    <2> HIDE DEF reasons, none
    <2> QED BY <1>1, <1>2, <2>1, <2>2, <2>3, LeafStep
  <1>7. CASE ~Short(WithPage) /\ WithPage.total # total
             /\ Leaf("walk", "gap", <<"LIVE_STATE_RACE">>, runs)
    <2> DEFINE reasons == <<"LIVE_STATE_RACE">>
    <2>1. reasons \in Seq(Reasons) /\ reasons # <<>>
      <3>1. "LIVE_STATE_RACE" \in Reasons
        BY DEF Reasons
      <3> QED BY <3>1, OneGap
    <2>2. Leaf("walk", "gap", reasons, runs)
      BY <1>7
    <2>3. changes # 0
      BY <1>3, <1>7
    <2> HIDE DEF reasons, runs
    <2> QED BY <1>1, <1>2, <1>4, <2>1, <2>2, <2>3, LeafStep
  <1>8. CASE ~Short(WithPage) /\ WithPage.total = total
             /\ Leaf("walk", "complete", <<>>, runs)
    <2> DEFINE reasons == <<>>
    <2>1. reasons \in Seq(Reasons) /\ Len(reasons) = 0 /\ Range(reasons) = {}
      BY DEF Range
    <2>2. Leaf("walk", "complete", reasons, runs)
      BY <1>8
    <2>3. OneKindOfChange => runs = {r \in Found(Window) : IntervalContains(Window, created[r])}
      BY <1>3, <1>8 DEF assignRunsToWindow
    <2>4. \A r \in visible : IntervalContains(Window, created[r]) => r \in Found(Window)
      <3>1. \A r \in visible : created[r] \in Nat
        BY <1>2, RunFacts DEF TypeInv
      <3>2. Window.from \in Nat /\ Window.to \in Nat
        BY <1>2, FirstWindow
      <3> QED BY <3>1, <3>2 DEF IntervalContains, Found
    <2>5. ASSUME reasons = <<>> /\ OneKindOfChange, NEW r \in steady,
                 IntervalContains(Window, created[r])
          PROVE  r \in runs
      <3>1. r \in Found(Window)
        BY <1>2, <2>4, <2>5 DEF TypeInv
      <3> QED BY <2>3, <2>5, <3>1
    <2>6. ASSUME changes = 0
          PROVE  /\ runs = {r \in visible : IntervalContains(Window, created[r]) /\ ~Crowded(created[r])}
                 /\ Cardinality(CrowdedIn(Window.from, Window.to)) = 0
      <3>1. OneKindOfChange /\ Held < Ceiling
        BY <1>3, <1>8, <2>6
      <3>2. /\ Window.from \in Nat /\ Window.to \in Nat /\ Sec \in Nat \ {0}
            /\ Window.from % Sec = 0 /\ Window.to % Sec = 0
        BY <1>2, FirstWindow, PartitionAssumption DEF PartitionAssumption
      <3>3. ASSUME NEW t \in Nat, t % Sec = 0, Window.from <= t, t < Window.to
            PROVE  ~Crowded(t)
        <4>1. t + Sec <= Window.to
          BY <3>2, <3>3, Successor
        <4> DEFINE S == {r \in visible : t <= created[r] /\ created[r] <= t + Sec}
        <4>2. \A r \in visible : created[r] \in Nat
          BY <1>2, RunFacts DEF TypeInv
        <4>3. S \in SUBSET Found(Window)
          BY <3>2, <3>3, <4>1, <4>2 DEF Found
        <4>4. Cardinality(S) <= Held /\ Cardinality(S) \in Nat /\ Held \in Nat
          <5>1. IsFiniteSet(Found(Window)) /\ Held \in Nat /\ S \in SUBSET visible
            BY <1>2, RankFacts DEF Held
          <5>2. Cardinality(S) <= Cardinality(Found(Window))
            BY <4>3, <5>1, FS_Subset
          <5>3. Cardinality(S) \in Nat
            BY <1>2, <5>1, RunFacts
          <5> QED BY <5>1, <5>2, <5>3 DEF Held
        <4>5. Ceiling \in Nat
          BY PartitionAssumption DEF PartitionAssumption
        <4>6. Crowded(t) <=> Cardinality(S) >= Ceiling
          BY DEF Crowded
        <4> HIDE DEF S
        <4> QED BY <3>1, <4>4, <4>5, <4>6
      <3>4. ASSUME NEW r \in visible, IntervalContains(Window, created[r])
            PROVE  ~Crowded(created[r])
        <4>1. created[r] \in Nat /\ created[r] % Sec = 0
          BY <1>2, RunFacts DEF TypeInv
        <4> QED BY <3>3, <3>4, <4>1 DEF IntervalContains
      <3>5. CrowdedIn(Window.from, Window.to) = {}
        BY <3>2, <3>3 DEF CrowdedIn
      <3>6. runs = {r \in visible : IntervalContains(Window, created[r]) /\ ~Crowded(created[r])}
        BY <2>3, <2>4, <3>1, <3>4 DEF Found
      <3> QED BY <3>5, <3>6, FS_EmptySet
    <2> HIDE DEF reasons, runs
    <2>7. ASSUME changes = 0
          PROVE  /\ runs = {r \in visible : IntervalContains(Window, created[r]) /\ ~Crowded(created[r])}
                 /\ Cardinality(CrowdedIn(Window.from, Window.to)) = Len(reasons)
                 /\ Range(reasons) \subseteq {"DENSITY_CEILING"}
      BY <2>1, <2>6, <2>7
    <2> QED BY <1>1, <1>2, <1>4, <2>1, <2>2, <2>5, <2>7, LeafStep
  <1>9. \/ Truncated(WithPage) /\ splitOrSaturate
        \/ ~Truncated(WithPage) /\ Short(WithPage)
           /\ Leaf("walk", "gap", <<"PAGINATION_FAILURE">>, {})
        \/ ~Short(WithPage) /\ WithPage.total # total
           /\ Leaf("walk", "gap", <<"LIVE_STATE_RACE">>, runs)
        \/ ~Short(WithPage) /\ WithPage.total = total
           /\ Leaf("walk", "complete", <<>>, runs)
    <2> HIDE DEF runs
    <2>1. CASE Truncated(WithPage)
      BY <2>1 DEF ReadLastPage
    <2>2. CASE ~Truncated(WithPage) /\ Short(WithPage)
      BY <2>2 DEF ReadLastPage
    <2>3. CASE ~Truncated(WithPage) /\ ~Short(WithPage) /\ WithPage.total # total
      BY <2>3 DEF ReadLastPage, runs
    <2>4. CASE ~Truncated(WithPage) /\ ~Short(WithPage) /\ WithPage.total = total
      BY <2>4 DEF ReadLastPage, runs
    <2> QED BY <2>1, <2>2, <2>3, <2>4
  <1> HIDE DEF runs
  <1> QED BY <1>5, <1>6, <1>7, <1>8, <1>9

\* The steps that end a window or the enumeration for an error.
LEMMA ErrorStep ==
  ASSUME Inv, Cancel \/ PartitionLimit \/ ProbeFails \/ PageFails
  PROVE  Inv'
  <1>1. CASE PartitionLimit
    <2>1. pc = "walk" /\ todo # <<>> /\ Leaf("walk", "gap", <<"PARTITION_LIMIT">>, {})
      BY <1>1 DEF PartitionLimit, Walking
    <2>2. "PARTITION_LIMIT" \in Errors
      BY DEF Errors
    <2> QED BY <2>1, <2>2, ErrorLeaf
  <1>2. CASE ProbeFails \/ PageFails
    <2>1. PICK next \in AfterError : Leaf(next, "gap", <<"TRANSIENT_NETWORK">>, {})
      BY <1>2 DEF ProbeFails, PageFails
    <2>2. todo # <<>> /\ pc # "cancelled" /\ next \in {"walk", "stopped"}
      BY <1>2, <2>1 DEF ProbeFails, PageFails, Walking, Inv, TypeInv, AfterError
    <2>3. "TRANSIENT_NETWORK" \in Errors
      BY DEF Errors
    <2> QED BY <2>1, <2>2, <2>3, ErrorLeaf
  <1>3. CASE Cancel
    <2>1. /\ pc' = "cancelled" /\ gaps' = Append(gaps, "CANCELLED")
          /\ created' = created /\ visible' = visible /\ gone' = gone /\ changes' = changes
          /\ steady' = steady /\ requested' = requested /\ todo' = todo
          /\ assigned' = assigned /\ result' = result
      BY <1>3 DEF Cancel, github
    <2>2. TypeInv /\ Tiled
      BY DEF Inv
    <2>3. gaps' \in Seq(Reasons) /\ gaps' # <<>>
      <3>1. gaps \in Seq(Reasons) /\ "CANCELLED" \in Reasons
        BY <2>2 DEF TypeInv, Reasons
      <3> QED BY <2>1, <3>1
    <2>4. TypeInv' /\ Tiled'
      BY <2>1, <2>2, <2>3 DEF TypeInv, Tiled, Queried
    <2>5. SilenceInv' /\ QuietInv' /\ PagesInv' /\ EndInv'
      BY <2>1, <2>3 DEF SilenceInv, QuietInv, PagesInv, EndInv
    <2> QED BY <2>4, <2>5 DEF Inv
  <1> QED BY <1>1, <1>2, <1>3

\* The enumeration returns what lies in the interval.
LEMMA ReturnStep ==
  ASSUME Inv, Return
  PROVE  Inv'
  <1>1. /\ (pc = "walk" /\ todo = <<>>) \/ pc = "stopped"
        /\ pc' = "returned" /\ result' = Within(assigned)
        /\ created' = created /\ visible' = visible /\ gone' = gone /\ changes' = changes
        /\ steady' = steady /\ requested' = requested /\ todo' = todo
        /\ assigned' = assigned /\ gaps' = gaps
    BY DEF Return, github
  <1>2. /\ TypeInv /\ Tiled /\ SilenceInv /\ QuietInv /\ EndInv
    BY DEF Inv
  <1>3. Queried' = Queried /\ Frontier' = Frontier
    BY <1>1 DEF Queried, Frontier
  <1>4. TypeInv' /\ Tiled' /\ PagesInv'
    BY <1>1, <1>2, <1>3 DEF TypeInv, Tiled, PagesInv
  <1>5. SilenceInv'
    BY <1>1, <1>2, <1>3 DEF SilenceInv, Covered, OneKindOfChange
  <1>6. QuietInv'
    <2>1. \A r : Covered(r)' <=> Covered(r)
      BY <1>1, <1>3 DEF Covered
    <2>2. \A r : Crowded(created[r])' <=> Crowded(created[r])
      BY <1>1 DEF Crowded
    <2>3. CrowdedIn(Queried.from, Frontier)' = CrowdedIn(Queried.from, Frontier)
      BY <1>1, <1>3 DEF CrowdedIn, Crowded
    <2>4. Calm' <=> Calm
      BY <1>1 DEF Calm
    <2> QED BY <1>1, <1>2, <2>1, <2>2, <2>3, <2>4 DEF QuietInv
  <1>7. EndInv'
    <2>1. Within(assigned)' = Within(assigned)
      BY <1>1 DEF Within
    <2> QED BY <1>1, <1>2, <2>1 DEF EndInv
  <1> QED BY <1>4, <1>5, <1>6, <1>7 DEF Inv

LEMMA StutterStep ==
  ASSUME Inv, UNCHANGED vars
  PROVE  Inv'
  <1>1. /\ created' = created /\ visible' = visible /\ gone' = gone /\ changes' = changes
        /\ steady' = steady /\ requested' = requested /\ pc' = pc /\ todo' = todo
        /\ total' = total /\ listing' = listing /\ assigned' = assigned /\ gaps' = gaps
        /\ result' = result
    BY DEF vars, github, enumeration
  <1>2. /\ Queried' = Queried /\ Frontier' = Frontier /\ Found(Window)' = Found(Window)
        /\ Window' = Window /\ Room' = Room /\ Held' = Held
    BY <1>1 DEF Queried, Frontier, Found, Window, Room, Held
  <1>3. \A x : Rank(Window, x)' = Rank(Window, x)
    BY <1>1, <1>2 DEF Rank, Newer
  <1>4. TypeInv' /\ Tiled'
    BY <1>1, <1>2 DEF Inv, TypeInv, Tiled
  <1>5. SilenceInv' /\ EndInv'
    BY <1>1, <1>2 DEF Inv, SilenceInv, Covered, OneKindOfChange, EndInv, Within
  <1>6. QuietInv'
    <2>1. \A r : Covered(r)' <=> Covered(r)
      BY <1>1, <1>2 DEF Covered
    <2>2. \A r : Crowded(created[r])' <=> Crowded(created[r])
      BY <1>1 DEF Crowded
    <2>3. CrowdedIn(Queried.from, Frontier)' = CrowdedIn(Queried.from, Frontier)
      BY <1>1, <1>2 DEF CrowdedIn, Crowded
    <2>4. Calm' <=> Calm
      BY <1>1 DEF Calm
    <2> QED BY <1>1, <2>1, <2>2, <2>3, <2>4 DEF QuietInv, Inv
  <1>7. PagesInv'
    <2> SUFFICES ASSUME pc = "pages" PROVE PagesInv'
      BY <1>1 DEF PagesInv
    <2>1. /\ total < Ceiling
          /\ gone = {} => total <= Held
          /\ changes = Cardinality(gone) => /\ Held <= total /\ listing.total <= total
                                            /\ Room = 0 \/ Room < total
          /\ listing.rows <= Room
          /\ listing.full * PerPage <= listing.rows
          /\ OneKindOfChange /\ Held = total =>
               /\ listing.runs = {r \in Found(Window) : Rank(Window, r) < Room}
               /\ listing.rows = Cardinality(listing.runs)
      BY DEF Inv, PagesInv
    <2>2. OneKindOfChange' <=> OneKindOfChange
      BY <1>1 DEF OneKindOfChange
    <2>3. {r \in Found(Window)' : Rank(Window, r)' < Room'}
            = {r \in Found(Window) : Rank(Window, r) < Room}
      BY <1>2, <1>3
    <2> QED BY <1>1, <1>2, <2>1, <2>2, <2>3 DEF PagesInv
  <1> QED BY <1>4, <1>5, <1>6, <1>7 DEF Inv

-----------------------------------------------------------------------------
\* Inv is an inductive invariant of the enumeration.
THEOREM InvHolds == Spec => []Inv
  <1>1. Inv /\ [Next]_vars => Inv'
    <2> SUFFICES ASSUME Inv, [Next]_vars PROVE Inv'
      OBVIOUS
    <2>1. CASE GitHub
      BY <2>1, GitHubStep DEF GitHub
    <2>2. CASE Partitioner
      BY <2>2, ErrorStep, ProbeStep, ReadPageStep, ReadLastPageStep, ReturnStep DEF Partitioner
    <2>3. CASE UNCHANGED vars
      BY <2>3, StutterStep
    <2> QED BY <2>1, <2>2, <2>3 DEF Next
  <1> QED BY <1>1, InitInv, PTL DEF Spec

\* The interval lies within the whole seconds that are searched.
LEMMA RequestedIsCovered ==
  ASSUME TypeInv, NEW r \in Run, IntervalContains(requested, created[r])
  PROVE  Queried.from <= created[r] /\ created[r] < Queried.to
  <1>1. /\ Queried.from = Sec * (requested.from \div Sec)
        /\ Queried.to = Sec * ((requested.to + Sec - 1) \div Sec)
    BY DEF Queried, secondCover
  <1>2. /\ Sec \in Nat \ {0} /\ requested.from \in Nat /\ requested.to \in Nat
        /\ requested.from < requested.to
    BY PartitionAssumption DEF TypeInv, PartitionAssumption
  <1>3. /\ Queried.from \in Nat /\ Queried.to \in Nat
        /\ Queried.from <= requested.from /\ requested.to <= Queried.to
    BY <1>1, <1>2, Cover
  <1>4. created[r] \in Nat
    BY RunFacts
  <1> QED BY <1>2, <1>3, <1>4 DEF IntervalContains

\* An enumeration that returns without a gap holds every run of the interval
\* that stayed in the listing, however many others were deleted, or however many
\* appeared, between its requests (Partitioner.Enumerate).
THEOREM SilenceTheorem == Spec => []SilenceIsComplete
  <1>1. Inv => SilenceIsComplete
    <2> SUFFICES ASSUME Inv, pc = "returned", gaps = <<>>, OneKindOfChange,
                        NEW r \in steady, IntervalContains(requested, created[r])
                 PROVE  r \in result
      BY DEF SilenceIsComplete
    <2>1. r \in Run
      BY DEF Inv, TypeInv
    <2>2. todo = <<>> /\ result = Within(assigned)
      <3>1. Range(gaps) = {}
        BY DEF Range
      <3> QED BY <3>1 DEF Inv, EndInv
    <2>3. Covered(r)
      BY <2>1, <2>2, RequestedIsCovered DEF Inv, Covered, Frontier
    <2>4. r \in assigned
      BY <2>3 DEF Inv, SilenceInv
    <2> QED BY <2>2, <2>4 DEF Within
  <1> QED BY <1>1, InvHolds, PTL

\* When nothing changes and no request fails, the runs of the interval are
\* returned, but for those of crowded seconds, which are the only gaps
\* (walk, splitOrSaturate).
THEOREM QuietTheorem == Spec => []QuietIsExact
  <1>1. Inv => QuietIsExact
    <2> SUFFICES ASSUME Inv, pc = "returned", changes = 0, Range(gaps) \cap Errors = {}
                 PROVE  /\ result = {r \in visible : IntervalContains(requested, created[r])
                                                     /\ ~Crowded(created[r])}
                        /\ Len(gaps) = Cardinality({t \in Queried.from .. (Queried.to - 1) :
                                                      t % Sec = 0 /\ Crowded(t)})
                        /\ Range(gaps) \subseteq {"DENSITY_CEILING"}
      BY DEF QuietIsExact, Errors
    <2>1. todo = <<>> /\ result = Within(assigned)
      BY DEF Inv, EndInv, Errors
    <2>2. /\ assigned = {r \in visible : Covered(r) /\ ~Crowded(created[r])}
          /\ Len(gaps) = Cardinality(CrowdedIn(Queried.from, Frontier))
          /\ Range(gaps) \subseteq {"DENSITY_CEILING"}
      BY DEF Inv, QuietInv, Calm
    <2>3. Frontier = Queried.to
      BY <2>1 DEF Frontier
    <2>4. ASSUME NEW r \in visible, IntervalContains(requested, created[r]) PROVE Covered(r)
      <3>1. r \in Run /\ TypeInv
        BY DEF Inv, TypeInv
      <3> QED BY <2>3, <2>4, <3>1, RequestedIsCovered DEF Covered
    <2>5. result = {r \in visible : IntervalContains(requested, created[r])
                                    /\ ~Crowded(created[r])}
      BY <2>1, <2>2, <2>4 DEF Within
    <2> QED BY <2>2, <2>3, <2>5 DEF CrowdedIn
  <1> QED BY <1>1, InvHolds, PTL
=============================================================================
