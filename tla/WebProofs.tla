------------------------------ MODULE WebProofs ------------------------------
(***************************************************************************)
(* Proofs about the pages of the lists (Lists), the forms of the password  *)
(* pages (PasswordPages), the connection edge (HttpEdge), the figures of a *)
(* loan (Amortization) and the announcements of birthdays (Birthdays),     *)
(* which share no state: a theorem is about the behaviours of one. ListInv *)
(* says where the rows not yet shown stand, PagesInv that the forms that   *)
(* are open match the cookie, EdgeInv what has arrived of the request and  *)
(* which half of the server holds it, AmoInv what a table and its figures  *)
(* come to, BirInv where the next birthday's row stands against the clock. *)
(***************************************************************************)
EXTENDS Lists, FiniteSetTheorems, SequenceTheorems, WellFoundedInduction,
        NaturalsInduction, TLAPS

CONSTANTS CHARS, Tabs, MaxVisits,                   \* of PasswordPages
          HeaderLists, maxHeaderSize, MaxRequests,  \* of HttpEdge
          Values, Dates, Terms,                     \* of Amortization
          Years, Birthdates, MaxSaves               \* of Birthdays

VARIABLES cookie, forms, tab, visits, answer,
          requests, request, unsent, received, owned, recoveries, dispatched, answers, socket,
          loan, table, detail,
          birthdate, now, tasks, save, saves, owed, sent

Pag == INSTANCE PasswordPages
Edg == INSTANCE HttpEdge
Amo == INSTANCE Amortization
Bir == INSTANCE Birthdays

-----------------------------------------------------------------------------
(* Lists *)

Below(s, i) == Cardinality({j \in s : j < i})
Above(s, i) == Cardinality({j \in s : j > i})
Ahead(s, i) == IF List = "users" THEN Below(s, i) ELSE Above(s, i)

\* q has the rows of s, each behind those that are ahead of it.
Enumerates(q, s) ==
    /\ q \in [1..Cardinality(s) -> s]
    /\ \A k \in 1..Cardinality(s) : Ahead(s, q[k]) = k - 1
    /\ \A i \in s : Ahead(s, i) + 1 \in 1..Cardinality(s) /\ q[Ahead(s, i) + 1] = i

LEMMA SomeIds ==
  ASSUME ConstantsAssumption, NEW s \in SUBSET Ids
  PROVE  /\ IsFiniteSet(s) /\ Cardinality(s) \in Nat /\ s \subseteq Nat
         /\ \A t \in SUBSET s : IsFiniteSet(t) /\ Cardinality(t) \in Nat
                                /\ Cardinality(t) <= Cardinality(s)
                                /\ (Cardinality(t) = Cardinality(s) => t = s)
  <1>1. MaxId \in Nat
    BY DEF ConstantsAssumption
  <1>2. IsFiniteSet(1..MaxId)
    BY <1>1, FS_Interval
  <1>3. IsFiniteSet(s)
    BY <1>2, FS_Subset DEF Ids
  <1>4. \A t \in SUBSET s : IsFiniteSet(t) /\ Cardinality(t) <= Cardinality(s)
                            /\ (Cardinality(s) = Cardinality(t) => s = t)
    BY <1>3, FS_Subset
  <1>5. \A t \in SUBSET s : Cardinality(t) \in Nat
    BY <1>4, FS_CardinalityType
  <1> QED
    BY <1>1, <1>3, <1>4, <1>5 DEF Ids

LEMMA AheadNat ==
  ASSUME ConstantsAssumption, NEW s \in SUBSET Ids, NEW i
  PROVE  Ahead(s, i) \in Nat /\ Below(s, i) \in Nat /\ Above(s, i) \in Nat
  <1>1. {j \in s : j < i} \in SUBSET s /\ {j \in s : j > i} \in SUBSET s
    OBVIOUS
  <1> QED
    BY <1>1, SomeIds DEF Ahead, Below, Above

LEMMA BelowLess ==
  ASSUME ConstantsAssumption, NEW s \in SUBSET Ids, NEW i \in s
  PROVE  /\ Below(s, i) \in 0..(Cardinality(s) - 1)
         /\ \A j \in s : i < j => Below(s, i) < Below(s, j)
  <1>1. {j \in s : j < i} \in SUBSET s /\ i \notin {j \in s : j < i}
    BY SomeIds
  <1>2. Below(s, i) \in Nat /\ Below(s, i) <= Cardinality(s) /\ Below(s, i) # Cardinality(s)
    BY <1>1, SomeIds DEF Below
  <1>3. ASSUME NEW j \in s, i < j  PROVE Below(s, i) < Below(s, j)
    <2> DEFINE a == {x \in s : x < i}
               b == {x \in s : x < j}
    <2>1. i \in Nat /\ j \in Nat /\ s \subseteq Nat
      BY SomeIds
    <2>2. \A x \in s : x < i => x < j
      BY <1>3, <2>1
    <2>3. ~(i < i)
      BY <2>1
    <2>4. a \in SUBSET b /\ i \in b /\ i \notin a /\ b \in SUBSET Ids
      BY <1>3, <2>2, <2>3
    <2> HIDE DEF a, b
    <2>5. Cardinality(a) \in Nat /\ Cardinality(b) \in Nat /\ Cardinality(a) <= Cardinality(b)
          /\ Cardinality(a) # Cardinality(b)
      BY <2>4, SomeIds
    <2> QED
      BY <2>5 DEF Below, a, b
  <1>4. Cardinality(s) \in Nat
    BY SomeIds
  <1> QED
    BY <1>2, <1>3, <1>4

\* The sequence of Ascending has each row behind those below it.
LEMMA AscendingIs ==
  ASSUME ConstantsAssumption, NEW s \in SUBSET Ids
  PROVE  /\ Ascending(s) \in [1..Cardinality(s) -> s]
         /\ \A k \in 1..Cardinality(s) : Below(s, Ascending(s)[k]) = k - 1
         /\ \A i \in s : Below(s, i) + 1 \in 1..Cardinality(s) /\ Ascending(s)[Below(s, i) + 1] = i
  <1> DEFINE n == Cardinality(s)
             f == [i \in s |-> Below(s, i) + 1]
  <1>1. n \in Nat /\ s \subseteq Nat /\ IsFiniteSet(s)
    BY SomeIds
  <1>2. \A i \in s : Below(s, i) \in 0..(n - 1)
    BY BelowLess
  <1>3. \A i, j \in s : Below(s, i) = Below(s, j) => i = j
    <2>1. SUFFICES ASSUME NEW i \in s, NEW j \in s, i # j  PROVE Below(s, i) # Below(s, j)
      OBVIOUS
    <2>2. i \in Nat /\ j \in Nat
      BY <1>1
    <2>3. CASE i < j
      BY <1>2, <2>3, BelowLess
    <2>4. CASE j < i
      BY <1>2, <2>4, BelowLess
    <2> QED
      BY <2>1, <2>2, <2>3, <2>4
  <1>4. f \in [s -> 1..n]
    BY <1>1, <1>2
  <1>5. \A a, b \in s : f[a] = f[b] => a = b
    BY <1>1, <1>2, <1>3
  <1>6. f \in Injection(s, 1..n)
    BY <1>4, <1>5 DEF Injection, IsInjective
  <1>7. IsFiniteSet(1..n) /\ Cardinality(1..n) = n
    BY <1>1, FS_Interval
  <1>8. f \in Surjection(s, 1..n)
    BY <1>6, <1>7, FS_Injection
  <1>9. \A k \in 1..n : \E i \in s : f[i] = k
    BY <1>8 DEF Surjection
  <1>10. \A k \in 1..n : \E i \in s : Below(s, i) = k - 1
    BY <1>1, <1>2, <1>9
  <1>11. Ascending(s) = [k \in 1..n |-> CHOOSE i \in s : Below(s, i) = k - 1]
    BY DEF Ascending, Below
  <1>12. \A k \in 1..n : (CHOOSE i \in s : Below(s, i) = k - 1) \in s
                         /\ Below(s, CHOOSE i \in s : Below(s, i) = k - 1) = k - 1
    BY <1>10
  <1>13. Ascending(s) \in [1..n -> s] /\ \A k \in 1..n : Below(s, Ascending(s)[k]) = k - 1
    BY <1>11, <1>12
  <1>14. ASSUME NEW i \in s  PROVE Below(s, i) + 1 \in 1..n /\ Ascending(s)[Below(s, i) + 1] = i
    <2> DEFINE k == Below(s, i) + 1
    <2>1. k \in 1..n /\ k - 1 = Below(s, i)
      BY <1>1, <1>2
    <2>2. Ascending(s)[k] \in s /\ Below(s, Ascending(s)[k]) = Below(s, i)
      BY <1>13, <2>1
    <2> QED
      BY <1>3, <2>1, <2>2
  <1> QED
    BY <1>13, <1>14

LEMMA BelowAbove ==
  ASSUME ConstantsAssumption, NEW s \in SUBSET Ids, NEW i \in s
  PROVE  Above(s, i) \in Nat /\ Above(s, i) = Cardinality(s) - Below(s, i) - 1
  <1> DEFINE a == {j \in s : j < i}
             b == {j \in s : j > i}
  <1>1. s \subseteq Nat /\ i \in Nat
    BY SomeIds
  <1>10. \A x \in s : (x < i \/ x = i \/ x > i) /\ ~(x < i /\ x > i)
    BY <1>1
  <1>11. ~(i < i) /\ ~(i > i)
    BY <1>1
  <1>2. a \in SUBSET s /\ b \in SUBSET s /\ a \cap b = {} /\ i \notin a /\ i \notin b
    BY <1>10, <1>11
  <1>3. s = (a \cup b) \cup {i}
    BY <1>10
  <1>4. Above(s, i) = Cardinality(b) /\ Below(s, i) = Cardinality(a)
    BY DEF Above, Below
  <1> HIDE DEF a, b
  <1>5. IsFiniteSet(a) /\ IsFiniteSet(b) /\ Cardinality(a) \in Nat /\ Cardinality(b) \in Nat
    BY <1>2, SomeIds
  <1>6. IsFiniteSet(a \cup b)
        /\ Cardinality(a \cup b) = Cardinality(a) + Cardinality(b) - Cardinality({})
    BY <1>2, <1>5, FS_Union
  <1>7. Cardinality(s) = Cardinality(a \cup b) + 1
    BY <1>2, <1>3, <1>6, FS_AddElement
  <1>8. Cardinality({}) = 0
    BY FS_EmptySet
  <1>9. Cardinality(s) = Cardinality(a) + Cardinality(b) + 1
    BY <1>5, <1>6, <1>7, <1>8
  <1> QED
    BY <1>4, <1>5, <1>9

LEMMA DescendingIs ==
  ASSUME ConstantsAssumption, NEW s \in SUBSET Ids
  PROVE  /\ Descending(s) \in [1..Cardinality(s) -> s]
         /\ \A k \in 1..Cardinality(s) : Above(s, Descending(s)[k]) = k - 1
         /\ \A i \in s : Above(s, i) + 1 \in 1..Cardinality(s) /\ Descending(s)[Above(s, i) + 1] = i
  <1> DEFINE n == Cardinality(s)
             q == Ascending(s)
  <1>1. n \in Nat
    BY SomeIds
  <1>2. q \in [1..n -> s] /\ Len(q) = n
    BY <1>1, AscendingIs
  <1>3. Descending(s) = [k \in 1..n |-> q[n - k + 1]]
    BY <1>2 DEF Descending, Reverse
  <1> HIDE DEF q
  <1>4. \A k \in 1..n : n - k + 1 \in 1..n
    BY <1>1
  <1>5. Descending(s) \in [1..n -> s]
    BY <1>2, <1>3, <1>4
  <1>6. ASSUME NEW k \in 1..n  PROVE Above(s, Descending(s)[k]) = k - 1
    <2>1. Descending(s)[k] = q[n - k + 1] /\ q[n - k + 1] \in s
      BY <1>2, <1>3, <1>4
    <2>2. \A m \in 1..n : Below(s, q[m]) = m - 1
      BY AscendingIs DEF q
    <2>3. PICK m \in 1..n : m = n - k + 1
      BY <1>4
    <2>4. Below(s, q[m]) = m - 1
      BY <2>2
    <2>5. Above(s, q[m]) = n - Below(s, q[m]) - 1
      BY <2>1, <2>3, BelowAbove
    <2>6. Above(s, q[m]) = k - 1
      BY <1>1, <2>3, <2>4, <2>5
    <2> QED
      BY <2>1, <2>3, <2>6
  <1>7. ASSUME NEW i \in s
        PROVE  Above(s, i) + 1 \in 1..n /\ Descending(s)[Above(s, i) + 1] = i
    <2>1. Below(s, i) + 1 \in 1..n /\ q[Below(s, i) + 1] = i
      BY AscendingIs DEF q
    <2>2. Above(s, i) \in Nat /\ Above(s, i) = n - Below(s, i) - 1 /\ Below(s, i) \in 0..(n - 1)
      BY BelowAbove, BelowLess
    <2>3. Above(s, i) + 1 \in 1..n /\ n - (Above(s, i) + 1) + 1 = Below(s, i) + 1
      BY <1>1, <2>2
    <2> QED
      BY <1>3, <2>1, <2>3
  <1> QED
    BY <1>5, <1>6, <1>7

\* The rows that the list is of.
Seen(s, w) == IF List = "users" THEN s
              ELSE IF List = "powers" THEN s \cap Own ELSE Visible(s, w.all, w.role)

LEMMA QueryIs ==
  ASSUME ConstantsAssumption, NEW s \in SUBSET Ids
  PROVE  Seen(s, walk) \in SUBSET s /\ Enumerates(Query(s), Seen(s, walk))
  <1>1. Seen(s, walk) \in SUBSET s /\ Seen(s, walk) \in SUBSET Ids
    BY DEF Seen, Visible
  <1>2. Query(s) = IF List = "users" THEN Ascending(Seen(s, walk)) ELSE Descending(Seen(s, walk))
    BY DEF Query, getUsers, listPowers, getLoans, getAccounts, Seen, ConstantsAssumption
  <1>3. CASE List = "users"
    BY <1>1, <1>2, <1>3, AscendingIs DEF Enumerates, Ahead
  <1>4. CASE List # "users"
    BY <1>1, <1>2, <1>4, DescendingIs DEF Enumerates, Ahead
  <1> QED
    BY <1>1, <1>3, <1>4
-----------------------------------------------------------------------------
\* How many pages the client has been through.
PagesRead == IF walk.at \in {"count", "find"} THEN walk.page - 1 ELSE walk.page

ListTyped ==
    /\ rows \in SUBSET Ids /\ stayed \in SUBSET rows /\ privileged \in BOOLEAN
    /\ walk \in [at : {"none", "count", "find", "shown", "done"}, page : Nat, all : BOOLEAN,
                 role : BOOLEAN, count : Nat, pages : Nat]
    /\ shown \in Seq(Ids)
    /\ walk.at = "none" => walk.page = 0 /\ shown = <<>>
    /\ walk.at \in {"count", "find", "shown"} => walk.page > 0
    /\ walk.at = "find" => walk.page <= walk.pages
    /\ walk.at = "done" => walk.page >= walk.pages
    /\ left \in Nat /\ between \in Nat

\* The rows that the client has gone past without being shown them.
Passed == {i \in Mine \ Range(shown) : Ahead(Seen(rows, walk), i) < PagesRead * PER_PAGE}

\* They are as many as have left, at most; and beyond the last page, once that is
\* known, are as many as have arrived since.
NothingPassed ==
    changed \/
        /\ Cardinality(Passed) <= left
        /\ walk.at = "find" /\ walk.page = walk.pages =>
              Cardinality(Seen(rows, walk)) <= walk.page * PER_PAGE + between
        /\ walk.at \in {"shown", "done"} /\ walk.page >= walk.pages =>
              Cardinality(Mine \ Range(shown)) <= left + between

\* Whatever has been shown is behind the client, as long as nothing arrives.
ShownBehind ==
    arrived \/ changed \/
        /\ \A j, k \in 1..Len(shown) : shown[j] = shown[k] => j = k
        /\ \A k \in 1..Len(shown) : shown[k] \in Seen(rows, walk) =>
              Ahead(Seen(rows, walk), shown[k]) < PagesRead * PER_PAGE

OwnShown ==
    List # "users" => \A k \in 1..Len(shown) :
        shown[k] \in Own \/ (List # "powers" /\ walk.all /\ walk.role) \/ changed

ListInv == ListTyped /\ NothingPassed /\ ShownBehind /\ OwnShown

-----------------------------------------------------------------------------
LEMMA PagesOf ==
  ASSUME NEW c \in Nat, NEW n \in Nat \ {0}
  PROVE  /\ numPages(c, n) \in Nat \ {0} /\ c <= numPages(c, n) * n
         /\ \A p \in Nat : p > numPages(c, n) => c <= (p - 1) * n
  <1> DEFINE m == Max({1, c})
  <1>1. m \in Nat \ {0} /\ m >= c
    <2> DEFINE top == IF c >= 1 THEN c ELSE 1
    <2>1. top \in {1, c} /\ \A y \in {1, c} : top >= y
      OBVIOUS
    <2> HIDE DEF top
    <2>2. m \in {1, c} /\ \A y \in {1, c} : m >= y
      BY <2>1 DEF Max
    <2> QED
      BY <2>2
  <1> HIDE DEF m
  <1> DEFINE d == (m + n - 1) \div n
             r == (m + n - 1) % n
  <1>2. m + n - 1 = n * d + r /\ r \in 0..(n - 1) /\ d \in Nat
    BY <1>1
  <1>3. numPages(c, n) = d
    BY DEF numPages, m
  <1> HIDE DEF d, r
  <1>4. n * d >= m /\ n * d = d * n
    BY <1>1, <1>2
  <1>5. d # 0
    BY <1>1, <1>4
  <1>6. ASSUME NEW p \in Nat, p > d  PROVE c <= (p - 1) * n
    <2>1. (p - 1) * n >= d * n
      BY <1>2, <1>6
    <2> QED
      BY <1>1, <1>2, <1>4, <2>1
  <1> QED
    BY <1>1, <1>2, <1>3, <1>4, <1>5, <1>6

LEMMA NextOffset ==
  ASSUME NEW p \in Nat \ {0}, NEW n \in Nat \ {0}
  PROVE  (p - 1) * n \in Nat /\ p * n \in Nat /\ p * n = (p - 1) * n + n
  OBVIOUS

LEMMA MinOf == ASSUME NEW a \in Int, NEW b \in Int  PROVE Min({a, b}) = IF a <= b THEN a ELSE b
  <1> DEFINE low == IF a <= b THEN a ELSE b
  <1>1. low \in {a, b} /\ \A y \in {a, b} : low =< y
    OBVIOUS
  <1> HIDE DEF low
  <1>2. Min({a, b}) \in {a, b} /\ \A y \in {a, b} : Min({a, b}) =< y
    BY <1>1 DEF Min
  <1> QED
    BY <1>1, <1>2

\* A page has the rows that are its offset and more, but not a page more, ahead.
LEMMA PageIs ==
  ASSUME ConstantsAssumption, NEW s \in SUBSET Ids, NEW q, Enumerates(q, s), NEW p \in Nat \ {0}
  PROVE  /\ Page(q, p) \in Seq(s)
         /\ \A k \in 1..Len(Page(q, p)) :
               Ahead(s, Page(q, p)[k]) = (p - 1) * PER_PAGE + k - 1
               /\ (p - 1) * PER_PAGE <= Ahead(s, Page(q, p)[k])
               /\ Ahead(s, Page(q, p)[k]) < p * PER_PAGE
         /\ \A i \in s : (p - 1) * PER_PAGE <= Ahead(s, i) /\ Ahead(s, i) < p * PER_PAGE
               => i \in Range(Page(q, p))
  <1> DEFINE n == Cardinality(s)
             off == (p - 1) * PER_PAGE
  <1>1. n \in Nat /\ off \in Nat /\ PER_PAGE \in Nat \ {0} /\ p * PER_PAGE = off + PER_PAGE
    BY SomeIds, NextOffset DEF ConstantsAssumption
  <1>2. q \in [1..n -> s] /\ Len(q) = n
    BY <1>1 DEF Enumerates
  <1> HIDE DEF off
  <1> DEFINE last == IF n <= off + PER_PAGE THEN n ELSE off + PER_PAGE
  <1>3. Page(q, p) = SubSeq(q, off + 1, last)
    BY <1>1, <1>2, MinOf DEF Page, pageOffset, off
  <1>4. last \in Nat /\ last <= n /\ last <= off + PER_PAGE
    BY <1>1
  <1>5. \A k \in off + 1 .. last : q[k] \in s
    BY <1>1, <1>2, <1>4
  <1> DEFINE g == SubSeq(q, off + 1, last)
  <1>6. /\ g \in Seq(s)
        /\ Len(g) = IF off + 1 <= last THEN last - off ELSE 0
        /\ \A k \in 1 .. last - off : g[k] = q[off + k]
    <2> HIDE DEF last
    <2>1. off + 1 \in Int /\ last \in Int
      BY <1>1, <1>4
    <2>2. /\ SubSeq(q, off + 1, last) \in Seq(s)
          /\ Len(SubSeq(q, off + 1, last)) = IF off + 1 <= last THEN last - (off + 1) + 1 ELSE 0
          /\ \A i \in 1 .. last - (off + 1) + 1 : SubSeq(q, off + 1, last)[i] = q[off + 1 + i - 1]
      BY <1>5, <2>1, SubSeqProperties
    <2>3. last - (off + 1) + 1 = last - off /\ (off + 1 <= last => last - (off + 1) + 1 = last - off)
      BY <1>1, <1>4
    <2>4. \A k \in 1 .. last - off : off + 1 + k - 1 = off + k
      BY <1>1, <1>4
    <2>5. \A k \in 1 .. last - off : g[k] = q[off + k]
      BY <2>2, <2>3, <2>4
    <2> QED
      BY <2>2, <2>3, <2>5
  <1> HIDE DEF g, last
  <1>7. Page(q, p) = g
    BY <1>3 DEF g, last
  <1>8. ASSUME NEW k \in 1..Len(g)
        PROVE  Ahead(s, g[k]) = off + k - 1 /\ off <= Ahead(s, g[k])
               /\ Ahead(s, g[k]) < off + PER_PAGE
    <2>1. k \in 1 .. last - off /\ off + k \in 1..n
      BY <1>1, <1>4, <1>6
    <2>2. g[k] = q[off + k]
      BY <1>6, <2>1
    <2>3. Ahead(s, q[off + k]) = off + k - 1
      <3>1. PICK m \in 1..n : m = off + k
        BY <2>1
      <3>2. Ahead(s, q[m]) = m - 1
        BY DEF Enumerates
      <3> QED
        BY <1>1, <3>1, <3>2
    <2> QED
      BY <1>1, <1>4, <2>1, <2>2, <2>3
  <1>9. ASSUME NEW i \in s, off <= Ahead(s, i), Ahead(s, i) < off + PER_PAGE
        PROVE  i \in Range(g)
    <2>1. Ahead(s, i) + 1 \in 1..n /\ q[Ahead(s, i) + 1] = i
      BY DEF Enumerates
    <2>2. PICK a \in Nat : a = Ahead(s, i)
      BY AheadNat
    <2>3. a + 1 - off \in 1 .. last - off /\ off + (a + 1 - off) = a + 1 /\ off + 1 <= last
      BY <1>1, <1>9, <2>1, <2>2 DEF last
    <2>4. g[a + 1 - off] = i
      BY <1>6, <2>1, <2>2, <2>3
    <2>5. a + 1 - off \in 1..Len(g) /\ DOMAIN g = 1..Len(g)
      BY <1>6, <2>3
    <2> QED
      BY <2>4, <2>5 DEF Range
  <1>10. /\ g \in Seq(s)
         /\ \A k \in 1..Len(g) : /\ Ahead(s, g[k]) = off + k - 1
                                 /\ off <= Ahead(s, g[k]) /\ Ahead(s, g[k]) < off + PER_PAGE
         /\ \A i \in s : off <= Ahead(s, i) /\ Ahead(s, i) < off + PER_PAGE => i \in Range(g)
    BY <1>6, <1>8, <1>9
  <1> QED
    BY <1>1, <1>7, <1>10 DEF off

-----------------------------------------------------------------------------
LEMMA MineSeen == ASSUME ListTyped  PROVE Mine \in SUBSET Seen(rows, walk)
  BY DEF ListTyped, Mine, Seen, Visible

\* What the client may miss are ids.
LEMMA FewIds ==
  ASSUME ConstantsAssumption, ListTyped
  PROVE  /\ Mine \in SUBSET Ids /\ Passed \in SUBSET (Mine \ Range(shown))
         /\ Cardinality(Passed) \in Nat /\ Cardinality(Mine \ Range(shown)) \in Nat
  <1>1. Mine \in SUBSET Ids /\ Passed \in SUBSET (Mine \ Range(shown))
    BY DEF ListTyped, Mine, Passed
  <1>2. Passed \in SUBSET Ids /\ Mine \ Range(shown) \in SUBSET Ids
    BY <1>1
  <1> QED
    BY <1>1, <1>2, SomeIds

LEMMA Together ==
  ASSUME ConstantsAssumption, NEW a \in SUBSET Ids, NEW b \in SUBSET Ids,
         NEW c \in SUBSET (a \cup b)
  PROVE  Cardinality(c) <= Cardinality(a) + Cardinality(b)
  <1>1. IsFiniteSet(a) /\ IsFiniteSet(b) /\ Cardinality(a) \in Nat /\ Cardinality(b) \in Nat
    BY SomeIds
  <1>2. a \cup b \in SUBSET Ids /\ a \cap b \in SUBSET Ids
    OBVIOUS
  <1>3. Cardinality(a \cup b) = Cardinality(a) + Cardinality(b) - Cardinality(a \cap b)
    BY <1>1, FS_Union
  <1>4. Cardinality(a \cap b) \in Nat /\ Cardinality(c) <= Cardinality(a \cup b)
        /\ Cardinality(c) \in Nat
    BY <1>2, SomeIds
  <1> QED
    BY <1>1, <1>3, <1>4

\* Of m + b rows, b have m ahead of them.
LEMMA FewBeyond ==
  ASSUME ConstantsAssumption, NEW s \in SUBSET Ids, NEW q, Enumerates(q, s),
         NEW m \in Nat, NEW b \in Nat, Cardinality(s) <= m + b
  PROVE  Cardinality({i \in s : Ahead(s, i) >= m}) <= b
  <1> DEFINE beyond == {i \in s : Ahead(s, i) >= m}
             f == [i \in beyond |-> Ahead(s, i) - m + 1]
  <1>1. Cardinality(s) \in Nat
    BY SomeIds
  <1>2. ASSUME NEW i \in beyond
        PROVE  Ahead(s, i) \in Nat /\ Ahead(s, i) - m + 1 \in 1..b /\ q[Ahead(s, i) + 1] = i
    <2>1. Ahead(s, i) \in Nat /\ Ahead(s, i) >= m
      BY AheadNat
    <2>2. Ahead(s, i) + 1 \in 1..Cardinality(s) /\ q[Ahead(s, i) + 1] = i
      BY DEF Enumerates
    <2> QED
      BY <1>1, <2>1, <2>2
  <1>3. \A i, j \in beyond : f[i] = f[j] => i = j
    <2>1. \A i, j \in beyond : f[i] = f[j] => Ahead(s, i) = Ahead(s, j)
      BY <1>2
    <2> QED
      BY <1>2, <2>1
  <1>4. f \in Injection(beyond, 1..b)
    BY <1>2, <1>3 DEF Injection, IsInjective
  <1>5. IsFiniteSet(1..b) /\ Cardinality(1..b) = b
    BY FS_Interval
  <1> HIDE DEF f, beyond
  <1>6. Cardinality(beyond) <= b
    BY <1>4, <1>5, FS_Injection
  <1> QED
    BY <1>6 DEF beyond

LEMMA ListInit == ASSUME ConstantsAssumption, Init  PROVE ListInv
  <1>1. walk = NoWalk /\ shown = <<>> /\ rows \in SUBSET Ids /\ stayed = rows
        /\ privileged \in BOOLEAN /\ changed = FALSE /\ left = 0 /\ between = 0
    BY DEF Init
  <1>2. ListTyped
    BY <1>1 DEF ListTyped, NoWalk
  <1>3. PagesRead * PER_PAGE = 0
    BY <1>1 DEF PagesRead, NoWalk, ConstantsAssumption
  <1>4. Passed = {}
    <2>1. Seen(rows, walk) \in SUBSET Ids
      BY <1>1 DEF Seen, Visible
    <2>2. \A i \in Mine : ~(Ahead(Seen(rows, walk), i) < 0)
      BY <2>1, AheadNat
    <2> QED
      BY <1>3, <2>2 DEF Passed
  <1>5. NothingPassed
    BY <1>1, <1>4, FS_EmptySet DEF NothingPassed, NoWalk
  <1> QED
    BY <1>1, <1>2, <1>5 DEF ListInv, OwnShown, ShownBehind

\* Seen rows are as many as there are ids of them.
LEMMA SeenIds ==
  ASSUME ConstantsAssumption, ListTyped
  PROVE  /\ Seen(rows, walk) \in SUBSET Ids /\ Cardinality(Seen(rows, walk)) \in Nat
         /\ \A i \in Ids : Ahead(Seen(rows, walk), i) \in Nat
         /\ \A i \in Seen(rows, walk) :
               Ahead(Seen(rows, walk), i) < Cardinality(Seen(rows, walk))
  <1>1. Seen(rows, walk) \in SUBSET Ids
    BY DEF ListTyped, Seen, Visible
  <1>2. Enumerates(Query(rows), Seen(rows, walk))
    BY QueryIs DEF ListTyped
  <1>3. Cardinality(Seen(rows, walk)) \in Nat
    BY <1>1, SomeIds
  <1>4. \A i : Ahead(Seen(rows, walk), i) \in Nat
    BY <1>1, AheadNat
  <1> QED
    BY <1>1, <1>2, <1>3, <1>4 DEF Enumerates

LEMMA AskSafe == ASSUME ConstantsAssumption, ListInv, Ask  PROVE ListInv'
  <1>1. UNCHANGED <<rows, privileged, shown, moves, left, arrived, between>>
        /\ changed' = (changed \/ OtherRole)
    BY DEF Ask
  <1>2. CASE walk.at = "none"
    <2>1. PICK all \in BOOLEAN : walk' = [NoWalk EXCEPT !.at = "count", !.page = 1, !.all = all,
                                            !.role = privileged]
      BY <1>2 DEF Ask
    <2>2. stayed' = rows /\ shown = <<>>
      BY <1>2 DEF Ask, ListInv, ListTyped
    <2>3. walk' = [at |-> "count", page |-> 1, all |-> all, role |-> privileged, count |-> 0,
                   pages |-> 0]
      BY <2>1 DEF NoWalk
    <2>4. ListTyped'
      BY <1>1, <2>2, <2>3 DEF ListInv, ListTyped
    <2>5. PagesRead' = 0
      BY <2>3 DEF PagesRead
    <2>6. NothingPassed'
      <3>1. Seen(rows', walk') \in SUBSET Ids
        BY <1>1, <2>2 DEF Seen, Visible, ListInv, ListTyped
      <3>2. PagesRead' * PER_PAGE = 0
        BY <2>5 DEF ConstantsAssumption
      <3>3. Passed' = {}
        <4>1. \A i : ~(Ahead(Seen(rows', walk'), i) < 0)
          BY <3>1, AheadNat
        <4> QED
          BY <3>2, <4>1 DEF Passed
      <3> QED
        BY <1>1, <2>3, <3>3, FS_EmptySet DEF NothingPassed, ListInv, ListTyped
    <2> QED
      BY <1>1, <2>2, <2>4, <2>6 DEF ListInv, ShownBehind, OwnShown
  <1>3. CASE walk.at = "shown"
    <2>1. walk' = [walk EXCEPT !.at = "count", !.page = @ + 1, !.role = privileged]
          /\ walk.page < walk.pages /\ stayed' = stayed
      BY <1>3 DEF Ask
    <2>2. ListTyped'
      <3>1. walk.page \in Nat /\ walk.page + 1 \in Nat /\ walk.page + 1 > 0
        BY DEF ListInv, ListTyped
      <3>2. /\ walk'.at = "count" /\ walk'.role = privileged
            /\ walk'.page = walk.page + 1
            /\ walk' \in [at : {"none", "count", "find", "shown", "done"}, page : Nat,
                          all : BOOLEAN, role : BOOLEAN, count : Nat, pages : Nat]
        BY <2>1, <3>1 DEF ListInv, ListTyped
      <3> QED
        BY <1>1, <2>1, <3>1, <3>2 DEF ListInv, ListTyped
    <2>3. PagesRead' = PagesRead
      BY <1>3, <2>1 DEF PagesRead, ListInv, ListTyped
    <2>4. changed' \/ Seen(rows', walk') = Seen(rows, walk)
      <3>1. walk'.all = walk.all /\ walk'.role = privileged
        BY <2>1 DEF ListInv, ListTyped
      <3>2. OtherRole \/ Seen(rows', walk') = Seen(rows, walk)
        BY <1>1, <1>3, <3>1 DEF ConstantsAssumption, OtherRole, Seen, Visible
      <3> QED
        BY <1>1, <3>2
    <2>5. walk'.at = "count" /\ Mine' = Mine
      BY <2>1 DEF ListInv, ListTyped, Mine
    <2>6. NothingPassed'
      BY <1>1, <2>3, <2>4, <2>5 DEF ListInv, NothingPassed, Passed
    <2>7. ShownBehind'
      BY <1>1, <2>3, <2>4, <2>5 DEF ListInv, ShownBehind
    <2>8. OwnShown'
      <3>1. walk'.all = walk.all /\ walk'.role = privileged
        BY <2>1 DEF ListInv, ListTyped
      <3>2. walk'.role = walk.role \/ ~walk.all \/ List \in {"users", "powers"} \/ changed'
        BY <1>1, <1>3, <3>1 DEF OtherRole, ConstantsAssumption
      <3>3. (List # "powers" /\ walk.all /\ walk.role /\ ~changed' /\ List # "users") => walk'.role
        BY <3>2
      <3> QED
        BY <1>1, <3>1, <3>3 DEF ListInv, OwnShown
    <2> QED
      BY <2>2, <2>6, <2>7, <2>8 DEF ListInv
  <1> QED
    BY <1>2, <1>3 DEF Ask

\* A page past the last one has all rows behind it.
LEMMA CountSafe == ASSUME ConstantsAssumption, ListInv, Count  PROVE ListInv'
  <1> DEFINE v == Seen(rows, walk)
             c == Len(Query(rows))
  <1>1. v \in SUBSET Ids /\ Enumerates(Query(rows), v)
    BY QueryIs DEF ListInv, ListTyped
  <1>2. c = Cardinality(v) /\ c \in Nat
    BY <1>1, SomeIds DEF Enumerates
  <1>3. /\ walk.at = "count"
        /\ walk' = [walk EXCEPT !.count = c, !.pages = numPages(c, PER_PAGE),
                       !.at = IF walk.page > numPages(c, PER_PAGE) THEN "shown" ELSE "find"]
        /\ UNCHANGED <<rows, privileged, shown, moves, history>>
    BY DEF Count, isPageBeyondLast
  <1> HIDE DEF c
  <1>4. /\ numPages(c, PER_PAGE) \in Nat \ {0} /\ c <= numPages(c, PER_PAGE) * PER_PAGE
        /\ \A p \in Nat : p > numPages(c, PER_PAGE) => c <= (p - 1) * PER_PAGE
    BY <1>2, PagesOf DEF ConstantsAssumption
  <1>5. walk.page \in Nat \ {0} /\ PER_PAGE \in Nat \ {0} /\ walk'.page = walk.page
        /\ walk'.pages = numPages(c, PER_PAGE)
    BY <1>3 DEF ListInv, ListTyped, ConstantsAssumption
  <1>6. UNCHANGED <<stayed, left, arrived, between, changed>> /\ Mine' = Mine
    BY <1>3 DEF history, Mine
  <1>7. Seen(rows', walk') = v
    BY <1>3 DEF Seen, ListInv, ListTyped
  <1>8. ListTyped'
    <2> DEFINE at == IF walk.page > numPages(c, PER_PAGE) THEN "shown" ELSE "find"
    <2>1. at \in {"shown", "find"} /\ (at = "find" => walk.page <= numPages(c, PER_PAGE))
      BY <1>4, <1>5
    <2>2. walk' = [walk EXCEPT !.count = c, !.pages = numPages(c, PER_PAGE), !.at = at]
      BY <1>3
    <2> HIDE DEF at
    <2>3. /\ walk'.role = walk.role /\ walk'.at = at
          /\ walk' \in [at : {"none", "count", "find", "shown", "done"}, page : Nat,
                        all : BOOLEAN, role : BOOLEAN, count : Nat, pages : Nat]
      BY <1>2, <1>4, <2>1, <2>2 DEF ListInv, ListTyped
    <2> QED
      BY <1>3, <1>5, <1>6, <2>1, <2>3 DEF ListInv, ListTyped
  <1>9. PagesRead = walk.page - 1 /\ PagesRead * PER_PAGE \in Nat
        /\ walk.page * PER_PAGE = PagesRead * PER_PAGE + PER_PAGE
    BY <1>3, <1>5, NextOffset DEF PagesRead
  <1>10. \A i \in v : Ahead(v, i) \in Nat /\ Ahead(v, i) < c
    BY <1>2, SeenIds DEF ListInv
  <1>11. Mine \in SUBSET v /\ left \in Nat /\ between \in Nat
    BY MineSeen DEF ListInv, ListTyped
  <1>12. CASE walk.page > numPages(c, PER_PAGE)
    <2>1. walk'.at = "shown" /\ PagesRead' = walk.page
      BY <1>3, <1>5, <1>12 DEF PagesRead, ListInv, ListTyped
    <2>2. c <= PagesRead * PER_PAGE
      BY <1>4, <1>5, <1>9, <1>12
    <2>3. \A i \in v : ~(Ahead(v, i) >= PagesRead * PER_PAGE) /\ Ahead(v, i) < walk.page * PER_PAGE
      BY <1>2, <1>5, <1>9, <1>10, <2>2
    <2>4. NothingPassed'
      <3>1. Passed = Mine \ Range(shown)
        <4>1. \A i \in v : Ahead(v, i) < PagesRead * PER_PAGE
          BY <1>2, <1>9, <1>10, <2>2
        <4> QED
          BY <1>11, <4>1 DEF Passed
      <3>2. Passed' = Mine \ Range(shown)
        <4>1. \A i \in v : Ahead(v, i) < PagesRead' * PER_PAGE
          BY <2>1, <2>3
        <4> QED
          BY <1>3, <1>6, <1>7, <1>11, <4>1 DEF Passed
      <3>3. changed \/ Cardinality(Mine \ Range(shown)) <= left
        BY <3>1 DEF ListInv, NothingPassed
      <3>4. Cardinality(Mine \ Range(shown)) \in Nat
        BY FewIds DEF ListInv
      <3>5. changed \/ Cardinality(Mine \ Range(shown)) <= left + between
        BY <1>11, <3>3, <3>4
      <3> QED
        BY <1>3, <1>6, <2>1, <3>2, <3>3, <3>5 DEF NothingPassed
    <2>5. ShownBehind'
      BY <1>3, <1>6, <1>7, <2>1, <2>3 DEF ListInv, ShownBehind
    <2> QED
      BY <1>3, <1>6, <1>8, <2>4, <2>5 DEF ListInv, ListTyped, OwnShown
  <1>13. CASE ~(walk.page > numPages(c, PER_PAGE))
    <2>1. walk'.at = "find" /\ PagesRead' = PagesRead
      BY <1>3, <1>5, <1>9, <1>13 DEF PagesRead, ListInv, ListTyped
    <2>2. NothingPassed'
      <3>1. Passed' = Passed
        BY <1>3, <1>6, <1>7, <2>1 DEF Passed
      <3>2. c <= numPages(c, PER_PAGE) * PER_PAGE + between
        <4>1. PICK x \in Nat : x = numPages(c, PER_PAGE) * PER_PAGE
          BY <1>4, <1>5
        <4> QED
          BY <1>2, <1>4, <1>11, <4>1
      <3> QED
        BY <1>2, <1>3, <1>5, <1>6, <1>7, <2>1, <3>1, <3>2 DEF ListInv, NothingPassed
    <2>3. ShownBehind'
      BY <1>3, <1>6, <1>7, <2>1 DEF ListInv, ShownBehind
    <2> QED
      BY <1>3, <1>6, <1>8, <2>2, <2>3 DEF ListInv, ListTyped, OwnShown
  <1> QED
    BY <1>12, <1>13

\* A page shows what is next.
LEMMA FindSafe == ASSUME ConstantsAssumption, ListInv, Find  PROVE ListInv'
  <1> DEFINE v == Seen(rows, walk)
             g == Page(Query(rows), walk.page)
             off == (walk.page - 1) * PER_PAGE
  <1>1. /\ walk.at = "find" /\ shown' = shown \o g /\ walk' = [walk EXCEPT !.at = "shown"]
        /\ UNCHANGED <<rows, privileged, moves, history>>
    BY DEF Find
  <1>2. v \in SUBSET Ids /\ v \in SUBSET rows /\ Enumerates(Query(rows), v)
    BY QueryIs DEF ListInv, ListTyped
  <1>3. /\ walk.page \in Nat \ {0} /\ walk.page <= walk.pages /\ walk.pages \in Nat
        /\ PER_PAGE \in Nat \ {0} /\ walk'.page = walk.page /\ walk'.pages = walk.pages
        /\ walk'.at = "shown" /\ walk'.role = walk.role
    BY <1>1 DEF ListInv, ListTyped, ConstantsAssumption
  <1>4. /\ g \in Seq(v)
        /\ \A k \in 1..Len(g) : /\ Ahead(v, g[k]) = off + k - 1
                                /\ off <= Ahead(v, g[k]) /\ Ahead(v, g[k]) < walk.page * PER_PAGE
        /\ \A i \in v : off <= Ahead(v, i) /\ Ahead(v, i) < walk.page * PER_PAGE => i \in Range(g)
    BY <1>2, <1>3, PageIs, ZenonT(30)
  <1>5. off \in Nat /\ walk.page * PER_PAGE = off + PER_PAGE /\ PagesRead = walk.page - 1
        /\ PagesRead' = walk.page
    BY <1>1, <1>3, NextOffset DEF PagesRead
  <1>6. PagesRead * PER_PAGE = off
    BY <1>5
  <1> HIDE DEF g, off, v
  <1>7. UNCHANGED <<stayed, left, arrived, between, changed>> /\ Mine' = Mine
    BY <1>1 DEF history, Mine
  <1>8. Seen(rows', walk') = v
    BY <1>1 DEF Seen, ListInv, ListTyped, v
  <1>9. shown \in Seq(Ids) /\ g \in Seq(Ids)
    BY <1>2, <1>4, SeqMonotonic DEF ListInv, ListTyped
  <1>10. /\ shown' \in Seq(Ids) /\ Len(shown') = Len(shown) + Len(g)
         /\ \A i \in 1 .. Len(shown) + Len(g) :
               shown'[i] = IF i <= Len(shown) THEN shown[i] ELSE g[i - Len(shown)]
    BY <1>1, <1>9, ConcatProperties
  <1>11. Range(shown') = Range(shown) \cup Range(g)
    BY <1>1, <1>9, RangeConcatenation
  <1>12. Len(shown) \in Nat /\ Len(g) \in Nat
    BY <1>9, LenProperties
  <1>13. \A k \in 1..Len(g) : g[k] \in v /\ Ahead(v, g[k]) \in Nat
    <2>1. \A k \in 1..Len(g) : g[k] \in v
      BY <1>4, ElementOfSeq
    <2> QED
      BY <1>2, <2>1, AheadNat
  \* A row that has been shown is one of before or one of this page.
  <1>14. ASSUME NEW k \in 1..Len(shown')
         PROVE  \/ k \in 1..Len(shown) /\ shown'[k] = shown[k]
                \/ k > Len(shown) /\ k - Len(shown) \in 1..Len(g) /\ shown'[k] = g[k - Len(shown)]
    BY <1>10, <1>12
  <1>15. ListTyped'
    <2>1. walk' \in [at : {"none", "count", "find", "shown", "done"}, page : Nat,
                     all : BOOLEAN, role : BOOLEAN, count : Nat, pages : Nat]
      BY <1>1 DEF ListInv, ListTyped
    <2> QED
      BY <1>1, <1>3, <1>7, <1>10, <2>1 DEF ListInv, ListTyped
  <1>16. NothingPassed'
    <2>1. SUFFICES ASSUME ~changed  PROVE NothingPassed'
      BY <1>7 DEF NothingPassed
    <2>2. Mine \in SUBSET v /\ left \in Nat /\ between \in Nat
      BY MineSeen DEF ListInv, ListTyped, v
    <2>3. \A i \in v : Ahead(v, i) \in Nat
      BY <1>2, AheadNat
    <2>4. Passed = {i \in Mine \ Range(shown) : Ahead(v, i) < off}
      BY <1>6 DEF Passed, v
    <2>5. Passed' = {i \in Mine \ Range(shown') : Ahead(v, i) < walk.page * PER_PAGE}
      BY <1>5, <1>7, <1>8 DEF Passed
    <2>6. Passed' \in SUBSET Passed
      <3>1. ASSUME NEW i \in Passed'  PROVE i \in Passed
        <4>1. i \in Mine /\ i \notin Range(shown) /\ i \notin Range(g)
              /\ Ahead(v, i) < walk.page * PER_PAGE
          BY <1>11, <2>5, <3>1
        <4>2. ~(off <= Ahead(v, i))
          BY <1>4, <2>2, <4>1
        <4>3. Ahead(v, i) < off
          BY <1>5, <2>2, <2>3, <4>1, <4>2
        <4> QED
          BY <2>4, <4>1, <4>3
      <3> QED
        BY <3>1
    <2>7. Passed \in SUBSET Ids /\ Cardinality(Passed) <= left
      BY <2>1, FewIds DEF ListInv, NothingPassed
    <2>8. Cardinality(Passed') <= left /\ Cardinality(Passed') \in Nat
      <3>1. Cardinality(Passed') <= Cardinality(Passed) /\ Cardinality(Passed') \in Nat
            /\ Cardinality(Passed) \in Nat
        BY <2>6, <2>7, SomeIds
      <3> QED
        BY <2>2, <2>7, <3>1
    <2>9. ASSUME walk.page = walk.pages
          PROVE  Cardinality(Mine \ Range(shown')) <= left + between
      <3> DEFINE m == walk.page * PER_PAGE
                 beyond == {i \in v : Ahead(v, i) >= m}
      <3>1. Cardinality(v) <= m + between /\ m \in Nat
        <4>1. m \in Nat
          BY <1>5, NextOffset DEF ListInv, ListTyped, ConstantsAssumption
        <4>2. Cardinality(v) <= m + between
          BY <1>1, <2>1, <2>9 DEF ListInv, NothingPassed, v
        <4> QED
          BY <4>1, <4>2
      <3>2. Cardinality(beyond) <= between
        BY <1>2, <2>2, <3>1, FewBeyond
      <3>3. \A i \in v : Ahead(v, i) < m \/ Ahead(v, i) >= m
        <4> HIDE DEF m
        <4> QED
          BY <2>3, <3>1
      <3>4. Mine \ Range(shown') \in SUBSET (Passed' \cup beyond)
        BY <2>2, <2>5, <3>3
      <3>5. beyond \in SUBSET Ids /\ Passed' \in SUBSET Ids
        BY <1>2, <2>6, <2>7
      <3> HIDE DEF beyond, m
      <3>6. Cardinality(Mine \ Range(shown')) <= Cardinality(Passed') + Cardinality(beyond)
        BY <3>4, <3>5, Together
      <3>7. Cardinality(beyond) \in Nat /\ Cardinality(Mine \ Range(shown')) \in Nat
        <4>1. Mine \ Range(shown') \in SUBSET Ids
          BY <3>4, <3>5
        <4> QED
          BY <3>5, <4>1, SomeIds
      <3> QED
        BY <2>2, <2>8, <3>2, <3>6, <3>7
    <2>10. walk.page >= walk.pages => walk.page = walk.pages
      BY <1>3
    <2> QED
      BY <1>3, <1>7, <2>8, <2>9, <2>10 DEF NothingPassed
  <1>17. ShownBehind'
    <2>1. SUFFICES ASSUME ~arrived, ~changed  PROVE ShownBehind'
      BY <1>7 DEF ShownBehind
    <2>2. \A j, k \in 1..Len(shown) : shown[j] = shown[k] => j = k
      BY <2>1 DEF ListInv, ShownBehind
    <2>3. \A k \in 1..Len(shown) : shown[k] \in v => Ahead(v, shown[k]) < off
      BY <1>6, <2>1 DEF ListInv, ShownBehind, v
    <2>4. ASSUME NEW j \in 1..Len(g), NEW k \in 1..Len(g), g[j] = g[k]  PROVE j = k
      BY <1>4, <1>5, <2>4
    <2>5. ASSUME NEW j \in 1..Len(shown), NEW k \in 1..Len(g)  PROVE shown[j] # g[k]
      BY <1>4, <1>5, <1>13, <2>3
    <2>6. ASSUME NEW j \in 1..Len(shown'), NEW k \in 1..Len(shown'), shown'[j] = shown'[k]
          PROVE  j = k
      <3>1. CASE j \in 1..Len(shown) /\ k \in 1..Len(shown)
        BY <1>10, <1>12, <1>14, <2>2, <2>6, <3>1
      <3>2. CASE j > Len(shown) /\ k > Len(shown)
        <4>1. /\ j - Len(shown) \in 1..Len(g) /\ k - Len(shown) \in 1..Len(g)
              /\ g[j - Len(shown)] = g[k - Len(shown)]
          BY <1>12, <1>14, <2>6, <3>2
        <4>2. j - Len(shown) = k - Len(shown)
          BY <2>4, <4>1
        <4> QED
          BY <1>10, <1>12, <4>2
      <3>3. CASE j \in 1..Len(shown) /\ k > Len(shown)
        BY <1>12, <1>14, <2>5, <2>6, <3>3
      <3>4. CASE j > Len(shown) /\ k \in 1..Len(shown)
        BY <1>12, <1>14, <2>5, <2>6, <3>4
      <3> QED
        BY <1>10, <1>12, <3>1, <3>2, <3>3, <3>4
    <2>7. ASSUME NEW k \in 1..Len(shown'), shown'[k] \in v
          PROVE  Ahead(v, shown'[k]) < walk.page * PER_PAGE
      <3>1. CASE k \in 1..Len(shown) /\ shown'[k] = shown[k]
        <4>1. Ahead(v, shown[k]) < off /\ Ahead(v, shown[k]) \in Nat
          BY <1>2, <2>3, <2>7, <3>1, AheadNat
        <4> QED
          BY <1>3, <1>5, <3>1, <4>1
      <3>2. CASE k - Len(shown) \in 1..Len(g) /\ shown'[k] = g[k - Len(shown)]
        BY <1>4, <3>2
      <3> QED
        BY <1>14, <3>1, <3>2
    <2> QED
      BY <1>5, <1>8, <2>6, <2>7 DEF ShownBehind
  <1>18. OwnShown'
    <2>1. SUFFICES ASSUME List # "users", ~(List # "powers" /\ walk.all /\ walk.role), ~changed,
                          NEW k \in 1..Len(shown')
                   PROVE  shown'[k] \in Own
      <3>1. walk'.all = walk.all
        BY <1>1 DEF ListInv, ListTyped
      <3> QED
        BY <1>3, <1>7, <3>1 DEF OwnShown
    <2>2. v \subseteq Own
      BY <2>1 DEF v, Seen, Visible
    <2>3. \A j \in 1..Len(shown) : shown[j] \in Own
      BY <2>1 DEF ListInv, OwnShown
    <2> QED
      BY <1>13, <1>14, <2>2, <2>3
  <1> QED
    BY <1>15, <1>16, <1>17, <1>18 DEF ListInv

LEMMA StopSafe == ASSUME ListInv, Stop  PROVE ListInv'
  <1>1. /\ walk.at = "shown" /\ walk.page >= walk.pages /\ walk' = [walk EXCEPT !.at = "done"]
        /\ UNCHANGED <<rows, privileged, shown, moves, stayed, left, arrived, between, changed>>
    BY DEF Stop, history
  <1>2. /\ walk'.at = "done" /\ walk'.page = walk.page /\ walk'.pages = walk.pages
        /\ walk'.role = walk.role /\ walk'.all = walk.all
        /\ walk' \in [at : {"none", "count", "find", "shown", "done"}, page : Nat,
                      all : BOOLEAN, role : BOOLEAN, count : Nat, pages : Nat]
    BY <1>1 DEF ListInv, ListTyped
  <1>3. PagesRead' = PagesRead /\ Seen(rows', walk') = Seen(rows, walk) /\ Mine' = Mine
    BY <1>1, <1>2 DEF PagesRead, Seen, Mine
  <1>4. ListTyped'
    BY <1>1, <1>2 DEF ListInv, ListTyped
  <1>5. NothingPassed'
    BY <1>1, <1>2, <1>3 DEF ListInv, NothingPassed, Passed
  <1> QED
    BY <1>1, <1>2, <1>3, <1>4, <1>5 DEF ListInv, ShownBehind, OwnShown

\* The more rows there are, the more are ahead of each.
LEMMA MoreAhead ==
  ASSUME ConstantsAssumption, NEW s \in SUBSET Ids, NEW t \in SUBSET s, NEW i
  PROVE  Ahead(t, i) <= Ahead(s, i)
  <1>1. {j \in t : j < i} \in SUBSET {j \in s : j < i}
        /\ {j \in t : j > i} \in SUBSET {j \in s : j > i}
    OBVIOUS
  <1>2. {j \in s : j < i} \in SUBSET Ids /\ {j \in s : j > i} \in SUBSET Ids
    OBVIOUS
  <1>3. Below(t, i) <= Below(s, i)
    BY <1>1, <1>2, SomeIds DEF Below
  <1>4. Above(t, i) <= Above(s, i)
    BY <1>1, <1>2, SomeIds DEF Above
  <1> QED
    BY <1>3, <1>4 DEF Ahead

LEMMA OneLess ==
  ASSUME ConstantsAssumption, NEW s \in SUBSET Ids, NEW t \in SUBSET s, NEW i,
         s \in SUBSET (t \cup {i}), NEW j
  PROVE  Ahead(s, j) <= Ahead(t, j) + 1
  <1>1. ASSUME NEW a \in SUBSET Ids, NEW b \in SUBSET Ids, a \in SUBSET (b \cup {i})
        PROVE  Cardinality(a) <= Cardinality(b) + 1
    <2>1. IsFiniteSet(b) /\ Cardinality(b) \in Nat /\ Cardinality(a) \in Nat
      BY SomeIds
    <2>2. IsFiniteSet(b \cup {i}) /\ Cardinality(b \cup {i}) <= Cardinality(b) + 1
      BY <2>1, FS_AddElement
    <2>3. Cardinality(a) <= Cardinality(b \cup {i}) /\ Cardinality(b \cup {i}) \in Nat
      BY <1>1, <2>2, FS_Subset, FS_CardinalityType
    <2> QED
      BY <2>1, <2>2, <2>3
  <1>2. Below(s, j) <= Below(t, j) + 1
    <2>1. {x \in s : x < j} \in SUBSET Ids /\ {x \in t : x < j} \in SUBSET Ids
          /\ {x \in s : x < j} \in SUBSET ({x \in t : x < j} \cup {i})
      OBVIOUS
    <2> QED
      BY <1>1, <2>1 DEF Below
  <1>3. Above(s, j) <= Above(t, j) + 1
    <2>1. {x \in s : x > j} \in SUBSET Ids /\ {x \in t : x > j} \in SUBSET Ids
          /\ {x \in s : x > j} \in SUBSET ({x \in t : x > j} \cup {i})
      OBVIOUS
    <2> QED
      BY <1>1, <2>1 DEF Above
  <1> QED
    BY <1>2, <1>3 DEF Ahead

LEMMA ArriveSafe ==
  ASSUME ConstantsAssumption, ListInv, NEW i \in Ids, Arrive(i)  PROVE ListInv'
  <1>1. /\ walk.at \in {"count", "find", "shown"} /\ rows' = rows \cup {i} /\ arrived' = TRUE
        /\ between' = IF walk.at = "find" /\ walk.page = walk.pages THEN between + 1 ELSE between
        /\ UNCHANGED <<privileged, walk, shown, stayed, left, changed>>
    BY DEF Arrive, Walking
  <1>2. ListTyped'
    BY <1>1 DEF ListInv, ListTyped
  <1>3. PagesRead' = PagesRead /\ Mine' = Mine /\ PagesRead * PER_PAGE \in Nat
    <2>1. PagesRead' = PagesRead /\ Mine' = Mine
      BY <1>1 DEF PagesRead, Mine
    <2>2. PagesRead \in Nat /\ PER_PAGE \in Nat
      BY <1>1 DEF PagesRead, ListInv, ListTyped, ConstantsAssumption
    <2> QED
      BY <2>1, <2>2
  <1>4. Seen(rows, walk) \in SUBSET Seen(rows', walk) /\ Seen(rows', walk) \in SUBSET Ids
    BY <1>1 DEF Seen, Visible, ListInv, ListTyped
  <1>5. \A j : /\ Ahead(Seen(rows, walk), j) <= Ahead(Seen(rows', walk), j)
               /\ Ahead(Seen(rows, walk), j) \in Nat /\ Ahead(Seen(rows', walk), j) \in Nat
    BY <1>4, MoreAhead, AheadNat
  <1>6. NothingPassed'
    <2>1. SUFFICES ASSUME ~changed  PROVE NothingPassed'
      BY <1>1 DEF NothingPassed
    <2>2. left \in Nat /\ between \in Nat /\ between' >= between
      BY <1>1 DEF ListInv, ListTyped
    <2>3. Passed' \in SUBSET Passed /\ Passed \in SUBSET Ids
      <3>1. \A j : Ahead(Seen(rows', walk), j) < PagesRead * PER_PAGE
                      => Ahead(Seen(rows, walk), j) < PagesRead * PER_PAGE
        BY <1>3, <1>5
      <3>2. Passed' = {j \in Mine \ Range(shown) :
                          Ahead(Seen(rows', walk), j) < PagesRead * PER_PAGE}
        BY <1>1, <1>3 DEF Passed
      <3> QED
        BY <3>1, <3>2, FewIds DEF ListInv, Passed
    <2>4. Cardinality(Passed') <= left
      <3>1. Cardinality(Passed') <= Cardinality(Passed) /\ Cardinality(Passed') \in Nat
            /\ Cardinality(Passed) \in Nat
        BY <2>3, SomeIds
      <3>2. Cardinality(Passed) <= left
        BY <2>1 DEF ListInv, NothingPassed
      <3> QED
        BY <2>2, <3>1, <3>2
    <2>5. ASSUME walk.at = "find", walk.page = walk.pages
          PROVE  Cardinality(Seen(rows', walk)) <= walk.page * PER_PAGE + between'
      <3>1. Cardinality(Seen(rows, walk)) <= walk.page * PER_PAGE + between
            /\ between' = between + 1
        BY <1>1, <2>1, <2>5 DEF ListInv, NothingPassed
      <3>2. walk.page * PER_PAGE \in Nat
        BY DEF ListInv, ListTyped, ConstantsAssumption
      <3>3. Seen(rows', walk) \in SUBSET (Seen(rows, walk) \cup {i})
        BY <1>1 DEF Seen, Visible
      <3>4. Cardinality(Seen(rows', walk)) <= Cardinality(Seen(rows, walk)) + 1
        <4>1. {i} \in SUBSET Ids /\ Cardinality({i}) = 1 /\ Seen(rows, walk) \in SUBSET Ids
          BY <1>4, FS_Singleton
        <4>2. Cardinality(Seen(rows', walk)) <= Cardinality(Seen(rows, walk)) + Cardinality({i})
          BY <3>3, <4>1, Together
        <4> QED
          BY <4>1, <4>2
      <3>5. Cardinality(Seen(rows', walk)) \in Nat /\ Cardinality(Seen(rows, walk)) \in Nat
        BY <1>4, SomeIds
      <3> QED
        BY <2>2, <3>1, <3>2, <3>4, <3>5
    <2>6. walk.at \in {"shown", "done"} /\ walk.page >= walk.pages
            => Cardinality(Mine \ Range(shown)) <= left + between'
      <3>1. Cardinality(Mine \ Range(shown)) \in Nat /\ between' \in Nat
        BY <1>1, <2>2, FewIds DEF ListInv
      <3> QED
        BY <2>1, <2>2, <3>1 DEF ListInv, NothingPassed
    <2> QED
      BY <1>1, <1>3, <2>4, <2>5, <2>6 DEF NothingPassed
  <1> QED
    BY <1>1, <1>2, <1>6 DEF ListInv, ShownBehind, OwnShown

LEMMA LeaveSafe ==
  ASSUME ConstantsAssumption, ListInv, NEW i \in Ids, Leave(i)  PROVE ListInv'
  <1>1. /\ rows' = rows \ {i} /\ stayed' = stayed \ {i} /\ left' = left + 1
        /\ walk.at \in {"count", "find", "shown"}
        /\ UNCHANGED <<privileged, walk, shown, arrived, between, changed>>
    BY DEF Leave, Walking
  <1>2. ListTyped'
    BY <1>1 DEF ListInv, ListTyped
  <1>3. PagesRead' = PagesRead /\ PagesRead * PER_PAGE \in Nat
    <2>1. PagesRead' = PagesRead
      BY <1>1 DEF PagesRead
    <2>2. PagesRead \in Nat /\ PER_PAGE \in Nat
      BY <1>1 DEF PagesRead, ListInv, ListTyped, ConstantsAssumption
    <2> QED
      BY <2>1, <2>2
  <1>4. Seen(rows', walk) \in SUBSET Seen(rows, walk) /\ Seen(rows, walk) \in SUBSET Ids
    BY <1>1 DEF Seen, Visible, ListInv, ListTyped
  <1>5. \A j : /\ Ahead(Seen(rows', walk), j) <= Ahead(Seen(rows, walk), j)
               /\ Ahead(Seen(rows, walk), j) \in Nat /\ Ahead(Seen(rows', walk), j) \in Nat
    BY <1>4, MoreAhead, AheadNat
  <1>6. ShownBehind'
    <2>1. SUFFICES ASSUME ~arrived, ~changed  PROVE ShownBehind'
      BY <1>1 DEF ShownBehind
    <2>2. ASSUME NEW k \in 1..Len(shown), shown[k] \in Seen(rows', walk)
          PROVE  Ahead(Seen(rows', walk), shown[k]) < PagesRead * PER_PAGE
      <3>1. Ahead(Seen(rows, walk), shown[k]) < PagesRead * PER_PAGE
        BY <1>4, <2>1, <2>2 DEF ListInv, ShownBehind
      <3> QED
        BY <1>3, <1>5, <3>1
    <2> QED
      BY <1>1, <1>3, <2>1, <2>2 DEF ListInv, ShownBehind
  <1>7. NothingPassed'
    <2>1. SUFFICES ASSUME ~changed  PROVE NothingPassed'
      BY <1>1 DEF NothingPassed
    <2> DEFINE v == Seen(rows, walk)
               u == Seen(rows', walk)
               off == PagesRead * PER_PAGE
               next == Query(rows)[off + 1]
    <2>2. left \in Nat /\ between \in Nat /\ off \in Nat
      BY <1>3 DEF ListInv, ListTyped
    <2>3. Enumerates(Query(rows), v)
      BY QueryIs DEF ListInv, ListTyped
    <2>4. v \in SUBSET (u \cup {i}) /\ Mine \in SUBSET v /\ Mine' \in SUBSET Mine
      <3>1. v \in SUBSET (u \cup {i})
        BY <1>1 DEF Seen, Visible
      <3>2. Mine' \in SUBSET Mine
        BY <1>1 DEF Mine
      <3> QED
        BY <3>1, <3>2, MineSeen DEF ListInv
    <2>5. \A j : Ahead(v, j) <= Ahead(u, j) + 1
      BY <1>4, <2>4, OneLess
    <2>6. ASSUME NEW j \in Passed'  PROVE j \in Passed \cup {next}
      <3>1. j \in Mine /\ j \notin Range(shown) /\ Ahead(u, j) < off
        BY <1>1, <1>3, <2>4, <2>6 DEF Passed
      <3>2. Ahead(v, j) + 1 \in 1..Cardinality(v) /\ Query(rows)[Ahead(v, j) + 1] = j
        BY <2>3, <2>4, <3>1 DEF Enumerates
      <3>3. Ahead(v, j) < off \/ Ahead(v, j) = off
        <4>1. PICK x \in Nat, y \in Nat : x = Ahead(v, j) /\ y = Ahead(u, j)
          BY <1>5
        <4>2. x <= y + 1 /\ y < off
          BY <2>5, <3>1, <4>1
        <4> HIDE DEF off
        <4> QED
          BY <2>2, <4>1, <4>2
      <3> QED
        BY <3>1, <3>2, <3>3 DEF Passed
    <2> HIDE DEF next
    <2>7. Cardinality(Passed') <= left' /\ Cardinality(Passed') \in Nat
      <3>1. Passed \in SUBSET Ids /\ Cardinality(Passed) \in Nat
        BY FewIds DEF ListInv
      <3>2. IsFiniteSet(Passed)
        BY <3>1, SomeIds
      <3>3. IsFiniteSet(Passed \cup {next})
            /\ Cardinality(Passed \cup {next}) <= Cardinality(Passed) + 1
        BY <3>1, <3>2, FS_AddElement
      <3>4. Passed' \in SUBSET (Passed \cup {next})
        BY <2>6
      <3>5. IsFiniteSet(Passed') /\ Cardinality(Passed') <= Cardinality(Passed \cup {next})
        BY <3>3, <3>4, FS_Subset
      <3>6. Cardinality(Passed') \in Nat /\ Cardinality(Passed \cup {next}) \in Nat
        BY <3>3, <3>5, FS_CardinalityType
      <3>7. Cardinality(Passed) <= left
        BY <2>1 DEF ListInv, NothingPassed
      <3> QED
        BY <1>1, <2>2, <3>1, <3>3, <3>5, <3>6, <3>7
    <2>8. ASSUME walk.at = "find", walk.page = walk.pages
          PROVE  Cardinality(u) <= walk.page * PER_PAGE + between
      <3>1. Cardinality(v) <= walk.page * PER_PAGE + between
        BY <2>1, <2>8 DEF ListInv, NothingPassed
      <3>2. Cardinality(u) <= Cardinality(v) /\ Cardinality(u) \in Nat /\ Cardinality(v) \in Nat
        <4>1. v \in SUBSET Ids
          BY <1>4
        <4> QED
          BY <1>4, <4>1, SomeIds
      <3>3. walk.page * PER_PAGE \in Nat
        BY DEF ListInv, ListTyped, ConstantsAssumption
      <3> QED
        BY <2>2, <3>1, <3>2, <3>3
    <2>9. ASSUME walk.at \in {"shown", "done"}, walk.page >= walk.pages
          PROVE  Cardinality(Mine' \ Range(shown)) <= left' + between
      <3>1. Cardinality(Mine \ Range(shown)) <= left + between
        BY <2>1, <2>9 DEF ListInv, NothingPassed
      <3>2. Mine' \ Range(shown) \in SUBSET (Mine \ Range(shown))
            /\ Mine \ Range(shown) \in SUBSET Ids
        BY <2>4, FewIds DEF ListInv
      <3>3. Cardinality(Mine' \ Range(shown)) <= Cardinality(Mine \ Range(shown))
            /\ Cardinality(Mine' \ Range(shown)) \in Nat /\ Cardinality(Mine \ Range(shown)) \in Nat
        BY <3>2, SomeIds
      <3> QED
        BY <1>1, <2>2, <3>1, <3>3
    <2> QED
      BY <1>1, <2>7, <2>8, <2>9 DEF NothingPassed
  <1> QED
    BY <1>1, <1>2, <1>6, <1>7 DEF ListInv, OwnShown

LEMMA ChangeRoleSafe == ASSUME ListInv, ChangeRole  PROVE ListInv'
  <1>1. /\ privileged' = ~privileged
        /\ UNCHANGED <<rows, walk, shown, stayed, left, arrived, between, changed>>
    BY DEF ChangeRole, history
  <1>2. ListTyped'
    BY <1>1 DEF ListInv, ListTyped
  <1>3. PagesRead' = PagesRead /\ Mine' = Mine /\ Seen(rows', walk') = Seen(rows, walk)
    BY <1>1 DEF PagesRead, Mine, Seen
  <1> QED
    BY <1>1, <1>2, <1>3 DEF ListInv, NothingPassed, Passed, ShownBehind, OwnShown

LEMMA ListStutter == ASSUME ListInv, UNCHANGED vars  PROVE ListInv'
  <1>1. ListTyped'
    BY DEF vars, ListInv, ListTyped
  <1>2. PagesRead' = PagesRead /\ Mine' = Mine /\ Seen(rows', walk') = Seen(rows, walk)
    BY DEF vars, PagesRead, Mine, Seen
  <1>3. NothingPassed'
    BY <1>2 DEF vars, ListInv, NothingPassed, Passed
  <1> QED
    BY <1>1, <1>2, <1>3 DEF vars, ListInv, ShownBehind, OwnShown

LEMMA NextListInv == ASSUME ConstantsAssumption, ListInv, [Next]_vars  PROVE ListInv'
  BY AskSafe, CountSafe, FindSafe, StopSafe, ArriveSafe, LeaveSafe, ChangeRoleSafe, ListStutter
     DEF Next

LEMMA ListInvSuffices ==
  ASSUME ListInv
  PROVE  NothingFallsBetweenPages /\ NoRepetitionUnlessArrived /\ OthersNeedPrivilege
  <1>1. DOMAIN shown = 1..Len(shown)
    BY LenProperties DEF ListInv, ListTyped
  <1>2. NoRepetitionUnlessArrived
    BY <1>1 DEF ListInv, ShownBehind, NoRepetitionUnlessArrived
  <1>3. OthersNeedPrivilege
    BY <1>1 DEF ListInv, OwnShown, OthersNeedPrivilege
  <1>4. NothingFallsBetweenPages
    BY DEF ListInv, ListTyped, NothingPassed, NothingFallsBetweenPages
  <1> QED
    BY <1>2, <1>3, <1>4

\* Of the rows there during the whole walk, no more are missing from the pages than
\* left, or arrived between the last page's count and its rows; one is shown twice
\* only if another arrived, and the rows of others are for the privileged (getUsers,
\* getLoans, listPowers, getAccounts, buildPageEnvelope). Where a list is by role,
\* this is of walks whose pages were all asked for in one.
THEOREM WalksMissNothing ==
    ASSUME ConstantsAssumption
    PROVE  Spec => [](NothingFallsBetweenPages /\ NoRepetitionUnlessArrived /\ OthersNeedPrivilege)
  BY ListInit, NextListInv, ListInvSuffices, PTL DEF Spec

-----------------------------------------------------------------------------
(* PasswordPages *)

Masked == Pag!Chars \X Pag!Chars
Cookies == {<<>>, <<0, 0, 0>>} \cup {<<s>> : s \in Pag!Chars} \cup Masked
Form == [token : Masked \cup {<<>>}, orphan : BOOLEAN]

\* A form that is no orphan is taken with this cookie.
Goes(c, form) == form.token \in Masked /\ Pag!Usable(c) /\ Pag!csrfTokensMatch(c, form.token)

RequestOK(r) ==
    r.at = "sent" =>
        /\ r.cookie \in Cookies /\ r.form \in Form
        /\ ~r.form.orphan /\ r.method \notin Pag!SAFE_METHODS => ~Pag!rejectCsrf(r)

PagesInv ==
    /\ cookie \in Cookies
    /\ \A f \in forms : f \in Form /\ f.token \in Masked /\ (~f.orphan => Goes(cookie, f))
    /\ \A t \in Tabs : RequestOK(tab[t])
    /\ tab = [t \in Tabs |-> tab[t]]
    /\ Pag!FormsStayGood

LEMMA SmallRem == ASSUME NEW n \in Nat \ {0}, NEW a \in 0..(n - 1)  PROVE a % n = a
  OBVIOUS
LEMMA OnceRound ==
  ASSUME NEW n \in Nat \ {0}, NEW a \in n..(2 * n - 1)  PROVE a % n = a - n
  OBVIOUS

\* Masking is undone by unmasking.
LEMMA MaskUndone ==
  ASSUME Pag!ConstantsAssumption, NEW s \in Pag!Chars, NEW m \in Pag!Chars
  PROVE  Pag!maskCsrfSecret(s, m) \in Masked /\ Pag!unmaskCsrfToken(Pag!maskCsrfSecret(s, m)) = s
  <1> DEFINE c == Pag!Rem(s + m, CHARS)
  <1>1. CHARS \in Nat \ {0} /\ s \in Int /\ m \in Int /\ 0 <= s /\ s < CHARS /\ 0 <= m /\ m < CHARS
    BY DEF Pag!Chars, Pag!ConstantsAssumption
  <1>2. (s + m < CHARS /\ c = s + m) \/ (s + m >= CHARS /\ c = s + m - CHARS)
    <2>1. CASE s + m < CHARS
      BY <1>1, <2>1, SmallRem DEF Pag!Rem
    <2>2. CASE s + m >= CHARS
      <3>1. s + m \in CHARS..(2 * CHARS - 1) /\ ~(s + m < 0)
        BY <1>1, <2>2
      <3>2. (s + m) % CHARS = s + m - CHARS
        BY <1>1, <3>1
      <3> QED
        BY <2>2, <3>1, <3>2 DEF Pag!Rem
    <2> QED
      BY <1>1, <2>1, <2>2
  <1>3. c \in Pag!Chars
    BY <1>1, <1>2 DEF Pag!Chars
  <1>4. Pag!Rem(Pag!Rem(c - m, CHARS) + CHARS, CHARS) = s
    <2> HIDE DEF c
    <2>1. CASE s + m < CHARS
      <3>1. c - m = s
        BY <1>1, <1>2, <2>1
      <3>2. Pag!Rem(s, CHARS) = s
        BY <1>1, SmallRem DEF Pag!Rem
      <3>3. s + CHARS \in CHARS..(2 * CHARS - 1)
        BY <1>1
      <3>4. (s + CHARS) % CHARS = s + CHARS - CHARS
        BY <1>1, <3>3, OnceRound
      <3>5. Pag!Rem(s + CHARS, CHARS) = s
        BY <1>1, <3>4 DEF Pag!Rem
      <3> QED
        BY <3>1, <3>2, <3>5
    <2>2. CASE s + m >= CHARS
      <3>1. c - m = s - CHARS
        BY <1>1, <1>2, <2>2
      <3>2. CHARS - s \in 1..CHARS
        BY <1>1
      <3>3. Pag!Rem(s - CHARS, CHARS) = IF s = 0 THEN 0 ELSE s - CHARS
        <4>1. CASE s = 0
          <5>1. CHARS \in CHARS..(2 * CHARS - 1)
            BY <1>1
          <5>2. CHARS % CHARS = 0
            BY <1>1, <5>1, OnceRound
          <5> QED
            BY <1>1, <4>1, <5>2 DEF Pag!Rem
        <4>2. CASE s # 0
          <5>1. CHARS - s \in 0..(CHARS - 1)
            BY <1>1, <4>2
          <5>2. (CHARS - s) % CHARS = CHARS - s
            BY <1>1, <5>1, SmallRem
          <5>3. -(s - CHARS) = CHARS - s
            BY <1>1
          <5> QED
            BY <1>1, <4>2, <5>2, <5>3 DEF Pag!Rem
        <4> QED
          BY <4>1, <4>2
      <3>4. Pag!Rem(s - CHARS, CHARS) + CHARS \in {s, CHARS} /\ (s # 0 => Pag!Rem(s - CHARS, CHARS) + CHARS = s)
            /\ (s = 0 => Pag!Rem(s - CHARS, CHARS) + CHARS = CHARS)
        BY <1>1, <3>3
      <3>5. Pag!Rem(s, CHARS) = s
        BY <1>1, SmallRem DEF Pag!Rem
      <3>6. Pag!Rem(CHARS, CHARS) = 0
        <4>1. CHARS \in CHARS..(2 * CHARS - 1)
          BY <1>1
        <4> QED
          BY <1>1, <4>1, OnceRound DEF Pag!Rem
      <3> QED
        BY <3>1, <3>4, <3>5, <3>6
    <2> QED
      BY <1>1, <2>1, <2>2
  <1>5. Pag!maskCsrfSecret(s, m) = <<m, c>>
    BY DEF Pag!maskCsrfSecret
  <1> QED
    BY <1>3, <1>4, <1>5 DEF Masked, Pag!unmaskCsrfToken

LEMMA ChosenRem ==
  ASSUME Pag!ConstantsAssumption, NEW a \in Pag!Chars, NEW b \in Pag!Chars
  PROVE  Pag!Rem(Pag!Rem(b - a, CHARS) + CHARS, CHARS) \in Pag!Chars
  <1>1. CHARS \in Nat \ {0} /\ Pag!Rem(b - a, CHARS) \in (1 - CHARS)..(CHARS - 1)
    <2>1. CHARS \in Nat \ {0} /\ a \in Int /\ b \in Int /\ 0 <= a /\ a < CHARS /\ 0 <= b /\ b < CHARS
      BY DEF Pag!Chars, Pag!ConstantsAssumption
    <2>2. CASE b < a
      <3>1. a - b \in 0..(CHARS - 1) /\ -(b - a) = a - b
        BY <2>1, <2>2
      <3>2. (a - b) % CHARS = a - b
        BY <2>1, <3>1, SmallRem
      <3> QED
        BY <2>1, <2>2, <3>1, <3>2 DEF Pag!Rem
    <2>3. CASE b >= a
      BY <2>1, <2>3, SmallRem DEF Pag!Rem
    <2> QED
      BY <2>1, <2>2, <2>3
  <1> DEFINE d == Pag!Rem(b - a, CHARS) + CHARS
  <1>2. d \in 1..(2 * CHARS - 1)
    BY <1>1
  <1> HIDE DEF d
  <1>3. d % CHARS \in 0..(CHARS - 1)
    BY <1>1, <1>2
  <1>4. Pag!Rem(d, CHARS) = d % CHARS
    BY <1>1, <1>2 DEF Pag!Rem
  <1> QED
    BY <1>3, <1>4 DEF Pag!Chars, d

-----------------------------------------------------------------------------
\* What the secret of each kind of cookie is.
LEMMA Secrets ==
  ASSUME Pag!ConstantsAssumption, NEW c \in Cookies
  PROVE  /\ Pag!Usable(c) <=> Pag!unmaskCsrfToken(c) \in Pag!Chars
         /\ Pag!unmaskCsrfToken(c) # Pag!NoSecret <=> Pag!unmaskCsrfToken(c) \in Pag!Chars
         /\ ~Pag!Usable(c) => Pag!unmaskCsrfToken(c) = Pag!NoSecret
         /\ Pag!Usable(c) <=> (c \in Masked \/ c \in {<<s>> : s \in Pag!Chars})
  <1>1. Pag!NoSecret \notin Pag!Chars
    BY DEF Pag!NoSecret, Pag!Chars
  <1>2. CASE c \in {<<>>, <<0, 0, 0>>}
    <2>1. Len(<<>>) = 0 /\ Len(<<0, 0, 0>>) = 3
      OBVIOUS
    <2>2. Len(c) = 0 \/ Len(c) = 3
      BY <1>2, <2>1
    <2>3. Len(c) # 1 /\ Len(c) # 2 /\ Len(c) \notin 1..2
      BY <2>2
    <2>4. ASSUME c \in Masked  PROVE FALSE
      <3>1. PICK a \in Pag!Chars, b \in Pag!Chars : c = <<a, b>>
        BY <2>4 DEF Masked
      <3>2. Len(c) = 2
        BY <3>1
      <3> QED BY <3>2, <2>3
    <2>5. ASSUME c \in {<<s>> : s \in Pag!Chars}  PROVE FALSE
      <3>1. PICK a \in Pag!Chars : c = <<a>>
        BY <2>5
      <3>2. Len(c) = 1
        BY <3>1
      <3> QED BY <3>2, <2>3
    <2>6. Pag!unmaskCsrfToken(c) = Pag!NoSecret
      BY <2>3, Zenon DEF Pag!unmaskCsrfToken
    <2>7. ~Pag!Usable(c)
      BY <2>3 DEF Pag!Usable
    <2> QED
      BY <1>1, <2>4, <2>5, <2>6, <2>7
  <1>3. CASE c \in {<<s>> : s \in Pag!Chars}
    <2>1. Len(c) = 1 /\ c[1] \in Pag!Chars
      BY <1>3
    <2> QED
      BY <1>1, <1>3, <2>1 DEF Pag!Usable, Pag!unmaskCsrfToken
  <1>4. CASE c \in Masked
    <2>1. Len(c) = 2 /\ c[1] \in Pag!Chars /\ c[2] \in Pag!Chars
      BY <1>4 DEF Masked
    <2>2. Pag!unmaskCsrfToken(c) \in Pag!Chars
      BY <2>1, ChosenRem DEF Pag!unmaskCsrfToken
    <2> QED
      BY <1>1, <1>4, <2>1, <2>2 DEF Pag!Usable
  <1> QED
    BY <1>2, <1>3, <1>4 DEF Cookies

\* A page's cookie keeps the secret of the cookie it was asked for with, if
\* that is usable, and its form has the secret of its cookie.
LEMMA IssuedMatch ==
  ASSUME Pag!ConstantsAssumption, NEW t, NEW token, NEW formToken, tab[t].cookie \in Cookies,
         Pag!issueCsrfCookie(t, token, formToken)
  PROVE  /\ token \in Masked /\ formToken \in Masked
         /\ Pag!unmaskCsrfToken(formToken) = Pag!unmaskCsrfToken(token)
         /\ Pag!Usable(tab[t].cookie) => Pag!unmaskCsrfToken(token) = Pag!unmaskCsrfToken(tab[t].cookie)
  <1> DEFINE c == tab[t].cookie
  <1>1. PICK s \in Pag!Chars, m \in Pag!Chars, n \in Pag!Chars :
           /\ token = Pag!sanitizeCsrfToken(c, s, m)
           /\ formToken = Pag!maskCsrfSecret(Pag!unmaskCsrfToken(token), n)
    BY DEF Pag!issueCsrfCookie
  <1> HIDE DEF c
  <1>2. c \in Cookies
    BY DEF c
  <1>3. token \in Masked /\ (Pag!Usable(c) => Pag!unmaskCsrfToken(token) = Pag!unmaskCsrfToken(c))
    <2>1. CASE c \in {<<>>, <<0, 0, 0>>}
      <3>1. Len(c) \notin 1..2
        BY <2>1
      <3> QED
        BY <1>1, <3>1, MaskUndone DEF Pag!sanitizeCsrfToken, Pag!Usable
    <2>2. CASE c \in {<<x>> : x \in Pag!Chars}
      <3>1. Len(c) = 1 /\ c[1] \in Pag!Chars
        BY <2>2
      <3>2. Pag!unmaskCsrfToken(c) = c[1]
        BY <3>1 DEF Pag!unmaskCsrfToken
      <3> QED
        BY <1>1, <3>1, <3>2, MaskUndone DEF Pag!sanitizeCsrfToken
    <2>3. CASE c \in Masked
      <3>1. Len(c) = 2
        BY <2>3 DEF Masked
      <3> QED
        BY <1>1, <2>3, <3>1 DEF Pag!sanitizeCsrfToken
    <2> QED
      BY <1>2, <2>1, <2>2, <2>3 DEF Cookies
  <1>4. Pag!unmaskCsrfToken(token) \in Pag!Chars
    BY <1>3, Secrets DEF Cookies, Pag!Usable, Masked
  <1> QED
    BY <1>1, <1>3, <1>4, MaskUndone DEF c

LEMMA PagesInit == ASSUME Pag!Init  PROVE PagesInv
  BY DEF Pag!Init, PagesInv, Cookies, RequestOK, Pag!FormsStayGood

\* A form that goes with the browser's cookie is not refused.
LEMMA SendSafe ==
  ASSUME Pag!ConstantsAssumption, PagesInv, NEW t \in Tabs, Pag!Send(t)  PROVE PagesInv'
  <1>1. PICK method \in {"GET", "POST", "PUT", "DELETE", "OPTIONS"},
             form \in forms \cup {[token |-> <<>>, orphan |-> TRUE]} :
           /\ (form.token = <<>> <=> method \in Pag!SAFE_METHODS)
           /\ \E field, header \in {form.token, <<>>} :
                /\ field = <<>> <=> header # <<>> \/ form.token = <<>>
                /\ field # <<>> => method = "POST"
                /\ tab' = [tab EXCEPT ![t] = [at |-> "sent", method |-> method,
                              cookie |-> cookie, field |-> field, header |-> header,
                              form |-> form]]
    BY DEF Pag!Send
  <1>2. PICK field \in {form.token, <<>>}, header \in {form.token, <<>>} :
           /\ field = <<>> <=> header # <<>> \/ form.token = <<>>
           /\ field # <<>> => method = "POST"
           /\ tab' = [tab EXCEPT ![t] = [at |-> "sent", method |-> method,
                         cookie |-> cookie, field |-> field, header |-> header, form |-> form]]
    BY <1>1
  <1> DEFINE r == [at |-> "sent", method |-> method, cookie |-> cookie, field |-> field,
                   header |-> header, form |-> form]
  <1>3. form \in Form /\ cookie \in Cookies /\ (~form.orphan => Goes(cookie, form))
    <2>1. CASE form \in forms
      BY <2>1 DEF PagesInv
    <2>2. CASE form = [token |-> <<>>, orphan |-> TRUE]
      BY <2>2 DEF PagesInv, Form
    <2> QED
      BY <2>1, <2>2
  <1>4. form.token # <<>> => Pag!Submitted(r) = form.token
    BY <1>2 DEF Pag!Submitted
  <1>5. RequestOK(r)
    <2>1. ASSUME ~form.orphan  PROVE ~Pag!rejectCsrf(r)
      <3>1. Goes(cookie, form)
        BY <1>3, <2>1
      <3>2. form.token # <<>>
        <4>1. form.token \in Masked
          BY <3>1 DEF Goes
        <4>2. ASSUME NEW s \in Masked  PROVE s # <<>>
          BY DEF Masked
        <4> QED BY <4>1, <4>2
      <3> QED
        BY <1>4, <3>1, <3>2 DEF Goes, Pag!rejectCsrf
    <2> QED
      BY <1>3, <2>1 DEF RequestOK
  <1>6. tab' = [tab EXCEPT ![t] = r] /\ UNCHANGED <<cookie, forms, answer>>
    BY <1>2 DEF Pag!Send
  <1> HIDE DEF r
  <1>7. \A u \in Tabs : RequestOK(tab'[u])
    BY <1>5, <1>6 DEF PagesInv
  <1>8. tab' = [u \in Tabs |-> tab'[u]]
    BY <1>6 DEF PagesInv
  <1> QED
    BY <1>6, <1>7, <1>8 DEF PagesInv, Pag!FormsStayGood, RequestOK

LEMMA ReceivedForm ==
  ASSUME Pag!ConstantsAssumption, PagesInv, NEW t \in Tabs, tab[t].at = "sent", Pag!ReceiveForm(t)
  PROVE  /\ cookie' \in Cookies
         /\ \A f \in forms' : f \in Form /\ f.token \in Masked /\ (~f.orphan => Goes(cookie', f))
         /\ answer'.status = 200
  <1>1. PICK token \in Pag!Chars \X Pag!Chars, formToken \in Pag!Chars \X Pag!Chars :
          /\ Pag!issueCsrfCookie(t, token, formToken)
          /\ cookie' = token
          /\ forms' = (IF Pag!csrfTokensMatch(cookie, tab[t].cookie) THEN forms ELSE Pag!Orphaned)
                       \cup {[token |-> formToken, orphan |-> FALSE]}
    BY DEF Pag!ReceiveForm
  <1>2. tab[t].cookie \in Cookies /\ cookie \in Cookies
    BY DEF PagesInv, RequestOK
  <1>3. /\ token \in Masked /\ formToken \in Masked
        /\ Pag!unmaskCsrfToken(formToken) = Pag!unmaskCsrfToken(token)
        /\ Pag!Usable(tab[t].cookie) => Pag!unmaskCsrfToken(token) = Pag!unmaskCsrfToken(tab[t].cookie)
    BY <1>1, <1>2, IssuedMatch
  <1>4. Pag!Usable(token) /\ Pag!unmaskCsrfToken(token) # Pag!NoSecret
    BY <1>3, Secrets DEF Cookies
  <1>5. ASSUME NEW f \in forms'
        PROVE  f \in Form /\ f.token \in Masked /\ (~f.orphan => Goes(cookie', f))
    <2>1. CASE f = [token |-> formToken, orphan |-> FALSE]
      BY <1>1, <1>3, <1>4, <2>1 DEF Form, Goes, Pag!csrfTokensMatch
    <2>2. CASE f \in Pag!Orphaned
      <3>1. PICK g \in forms : f = [g EXCEPT !.orphan = TRUE]
        BY <2>2 DEF Pag!Orphaned
      <3>2. g \in Form /\ g.token \in Masked
        BY DEF PagesInv
      <3> QED
        BY <3>1, <3>2 DEF Form
    <2>3. CASE Pag!csrfTokensMatch(cookie, tab[t].cookie) /\ f \in forms
      <3>1. f \in Form /\ f.token \in Masked /\ (~f.orphan => Goes(cookie, f))
        BY <2>3 DEF PagesInv
      <3>2. Pag!unmaskCsrfToken(cookie) # Pag!NoSecret
            /\ Pag!unmaskCsrfToken(cookie) = Pag!unmaskCsrfToken(tab[t].cookie)
        BY <2>3 DEF Pag!csrfTokensMatch
      <3>3. Pag!Usable(tab[t].cookie)
        BY <1>2, <3>2, Secrets
      <3> QED
        BY <1>1, <1>3, <1>4, <3>1, <3>2, <3>3 DEF Goes, Pag!csrfTokensMatch
    <2> QED
      BY <1>1, <2>1, <2>2, <2>3
  <1>6. answer'.status = 200 /\ cookie' \in Cookies
    BY <1>1, <1>3 DEF Pag!ReceiveForm, Cookies
  <1> QED
    BY <1>5, <1>6

LEMMA ReceiveSafe ==
  ASSUME Pag!ConstantsAssumption, PagesInv, NEW t \in Tabs, Pag!Receive(t)  PROVE PagesInv'
  <1> DEFINE r == tab[t]
  <1>1. r.at = "sent" /\ tab' = [tab EXCEPT ![t] = [at |-> "closed"]]
    BY DEF Pag!Receive
  <1>2. \A u \in Tabs : RequestOK(tab'[u])
    BY <1>1 DEF PagesInv, RequestOK
  <1>3. tab' = [u \in Tabs |-> tab'[u]]
    BY <1>1 DEF PagesInv
  <1>4. CASE Pag!ReceiveForm(t)
    <2>1. Pag!FormsStayGood'
      BY <1>1, <1>4, ReceivedForm DEF Pag!FormsStayGood
    <2> QED
      BY <1>1, <1>2, <1>3, <1>4, <2>1, ReceivedForm DEF PagesInv, RequestOK
  <1>5. ASSUME UNCHANGED <<cookie, forms>>, answer'.orphan = r.form.orphan,
               answer'.status = 403 => r.method \notin Pag!SAFE_METHODS /\ Pag!rejectCsrf(r)
        PROVE  PagesInv'
    <2>1. Pag!FormsStayGood'
      BY <1>1, <1>5 DEF Pag!FormsStayGood, PagesInv, RequestOK
    <2> QED
      BY <1>2, <1>3, <1>5, <2>1 DEF PagesInv, RequestOK
  <1> QED
    BY <1>4, <1>5 DEF Pag!Receive

LEMMA OverwriteSafe ==
  ASSUME Pag!ConstantsAssumption, PagesInv, Pag!Overwrite  PROVE PagesInv'
  <1>1. UNCHANGED <<tab, answer>>
    BY DEF Pag!Overwrite
  <1>2. cookie \in Cookies
    BY DEF PagesInv
  <1>3. CASE cookie' \in {<<>>, <<0, 0, 0>>}
    <2>1. forms' = Pag!Orphaned /\ cookie' \in Cookies
      BY <1>3 DEF Pag!Overwrite, Cookies
    <2>2. \A f \in forms' : f \in Form /\ f.token \in Masked /\ f.orphan
      BY <2>1 DEF Pag!Orphaned, Form, PagesInv
    <2> QED
      BY <1>1, <2>1, <2>2 DEF PagesInv, RequestOK, Pag!FormsStayGood
  <1>4. CASE Len(cookie) = 2 /\ cookie' = <<Pag!unmaskCsrfToken(cookie)>>
    <2>1. Pag!Usable(cookie) /\ Pag!unmaskCsrfToken(cookie) \in Pag!Chars
      BY <1>2, <1>4, Secrets DEF Pag!Usable
    <2>2. cookie' \in Cookies /\ forms' = forms /\ Len(cookie') = 1
      BY <1>4, <2>1 DEF Pag!Overwrite, Cookies
    <2>3. Pag!unmaskCsrfToken(cookie') = Pag!unmaskCsrfToken(cookie) /\ Pag!Usable(cookie')
      BY <1>4, <2>2 DEF Pag!unmaskCsrfToken, Pag!Usable
    <2>4. \A f \in forms' : f \in Form /\ f.token \in Masked /\ (~f.orphan => Goes(cookie', f))
      BY <2>2, <2>3 DEF PagesInv, Goes, Pag!csrfTokensMatch
    <2> QED
      BY <1>1, <2>2, <2>4 DEF PagesInv, RequestOK, Pag!FormsStayGood
  <1> QED
    BY <1>3, <1>4 DEF Pag!Overwrite

LEMMA PagesStutter == ASSUME PagesInv, UNCHANGED Pag!vars  PROVE PagesInv'
  BY DEF PagesInv, Pag!vars, RequestOK, Pag!FormsStayGood

LEMMA NextPagesInv == ASSUME Pag!ConstantsAssumption, PagesInv, [Pag!Next]_(Pag!vars)  PROVE PagesInv'
  BY SendSafe, ReceiveSafe, OverwriteSafe, PagesStutter DEF Pag!Next

\* However many forms a browser opens, in whatever order their pages arrive and
\* whichever it submits, a form is refused only once its secret was replaced
\* (rejectCsrf, issueCsrfCookie).
THEOREM FormsAreTaken == ASSUME Pag!ConstantsAssumption  PROVE Pag!Spec => []Pag!FormsStayGood
  <1>1. PagesInv => Pag!FormsStayGood
    BY DEF PagesInv
  <1> QED
    BY <1>1, PagesInit, NextPagesInv, PTL DEF Pag!Spec

-----------------------------------------------------------------------------
(* HttpEdge *)

Methods == Edg!Known \cup Edg!Unknown \cup {"CONNECT"}
Symbol == Methods \cup {"line", "end1", "end2", "body"} \cup Edg!HeaderLine
Message == {Edg!incomingMessage(m, h) : m \in Methods, h \in HeaderLists}
Whole(r) == Edg!Sent(r) \o Edg!Body(r)

\* What two sequences one after the other are.
LEMMA Joined ==
    ASSUME NEW S, NEW a \in Seq(S), NEW b \in Seq(S)
    PROVE  /\ a \o b \in Seq(S) /\ Len(a \o b) = Len(a) + Len(b)
           /\ \A i \in 1..Len(a) : (a \o b)[i] = a[i]
           /\ \A i \in 1..Len(b) : (a \o b)[i + Len(a)] = b[i]
OBVIOUS

\* The head of a request starts with its method, then its header lines are from
\* the third symbol on.
LEMMA SentIs ==
    ASSUME Edg!ConstantsAssumption, NEW r \in Edg!Sendable
    PROVE  /\ Edg!Sent(r) \in Seq(Symbol) /\ Edg!Body(r) \in Seq(Symbol) /\ Whole(r) \in Seq(Symbol)
           /\ r.headers \in Seq(Edg!HeaderLine) /\ r.method \in Methods /\ r.valid \in BOOLEAN
           /\ Len(Edg!Sent(r)) = Len(r.headers) + 4
           /\ Len(Edg!Body(r)) <= 1 /\ Len(Whole(r)) = Len(Edg!Sent(r)) + Len(Edg!Body(r))
           /\ Edg!Sent(r)[1] = r.method /\ Edg!Sent(r)[2] = "line"
           /\ \A i \in 1..Len(r.headers) : Edg!Sent(r)[i + 2] = r.headers[i]
           /\ Edg!Sent(r)[Len(r.headers) + 3] = "end1" /\ Edg!Sent(r)[Len(r.headers) + 4] = "end2"
<1>1. /\ r.headers \in HeaderLists /\ r.method \in Methods /\ r.valid \in BOOLEAN /\ r.body \in BOOLEAN
  BY DEF Edg!Sendable, Methods
<1>2. r.headers \in Seq(Edg!HeaderLine)
  BY <1>1 DEF Edg!ConstantsAssumption
<1> DEFINE top == <<r.method, "line">>
<1>3. /\ top \in Seq(Symbol) /\ Len(top) = 2 /\ top[1] = r.method /\ top[2] = "line"
  BY <1>1 DEF Methods, Edg!Known, Edg!Unknown, Edg!Accepted, Edg!Rejected, Symbol
<1>4. /\ Edg!Terminator \in Seq(Symbol) /\ Len(Edg!Terminator) = 2 /\ Edg!Terminator[1] = "end1" /\ Edg!Terminator[2] = "end2"
  BY DEF Edg!Terminator, Symbol
<1>5. r.headers \in Seq(Symbol)
  BY <1>2 DEF Symbol
<1>6. /\ Edg!Body(r) \in Seq(Symbol) /\ Len(Edg!Body(r)) <= 1
  <2>1. CASE r.body
    BY <2>1 DEF Edg!Body, Symbol
  <2>2. CASE ~r.body
    <3>1. Edg!Body(r) = <<>>
      BY <2>2 DEF Edg!Body
    <3> QED BY <3>1
  <2> QED BY <2>1, <2>2
<1>7. Edg!Sent(r) = (top \o r.headers) \o Edg!Terminator
  BY DEF Edg!Sent
<1> HIDE DEF top
<1>8. /\ top \o r.headers \in Seq(Symbol) /\ Len(top \o r.headers) = Len(r.headers) + 2
      /\ (top \o r.headers)[1] = r.method /\ (top \o r.headers)[2] = "line"
      /\ \A i \in 1..Len(r.headers) : (top \o r.headers)[i + 2] = r.headers[i]
  <2>1. PICK lines \in Seq(Symbol) : lines = r.headers
    BY <1>5
  <2>2. PICK h : h = top \o lines
    OBVIOUS
  <2>3. /\ h \in Seq(Symbol) /\ Len(h) = Len(top) + Len(lines)
        /\ \A i \in 1..Len(top) : h[i] = top[i]
        /\ \A i \in 1..Len(lines) : h[i + Len(top)] = lines[i]
    <3>1. top \in Seq(Symbol)
      BY <1>3
    <3>2. /\ top \o lines \in Seq(Symbol) /\ Len(top \o lines) = Len(top) + Len(lines)
          /\ \A i \in 1..Len(top) : (top \o lines)[i] = top[i]
          /\ \A i \in 1..Len(lines) : (top \o lines)[i + Len(top)] = lines[i]
      BY <3>1
    <3> QED BY <2>2, <3>2
  <2>4. 1 \in 1..Len(top) /\ 2 \in 1..Len(top)
    BY <1>3
  <2> QED BY <2>1, <2>2, <2>3, <2>4, <1>3
<1>9. /\ Edg!Sent(r) \in Seq(Symbol) /\ Len(Edg!Sent(r)) = Len(r.headers) + 4
      /\ Edg!Sent(r)[1] = r.method /\ Edg!Sent(r)[2] = "line"
      /\ \A i \in 1..Len(r.headers) : Edg!Sent(r)[i + 2] = r.headers[i]
      /\ Edg!Sent(r)[Len(r.headers) + 3] = "end1" /\ Edg!Sent(r)[Len(r.headers) + 4] = "end2"
  <2>1. PICK h \in Seq(Symbol) : h = top \o r.headers
    BY <1>8
  <2>2. PICK n \in Nat : n = Len(r.headers)
    BY <1>5
  <2>3. /\ Edg!Sent(r) \in Seq(Symbol) /\ Len(Edg!Sent(r)) = Len(h) + Len(Edg!Terminator)
        /\ \A i \in 1..Len(h) : Edg!Sent(r)[i] = h[i]
        /\ \A i \in 1..Len(Edg!Terminator) : Edg!Sent(r)[i + Len(h)] = Edg!Terminator[i]
    <3>1. Edg!Sent(r) = h \o Edg!Terminator
      BY <1>7, <2>1
    <3>2. PICK e \in Seq(Symbol) : e = Edg!Terminator
      BY <1>4
    <3>3. Edg!Sent(r) = h \o e
      BY <3>1, <3>2
    <3>4. /\ h \o e \in Seq(Symbol) /\ Len(h \o e) = Len(h) + Len(e)
          /\ \A i \in 1..Len(h) : (h \o e)[i] = h[i]
          /\ \A i \in 1..Len(e) : (h \o e)[i + Len(h)] = e[i]
      BY <2>1, <3>2, Joined
    <3> QED BY <3>2, <3>3, <3>4
  <2>4. Len(h) = n + 2 /\ h[1] = r.method /\ h[2] = "line"
        /\ \A i \in 1..n : h[i + 2] = r.headers[i]
    BY <1>8, <2>1, <2>2
  <2>5. 1 \in 1..Len(h) /\ 2 \in 1..Len(h) /\ \A i \in 1..n : i + 2 \in 1..Len(h)
    BY <2>2, <2>4
  <2>6. /\ Edg!Sent(r)[1 + (n + 2)] = "end1" /\ Edg!Sent(r)[2 + (n + 2)] = "end2"
        /\ 1 + (n + 2) = n + 3 /\ 2 + (n + 2) = n + 4 /\ Len(Edg!Sent(r)) = n + 4
    BY <2>2, <2>3, <2>4, <1>4
  <2> QED BY <2>2, <2>3, <2>4, <2>5, <2>6
<1>10. /\ Whole(r) \in Seq(Symbol) /\ Len(Whole(r)) = Len(Edg!Sent(r)) + Len(Edg!Body(r))
  BY <1>9, <1>6 DEF Whole
<1> QED BY <1>1, <1>2, <1>6, <1>9, <1>10

\* The half of an empty line that ends a head is nowhere else in a request.
LEMMA OneTerminator ==
    ASSUME Edg!ConstantsAssumption, NEW r \in Edg!Sendable,
           NEW i \in 1..Len(Whole(r)), Whole(r)[i] = "end1"
    PROVE  i = Len(Edg!Sent(r)) - 1
<1>1. PICK n \in Nat : n = Len(r.headers) /\ Len(Edg!Sent(r)) = n + 4
  BY SentIs
<1>2. CASE i > n + 4
  <2>1. Whole(r)[i] = Edg!Body(r)[i - (n + 4)] /\ i - (n + 4) \in 1..Len(Edg!Body(r))
    BY SentIs, <1>1, <1>2 DEF Whole
  <2> QED BY <2>1 DEF Edg!Body
<1>3. CASE i <= n + 4
  <2>1. Whole(r)[i] = Edg!Sent(r)[i]
    BY SentIs, <1>1, <1>3 DEF Whole
  <2>2. i # 1 /\ i # 2 /\ i # n + 4
    BY <2>1, SentIs, <1>1 DEF Methods, Edg!Known, Edg!Unknown, Edg!Accepted, Edg!Rejected
  <2>3. i \notin 3..n + 2
    <3> SUFFICES ASSUME i \in 3..n + 2 PROVE FALSE
      OBVIOUS
    <3>1. PICK j \in 1..n : i = j + 2
      BY DEF Edg!Terminator
    <3>2. \A k \in 1..Len(r.headers) : Edg!Sent(r)[k + 2] = r.headers[k]
      BY SentIs
    <3>3. r.headers \in Seq(Edg!HeaderLine)
      BY SentIs
    <3>4. j \in 1..Len(r.headers)
      BY <1>1, <3>1
    <3>5. r.headers[j] \in Edg!HeaderLine
      BY <3>3, <3>4, ElementOfSeq
    <3>6. Edg!Sent(r)[i] = r.headers[j]
      BY <3>1, <3>2, <3>4
    <3> QED BY <3>5, <3>6, <2>1 DEF Edg!ConstantsAssumption
  <2> QED BY <1>3, <2>2, <2>3, <1>1
<1> QED BY <1>1, <1>2, <1>3, SentIs

\* Where a head ends, whatever has arrived after it; and what is dispatched of it.
LEMMA HeadEnds ==
    ASSUME Edg!ConstantsAssumption, NEW r \in Edg!Sendable,
           NEW h \in Seq(Symbol), NEW u \in Seq(Symbol), h \o u = Whole(r)
    PROVE  /\ Edg!TerminatorAt(h) # {} <=> Len(h) >= Len(Edg!Sent(r))
           /\ Edg!TerminatorAt(h) # {} => /\ h[1] = r.method
                                      /\ Edg!HeadOf(h) = Edg!Sent(r)
                                      /\ Edg!buildIncomingMessage(Edg!HeadOf(h)) = Edg!incomingMessage(r.method, r.headers)
<1>1. PICK n \in Nat : n = Len(r.headers) /\ Len(Edg!Sent(r)) = n + 4
  BY SentIs
<1>2. \A i \in 1..Len(h) : i \in 1..Len(Whole(r)) /\ Whole(r)[i] = h[i]
  BY SentIs
<1>3. \A i \in Edg!TerminatorAt(h) : i = n + 3 /\ i \in 1..Len(h) - 1
  <2> SUFFICES ASSUME NEW i \in Edg!TerminatorAt(h) PROVE i = n + 3 /\ i \in 1..Len(h) - 1
    OBVIOUS
  <2>1. i \in 1..Len(h) - 1 /\ SubSeq(h, i, i + 1) = Edg!Terminator
    BY DEF Edg!TerminatorAt
  <2>2. SubSeq(h, i, i + 1)[1] = h[i]
    BY <2>1
  <2>3. h[i] = "end1"
    <3>1. Edg!Terminator[1] = "end1"
      BY DEF Edg!Terminator
    <3> QED BY <3>1, <2>1, <2>2, Zenon
  <2>4. i \in 1..Len(h)
    BY <2>1
  <2>5. i = Len(Edg!Sent(r)) - 1
    BY <2>3, <2>4, <1>2, OneTerminator
  <2> QED BY <2>1, <2>5, <1>1
<1>4. ASSUME Len(h) >= n + 4
      PROVE  n + 3 \in Edg!TerminatorAt(h) /\ SubSeq(h, 1, n + 4) = Edg!Sent(r)
  <2>1. \A i \in 1..n + 4 : h[i] = Edg!Sent(r)[i]
    BY <1>4, <1>2, <1>1, SentIs DEF Whole
  <2>2. h[n + 3] = "end1" /\ h[n + 4] = "end2"
    <3>1. n + 3 \in 1..n + 4 /\ n + 4 \in 1..n + 4
      BY <1>1
    <3>2. Edg!Sent(r)[n + 3] = "end1" /\ Edg!Sent(r)[n + 4] = "end2"
      BY <1>1, SentIs
    <3> QED BY <3>1, <3>2, <2>1
  <2>3. SubSeq(h, n + 3, (n + 3) + 1) = <<h[n + 3], h[n + 4]>>
    <3>1. PICK k \in Nat : k = n + 3
      BY <1>1
    <3>2. k \in 1..Len(h) /\ k + 1 \in 1..Len(h) /\ k + 1 = n + 4
      BY <3>1, <1>4, <1>1
    <3>3. PICK s : s = SubSeq(h, k, k + 1)
      OBVIOUS
    <3>4. s \in Seq(Symbol) /\ Len(s) = 2
      BY <3>2, <3>3
    <3>5. s[1] = h[k] /\ s[2] = h[k + 1]
      BY <3>2, <3>3
    <3>6. s = <<h[k], h[k + 1]>>
      BY <3>4, <3>5
    <3> QED BY <3>1, <3>2, <3>3, <3>6
  <2>4. n + 3 \in Edg!TerminatorAt(h)
    BY <2>2, <2>3, <1>4 DEF Edg!TerminatorAt, Edg!Terminator
  <2>5. SubSeq(h, 1, n + 4) = Edg!Sent(r)
    BY <2>1, <1>1, <1>4, SentIs
  <2> QED BY <2>4, <2>5
<1>5. Edg!TerminatorAt(h) # {} <=> Len(h) >= Len(Edg!Sent(r))
  BY <1>1, <1>3, <1>4
<1>6. ASSUME Edg!TerminatorAt(h) # {}
      PROVE  Edg!HeadOf(h) = Edg!Sent(r) /\ h[1] = r.method
  <2>1. (CHOOSE i \in Edg!TerminatorAt(h) : TRUE) = n + 3
    BY <1>6, <1>3
  <2>2. Edg!HeadOf(h) = SubSeq(h, 1, n + 4)
    <3>1. Edg!HeadOf(h) = SubSeq(h, 1, (CHOOSE i \in Edg!TerminatorAt(h) : TRUE) + 1)
      BY Zenon DEF Edg!HeadOf
    <3>2. (n + 3) + 1 = n + 4
      BY <1>1
    <3> QED BY <2>1, <3>1, <3>2, Zenon
  <2>3. Len(h) >= n + 4
    BY <1>6, <1>3
  <2>4. SubSeq(h, 1, n + 4) = Edg!Sent(r) /\ h[1] = SubSeq(h, 1, n + 4)[1]
    BY <2>3, <1>4
  <2> QED BY <2>2, <2>4, SentIs
<1>7. Edg!HeaderLines(Edg!Sent(r)) = r.headers
  <2>1. Edg!HeaderLines(Edg!Sent(r)) = SubSeq(Edg!Sent(r), 3, n + 2)
    BY <1>1 DEF Edg!HeaderLines
  <2>2. /\ SubSeq(Edg!Sent(r), 3, n + 2) \in Seq(Symbol) /\ Len(SubSeq(Edg!Sent(r), 3, n + 2)) = n
        /\ \A i \in 1..n : SubSeq(Edg!Sent(r), 3, n + 2)[i] = Edg!Sent(r)[i + 2]
    BY <1>1, SentIs, SMTT(30)
  <2> QED BY <2>1, <2>2, <1>1, SentIs, SMTT(30)
<1> QED BY <1>5, <1>6, <1>7, SentIs DEF Edg!buildIncomingMessage

-----------------------------------------------------------------------------
(* The handlers of the routes *)

LEMMA MinIs ==
    ASSUME NEW S \in SUBSET Nat, NEW n \in S, \A j \in S : n <= j
    PROVE  Edg!Min(S) = n
<1>1. \A m \in S : (\A j \in S : m <= j) => m = n
  BY Z3
<1> QED BY <1>1 DEF Edg!Min

LEMMA RouteExcept ==
    ASSUME NEW m, NEW a, NEW b, NEW s, NEW t
    PROVE  LET r == [[methods |-> m, _all |-> a, stack |-> s] EXCEPT !._all = b, !.stack = t]
           IN  r._all = b /\ r.stack = t
OBVIOUS

LEMMA Restored ==
    /\ Edg!restoreCatchAllRoutes[1] = Edg!Get("view")
    /\ Edg!restoreCatchAllRoutes[2] = Edg!collapseToAllLayer(Edg!All("guard"))
    /\ DOMAIN Edg!restoreCatchAllRoutes = 1..2
<1>1. DOMAIN Edg!Router = 1..2 /\ Edg!Router[1] = Edg!Get("view") /\ Edg!Router[2] = Edg!All("guard")
  BY DEF Edg!Router
<1>2. ~Edg!isCatchAllRoute(Edg!Get("view"))
  BY DEF Edg!isCatchAllRoute, Edg!Get
<1>3. Edg!isCatchAllRoute(Edg!All("guard"))
  <2>1. Len(Edg!All("guard").stack) = 3 /\ DOMAIN Edg!All("guard").stack = 1..3
    BY DEF Edg!All
  <2>2. \A i \in 1..3 : Edg!All("guard").stack[i].handle = "guard"
    <3>1. \A i \in 1..3 : i = 1 \/ i = 2 \/ i = 3
      OBVIOUS
    <3> QED BY <3>1 DEF Edg!All, Edg!Layer
  <2>3. Edg!Known \subseteq Edg!All("guard").methods
    BY DEF Edg!All
  <2>4. Edg!All("guard").stack[1].handle = "guard"
    BY <2>2
  <2> QED BY <2>1, <2>2, <2>3, <2>4 DEF Edg!isCatchAllRoute
<1> QED BY <1>1, <1>2, <1>3 DEF Edg!restoreCatchAllRoutes

\* One verb in one route: which of its layers answers.
LEMMA Handles ==
    ASSUME NEW router, DOMAIN router = 1..2, NEW method,
           NEW k \in 1..2, NEW l \in 1..3,
           LET Answering(route) == {i \in DOMAIN route.stack : route.stack[i].method \in {method, "any"}}
               Entered(i) == (method \in router[i].methods \/ router[i]._all) /\ Answering(router[i]) # {}
           IN  /\ Entered(k) /\ \A i \in 1..2 : i < k => ~Entered(i)
               /\ DOMAIN router[k].stack \subseteq 1..3
               /\ l \in Answering(router[k]) /\ \A i \in Answering(router[k]) : l <= i
    PROVE  Edg!Handler(router, method) = router[k].stack[l].handle
<1> DEFINE Answering(route) == {i \in DOMAIN route.stack : route.stack[i].method \in {method, "any"}}
           Entered(i) == (method \in router[i].methods \/ router[i]._all) /\ Answering(router[i]) # {}
           entered == {i \in 1..2 : Entered(i)}
<1>1. k \in entered /\ \A i \in entered : k <= i
  OBVIOUS
<1>2. Edg!Min(entered) = k
  BY <1>1, MinIs
<1>3. Answering(router[k]) \in SUBSET Nat
  OBVIOUS
<1>4. Edg!Min(Answering(router[k])) = l
  BY <1>3, MinIs
<1>5. entered # {}
  BY <1>1
<1>6. Edg!Handler(router, method) = IF entered = {} THEN "404"
                                ELSE router[Edg!Min(entered)].stack[Edg!Min(Answering(router[Edg!Min(entered)]))].handle
  BY DEF Edg!Handler
<1> QED BY <1>2, <1>4, <1>5, <1>6

\* A method that Node refused comes to the handler of the catch-all, and what
\* was answered before is answered alike.
LEMMA SameHandlers ==
    /\ \A m \in Edg!Unknown : Edg!Handler(Edg!restoreCatchAllRoutes, m) = Edg!Handler(Edg!Router, "PUT")
    /\ \A m \in Edg!Known : Edg!Handler(Edg!restoreCatchAllRoutes, m) = Edg!Handler(Edg!Router, m)
<1>0. DOMAIN Edg!Router = 1..2 /\ Edg!Router[1] = Edg!Get("view") /\ Edg!Router[2] = Edg!All("guard")
  BY DEF Edg!Router
<1>1. /\ Edg!Get("view").methods = {"GET"} /\ Edg!Get("view")._all = FALSE
      /\ DOMAIN Edg!Get("view").stack = 1..1 /\ Edg!Get("view").stack[1] = Edg!Layer("GET", "view")
  BY DEF Edg!Get
<1>2. /\ Edg!All("guard").methods = {"GET", "PUT", "CONNECT"} /\ Edg!All("guard")._all = FALSE
      /\ DOMAIN Edg!All("guard").stack = 1..3
      /\ Edg!All("guard").stack[1] = Edg!Layer("GET", "guard")
      /\ Edg!All("guard").stack[2] = Edg!Layer("PUT", "guard")
      /\ Edg!All("guard").stack[3] = Edg!Layer("CONNECT", "guard")
  BY DEF Edg!All, Edg!Known
<1>3. LET all == Edg!collapseToAllLayer(Edg!All("guard"))
      IN  all._all = TRUE /\ DOMAIN all.stack = 1..1 /\ all.stack[1] = Edg!Layer("any", "guard")
  <2>1. Edg!All("guard").stack[1].handle = "guard"
    BY <1>2 DEF Edg!Layer
  <2>2. PICK ms, ss : Edg!All("guard") = [methods |-> ms, _all |-> FALSE, stack |-> ss]
    BY DEF Edg!All
  <2>3. PICK t : t = <<Edg!Layer("any", "guard")>>
    OBVIOUS
  <2>4. Edg!collapseToAllLayer(Edg!All("guard")) =
            [[methods |-> ms, _all |-> FALSE, stack |-> ss] EXCEPT !._all = TRUE, !.stack = t]
    BY <2>1, <2>2, <2>3 DEF Edg!collapseToAllLayer
  <2>5. Edg!collapseToAllLayer(Edg!All("guard"))._all = TRUE /\ Edg!collapseToAllLayer(Edg!All("guard")).stack = t
    BY <2>4, RouteExcept
  <2> QED BY <2>3, <2>5
<1>4. \A m, h : Edg!Layer(m, h).method = m /\ Edg!Layer(m, h).handle = h
  BY DEF Edg!Layer
<1>5. Edg!Handler(Edg!Router, "PUT") = "guard"
  <2>1. Edg!Handler(Edg!Router, "PUT") = Edg!Router[2].stack[2].handle
    BY <1>0, <1>1, <1>2, <1>4, Handles
  <2> QED BY <2>1, <1>0, <1>2, <1>4
<1>6. Edg!Handler(Edg!Router, "GET") = "view"
  <2>1. Edg!Handler(Edg!Router, "GET") = Edg!Router[1].stack[1].handle
    BY <1>0, <1>1, <1>2, <1>4, Handles
  <2> QED BY <2>1, <1>0, <1>1, <1>4
<1>7. ASSUME NEW m, m # "GET"
      PROVE  Edg!Handler(Edg!restoreCatchAllRoutes, m) = "guard"
  <2>1. Edg!Handler(Edg!restoreCatchAllRoutes, m) = Edg!restoreCatchAllRoutes[2].stack[1].handle
    BY <1>7, <1>1, <1>3, <1>4, Restored, Handles
  <2> QED BY <2>1, Restored, <1>3, <1>4
<1>8. Edg!Handler(Edg!restoreCatchAllRoutes, "GET") = "view"
  <2>1. Edg!Handler(Edg!restoreCatchAllRoutes, "GET") = Edg!restoreCatchAllRoutes[1].stack[1].handle
    BY <1>1, <1>3, <1>4, Restored, Handles
  <2> QED BY <2>1, Restored, <1>1, <1>4
<1>9. \A m \in Edg!Unknown : m # "GET"
  BY DEF Edg!Unknown, Edg!Accepted, Edg!Rejected
<1> QED BY <1>5, <1>6, <1>7, <1>8, <1>9 DEF Edg!Known

-----------------------------------------------------------------------------
(* The inductive invariant *)

Answer == {"400", "431"} \cup {Edg!Handler(Edg!restoreCatchAllRoutes, m) : m \in Methods}
Recovery == [buffer : Seq(Symbol), state : {"collecting", "dispatched", "400", "431", "closed"}]

EdgeTyped ==
    /\ requests \in Nat \ {0} /\ request \in Edg!Sendable
    /\ unsent \in Seq(Symbol) /\ received \in Seq(Symbol) /\ owned \in BOOLEAN
    /\ recoveries \in Seq(Recovery) /\ dispatched \in Seq(Message) /\ answers \in Seq(Answer)
    /\ socket \in {"open", "ended", "left"}

\* What has been answered: the requests before, and this one at most once.
Counted ==
    /\ requests - 1 <= Len(answers) /\ Len(answers) + Len(dispatched) <= requests
    /\ socket = "ended" /\ Len(answers) < requests => requests > 1 /\ request.method \notin Edg!Unknown

\* A socket is taken over for the one request whose method Node did not know,
\* or for a CONNECT, and then the connection carries no other.
TakenOver ==
    /\ owned /\ request.method \in Edg!Unknown => Len(recoveries) = 1
    /\ owned /\ request.method \notin Edg!Unknown => request.method = "CONNECT"
    /\ ~owned \/ request.method \notin Edg!Unknown => recoveries = <<>>
    /\ socket = "open" /\ owned => Len(answers) = requests - 1

\* How far a request whose head its reader has not taken over is.
Reading ==
    socket = "open" /\ ~owned =>
        /\ request.method \in Edg!Unknown => received = <<>> /\ unsent = Whole(request)
        /\ request.method \notin Edg!Unknown => received \o unsent = Whole(request)
        /\ Edg!TerminatorAt(received) = {} => Len(answers) = requests - 1 /\ dispatched = <<>>
        /\ Edg!TerminatorAt(received) # {} =>
              /\ Len(answers) + Len(dispatched) = requests
              /\ request.valid /\ Len(Edg!Sent(request)) <= maxHeaderSize
              /\ request.method # "CONNECT"

\* And one whose socket has been taken over.
Recovering ==
    socket = "open" /\ owned =>
        \/ /\ request.method \in Edg!Unknown /\ recoveries[1].state = "collecting"
           /\ dispatched = <<>> /\ recoveries[1].buffer \o unsent = Whole(request)
        \/ /\ request.method \in Edg!Unknown => recoveries[1].state = "dispatched"
           /\ Len(dispatched) = 1

\* What Express has is the request.
Given ==
    socket = "open" /\ dispatched # <<>> =>
        dispatched[1] = Edg!incomingMessage(request.method, request.headers)

EdgeInv == EdgeTyped /\ Counted /\ TakenOver /\ Reading /\ Recovering /\ Given

-----------------------------------------------------------------------------
(* Each action *)

LEMMA Typings ==
    /\ \A m \in Methods, h \in HeaderLists : Edg!incomingMessage(m, h) \in Message
    /\ \A msg \in Message : \E m \in Methods : msg.method = m
    /\ \A m \in Methods : Edg!Handler(Edg!restoreCatchAllRoutes, m) \in Answer
    /\ "400" \in Answer /\ "431" \in Answer
<1>1. \A m, h : Edg!incomingMessage(m, h).method = m
  BY DEF Edg!incomingMessage
<1>2. \A m \in Methods, h \in HeaderLists : Edg!incomingMessage(m, h) \in Message
  BY DEF Message
<1>3. \A msg \in Message : \E m \in Methods : msg.method = m
  <2> TAKE msg \in Message
  <2>1. PICK m \in Methods, h \in HeaderLists : msg = Edg!incomingMessage(m, h)
    BY DEF Message
  <2> QED BY <2>1, <1>1
<1>4. \A m \in Methods : Edg!Handler(Edg!restoreCatchAllRoutes, m) \in Answer
  BY Zenon DEF Answer
<1> QED BY <1>2, <1>3, <1>4 DEF Answer

LEMMA RequestGives ==
    ASSUME NEW r \in Edg!Sendable
    PROVE  Edg!incomingMessage(r.method, r.headers) \in Message
<1>1. r.method \in Methods /\ r.headers \in HeaderLists
  BY DEF Edg!Sendable, Methods
<1> QED BY <1>1, Typings

\* What has arrived, and what is still to come.
LEMMA Chunked ==
    ASSUME NEW u \in Seq(Symbol), NEW n \in 1..Len(u), NEW h \in Seq(Symbol)
    PROVE  /\ SubSeq(u, 1, n) \in Seq(Symbol) /\ SubSeq(u, n + 1, Len(u)) \in Seq(Symbol)
           /\ h \o SubSeq(u, 1, n) \in Seq(Symbol)
           /\ (h \o SubSeq(u, 1, n)) \o SubSeq(u, n + 1, Len(u)) = h \o u
           /\ SubSeq(u, 1, n) \o SubSeq(u, n + 1, Len(u)) = u
           /\ Len(h \o SubSeq(u, 1, n)) = Len(h) + n
<1> DEFINE a == SubSeq(u, 1, n)
           b == SubSeq(u, n + 1, Len(u))
<1>1. a \in Seq(Symbol) /\ Len(a) = n /\ \A i \in 1..n : a[i] = u[i]
  OBVIOUS
<1>2. b \in Seq(Symbol) /\ Len(b) = Len(u) - n /\ \A i \in 1..Len(u) - n : b[i] = u[n + i]
  OBVIOUS
<1> HIDE DEF a, b
<1>3. /\ a \o b \in Seq(Symbol) /\ Len(a \o b) = Len(u)
      /\ \A i \in 1..Len(u) : (a \o b)[i] = u[i]
  <2>1. PICK p \in Seq(Symbol), q \in Seq(Symbol) : p = a /\ q = b
    BY <1>1, <1>2
  <2>2. /\ p \o q \in Seq(Symbol) /\ Len(p \o q) = Len(p) + Len(q)
        /\ \A i \in 1..Len(p) : (p \o q)[i] = p[i]
        /\ \A i \in 1..Len(q) : (p \o q)[i + Len(p)] = q[i]
    BY <2>1, Joined
  <2>3. Len(p) = n /\ Len(q) = Len(u) - n /\ Len(p \o q) = Len(u)
    BY <2>1, <2>2, <1>1, <1>2
  <2>4. ASSUME NEW i \in 1..Len(u) PROVE (p \o q)[i] = u[i]
    <3>1. CASE i <= n
      BY <3>1, <2>1, <2>2, <2>3, <1>1
    <3>2. CASE i > n
      <4>1. PICK j \in 1..Len(u) - n : i = j + n
        <5>1. i - n \in 1..Len(u) - n /\ i = (i - n) + n
          BY <3>2
        <5> QED BY <5>1
      <4>2. (p \o q)[j + n] = q[j]
        BY <2>2, <2>3
      <4>3. q[j] = u[n + j] /\ n + j = j + n
        BY <2>1, <1>2
      <4> QED BY <4>1, <4>2, <4>3
    <3>3. i <= n \/ i > n
      OBVIOUS
    <3> QED BY <3>1, <3>2, <3>3, Zenon
  <2> QED BY <2>1, <2>2, <2>3, <2>4
<1>4. a \o b = u
  <2>1. PICK w \in Seq(Symbol) : w = a \o b
    BY <1>3
  <2>2. Len(w) = Len(u) /\ \A i \in 1..Len(u) : w[i] = u[i]
    BY <2>1, <1>3
  <2>3. w = u
    BY <2>2
  <2> QED BY <2>1, <2>3
<1>5. /\ h \o a \in Seq(Symbol) /\ Len(h \o a) = Len(h) + n
      /\ \A i \in 1..Len(h) : (h \o a)[i] = h[i]
      /\ \A i \in 1..n : (h \o a)[i + Len(h)] = a[i]
  <2>1. PICK p \in Seq(Symbol) : p = a
    BY <1>1
  <2>2. /\ h \o p \in Seq(Symbol) /\ Len(h \o p) = Len(h) + Len(p)
        /\ \A i \in 1..Len(h) : (h \o p)[i] = h[i]
        /\ \A i \in 1..Len(p) : (h \o p)[i + Len(h)] = p[i]
    BY <2>1, Joined
  <2> QED BY <2>1, <2>2, <1>1
<1>6. (h \o a) \o b = h \o (a \o b)
  BY <1>1, <1>2, SMTT(30)
<1> QED BY <1>1, <1>2, <1>4, <1>5, <1>6 DEF a, b

LEMMA AppendIs ==
    ASSUME NEW S, NEW s \in Seq(S), NEW e
    PROVE  s \o <<e>> = Append(s, e)
OBVIOUS

LEMMA EmptyDomain == DOMAIN <<>> = {} /\ 1 \notin {}
OBVIOUS

LEMMA InOrderOne ==
    /\ Edg!InOrder({}) = <<>>
    /\ DOMAIN Edg!InOrder({1}) = 1..1 /\ Edg!InOrder({1})[1] = 1 /\ Edg!InOrder({1}) # <<>>
<1>1. Edg!Cardinality({}) = 0 /\ Edg!Cardinality({1}) = 1
  BY FS_EmptySet, FS_Singleton DEF Edg!Cardinality, Cardinality, Edg!IsFiniteSet, IsFiniteSet
<1>2. Edg!InOrder({}) = <<>>
  <2>1. Edg!InOrder({}) = [n \in 1..0 |-> CHOOSE i \in {} : Edg!Cardinality({j \in {} : j < i}) = n - 1]
    BY <1>1 DEF Edg!InOrder
  <2>2. 1..0 = {}
    OBVIOUS
  <2> QED BY <2>1, <2>2
<1>3. {j \in {1} : j < 1} = {}
  OBVIOUS
<1>4. DOMAIN Edg!InOrder({1}) = 1..1
  BY <1>1 DEF Edg!InOrder
<1>5. Edg!InOrder({1})[1] = CHOOSE i \in {1} : Edg!Cardinality({j \in {1} : j < i}) = 1 - 1
  BY <1>1 DEF Edg!InOrder
<1>6. Edg!InOrder({1})[1] = 1
  <2>1. \A i \in {1} : Edg!Cardinality({j \in {1} : j < i}) = 1 - 1
    BY <1>1, <1>3
  <2>2. \E i \in {1} : Edg!Cardinality({j \in {1} : j < i}) = 1 - 1
    BY <2>1
  <2>3. (CHOOSE i \in {1} : Edg!Cardinality({j \in {1} : j < i}) = 1 - 1) \in {1}
    BY <2>2, Zenon
  <2> QED BY <2>3, <1>5
<1> QED BY <1>2, <1>4, <1>6

\* What one recovery does as it settles: one answer, or one request for Express.
LEMMA SettlesOne ==
    ASSUME NEW before, NEW c, Edg!Settle(before, <<c>>),
           answers \in Seq(Answer), dispatched \in Seq(Message),
           before = <<>> \/ DOMAIN before = {1}
    PROVE  /\ recoveries' = <<c>>
           /\ before = <<>> \/ before[1].state = "collecting" =>
                 /\ c.state \in {"400", "431"} => /\ answers' = Append(answers, c.state)
                                                  /\ dispatched' = dispatched /\ socket' = "ended"
                 /\ c.state = "dispatched" =>
                       /\ answers' = answers /\ socket' = socket
                       /\ dispatched' = Append(dispatched, Edg!buildIncomingMessage(Edg!HeadOf(c.buffer)))
           /\ c.state \notin {"400", "431", "dispatched"}
                 \/ ~(before = <<>> \/ before[1].state = "collecting") =>
                 answers' = answers /\ dispatched' = dispatched /\ socket' = socket
<1> DEFINE after == <<c>>
           Settled(states) == {i \in DOMAIN after :
                                  /\ after[i].state \in states
                                  /\ i \in DOMAIN before => before[i].state = "collecting"}
           refused == Edg!InOrder(Settled({"400", "431"}))
           passed == Edg!InOrder(Settled({"dispatched"}))
           refusals == [n \in DOMAIN refused |-> after[refused[n]].state]
           passes == [n \in DOMAIN passed |-> Edg!buildIncomingMessage(Edg!HeadOf(after[passed[n]].buffer))]
<1>1. /\ recoveries' = after /\ answers' = answers \o refusals /\ dispatched' = dispatched \o passes
      /\ socket' = IF refused = <<>> THEN socket ELSE "ended"
  BY DEF Edg!Settle
<1>2. DOMAIN after = {1} /\ after[1] = c
  OBVIOUS
<1>3. (1 \in DOMAIN before => before[1].state = "collecting")
          <=> (before = <<>> \/ before[1].state = "collecting")
  <2>1. CASE before = <<>>
    BY <2>1
  <2>2. CASE DOMAIN before = {1}
    <3>1. before # <<>> /\ 1 \in DOMAIN before
      BY <2>2, Zenon, EmptyDomain
    <3> QED BY <3>1
  <2> QED BY <2>1, <2>2
<1>4. \A states : Settled(states) =
          IF c.state \in states /\ (before = <<>> \/ before[1].state = "collecting") THEN {1} ELSE {}
  BY <1>2, <1>3
<1> HIDE DEF Settled, after
<1>5. ASSUME Settled({"400", "431"}) = {}
      PROVE  answers' = answers /\ socket' = socket
  <2>1. refused = <<>>
    BY <1>5, InOrderOne
  <2>2. refusals = <<>>
    BY <2>1
  <2>3. answers \o <<>> = answers
    OBVIOUS
  <2> QED BY <1>1, <2>1, <2>2, <2>3
<1>6. ASSUME Settled({"400", "431"}) = {1}
      PROVE  answers' = Append(answers, c.state) /\ socket' = "ended"
  <2>1. DOMAIN refused = 1..1 /\ refused[1] = 1 /\ refused # <<>>
    BY <1>6, InOrderOne
  <2>2. refusals = <<c.state>>
    BY <2>1, <1>2
  <2>3. answers \o <<c.state>> = Append(answers, c.state)
    BY AppendIs
  <2> QED BY <1>1, <2>1, <2>2, <2>3
<1>7. ASSUME Settled({"dispatched"}) = {}
      PROVE  dispatched' = dispatched
  <2>1. passed = <<>>
    BY <1>7, InOrderOne
  <2>2. passes = <<>>
    BY <2>1
  <2>3. dispatched \o <<>> = dispatched
    OBVIOUS
  <2> QED BY <1>1, <2>2, <2>3
<1>8. ASSUME Settled({"dispatched"}) = {1}
      PROVE  dispatched' = Append(dispatched, Edg!buildIncomingMessage(Edg!HeadOf(c.buffer)))
  <2>1. DOMAIN passed = 1..1 /\ passed[1] = 1
    BY <1>8, InOrderOne
  <2>2. passes = <<Edg!buildIncomingMessage(Edg!HeadOf(c.buffer))>>
    BY <2>1, <1>2
  <2>3. PICK e : e = Edg!buildIncomingMessage(Edg!HeadOf(c.buffer))
    OBVIOUS
  <2>4. dispatched \o <<e>> = Append(dispatched, e)
    BY AppendIs
  <2> QED BY <1>1, <2>2, <2>3, <2>4
<1>9. recoveries' = <<c>>
  BY <1>1 DEF after
<1> HIDE DEF refused, passed, refusals, passes
<1> QED BY <1>4, <1>5, <1>6, <1>7, <1>8, <1>9

LEMMA TypedLens ==
    ASSUME EdgeTyped
    PROVE  Len(answers) \in Nat /\ Len(dispatched) \in Nat /\ requests \in Nat /\ requests >= 1
BY DEF EdgeTyped

LEMMA EdgeStutter == ASSUME EdgeInv, UNCHANGED Edg!vars PROVE EdgeInv'
<1>1. EdgeTyped'
  BY DEF EdgeInv, EdgeTyped, Edg!vars
<1>2. Counted' /\ TakenOver'
  BY DEF EdgeInv, Counted, TakenOver, Edg!vars
<1>3. Reading' /\ Recovering' /\ Given'
  BY DEF EdgeInv, Reading, Recovering, Given, Edg!vars
<1> QED BY <1>1, <1>2, <1>3 DEF EdgeInv

LEMMA OneOf ==
    ASSUME NEW S, NEW s \in Seq(S), Len(s) = 1
    PROVE  s[1] \in S /\ s = <<s[1]>>
<1>1. s[1] \in S
  OBVIOUS
<1>2. PICK e \in S : e = s[1]
  BY <1>1
<1>3. PICK t \in Seq(S) : t = <<e>>
  BY <1>2
<1>4. Len(t) = 1 /\ t[1] = e
  BY <1>3
<1>5. s = t
  BY <1>2, <1>3, <1>4
<1> QED BY <1>1, <1>2, <1>3, <1>5

LEMMA NoTerminator == Edg!TerminatorAt(<<>>) = {}
<1>1. Len(<<>>) = 0 /\ 1 .. 0 - 1 = {}
  OBVIOUS
<1> QED BY <1>1 DEF Edg!TerminatorAt

\* A request that has not begun to arrive.
LEMMA Unread ==
    ASSUME Edg!ConstantsAssumption, NEW r \in Edg!Sendable
    PROVE  Edg!Sent(r) \o Edg!Body(r) \in Seq(Symbol) /\ <<>> \in Seq(Symbol)
           /\ <<>> \o (Edg!Sent(r) \o Edg!Body(r)) = Whole(r)
<1>1. PICK w \in Seq(Symbol) : w = Edg!Sent(r) \o Edg!Body(r) /\ w = Whole(r)
  BY SentIs DEF Whole
<1>2. <<>> \o w = w /\ <<>> \in Seq(Symbol)
  OBVIOUS
<1> QED BY <1>1, <1>2

LEMMA EdgeInit == ASSUME Edg!ConstantsAssumption, Edg!Init PROVE EdgeInv
<1>1. request \in Edg!Sendable /\ unsent = Edg!Sent(request) \o Edg!Body(request)
  BY DEF Edg!Init
<1>2. /\ unsent \in Seq(Symbol) /\ received \in Seq(Symbol)
      /\ unsent = Whole(request) /\ received \o unsent = Whole(request)
  BY <1>1, Unread DEF Edg!Init, Whole
<1>3. EdgeTyped
  <2>1. <<>> \in Seq(Recovery) /\ <<>> \in Seq(Message) /\ <<>> \in Seq(Answer)
    OBVIOUS
  <2>2. /\ requests = 1 /\ owned = FALSE /\ socket = "open"
        /\ recoveries = <<>> /\ dispatched = <<>> /\ answers = <<>>
    BY DEF Edg!Init
  <2>3. requests \in Nat \ {0} /\ socket \in {"open", "ended", "left"}
    BY <2>2
  <2>5. owned \in BOOLEAN
    BY <2>2, Zenon
  <2>4. recoveries \in Seq(Recovery) /\ dispatched \in Seq(Message) /\ answers \in Seq(Answer)
    BY <2>1, <2>2
  <2> QED BY <1>1, <1>2, <2>3, <2>4, <2>5, Zenon DEF EdgeTyped
<1>4. Len(answers) = 0 /\ Len(dispatched) = 0
  BY DEF Edg!Init
<1>5. Counted
  BY <1>4 DEF Edg!Init, Counted
<1>6. TakenOver
  BY DEF Edg!Init, TakenOver
<1>7. Reading
  BY <1>2, <1>4, NoTerminator DEF Edg!Init, Reading
<1>8. Recovering /\ Given
  BY DEF Edg!Init, Recovering, Given
<1> QED BY <1>3, <1>5, <1>6, <1>7, <1>8 DEF EdgeInv

\* A recovery that has just read a chunk, whether it settles by it or not.
LEMMA RecoveryReads ==
    ASSUME Edg!ConstantsAssumption, EdgeInv, NEW before, NEW h \in Seq(Symbol),
           before = <<>> \/ (DOMAIN before = {1} /\ before[1].state = "collecting"),
           Edg!Settle(before, <<Edg!Collected(h)>>),
           socket = "open", request.method \in Edg!Unknown, dispatched = <<>>,
           Len(answers) = requests - 1, owned' = TRUE,
           unsent' \in Seq(Symbol), h \o unsent' = Whole(request),
           UNCHANGED <<requests, request, received>>
    PROVE  EdgeInv'
<1>1. EdgeTyped /\ request \in Edg!Sendable /\ answers \in Seq(Answer) /\ dispatched \in Seq(Message)
  BY DEF EdgeInv, EdgeTyped
<1>2. PICK c : c = Edg!Collected(h)
  OBVIOUS
<1>3. c = [buffer |-> h, state |-> Edg!attempt(h)]
  BY <1>2 DEF Edg!Collected
<1>4. c.buffer = h /\ c.state = Edg!attempt(h)
  BY <1>3
<1>5. /\ c.state \in {"collecting", "dispatched", "400", "431"}
      /\ c.state = "dispatched" => Edg!TerminatorAt(h) # {}
  BY <1>4 DEF Edg!attempt
<1>6. /\ recoveries' = <<c>>
      /\ c.state \in {"400", "431"} => /\ answers' = Append(answers, c.state)
                                       /\ dispatched' = dispatched /\ socket' = "ended"
      /\ c.state = "dispatched" =>
            /\ answers' = answers /\ socket' = socket
            /\ dispatched' = Append(dispatched, Edg!buildIncomingMessage(Edg!HeadOf(c.buffer)))
      /\ c.state = "collecting" =>
            answers' = answers /\ dispatched' = dispatched /\ socket' = socket
  <2>1. Edg!Settle(before, <<c>>)
    BY <1>2
  <2>2. before = <<>> \/ DOMAIN before = {1}
    OBVIOUS
  <2> QED BY <2>1, <2>2, <1>1, SettlesOne
<1>7. c.state = "dispatched" =>
          /\ dispatched' = <<Edg!incomingMessage(request.method, request.headers)>>
          /\ Edg!incomingMessage(request.method, request.headers) \in Message
  <2>1. CASE c.state = "dispatched"
    <3>1. Edg!buildIncomingMessage(Edg!HeadOf(h)) = Edg!incomingMessage(request.method, request.headers)
      BY <2>1, <1>1, <1>5, HeadEnds
    <3> QED BY <2>1, <3>1, <1>1, <1>4, <1>6, RequestGives
  <2> QED BY <2>1
<1>8. c \in Recovery
  <2>1. h \in Seq(Symbol) /\ Edg!attempt(h) \in {"collecting", "dispatched", "400", "431", "closed"}
    BY <1>4, <1>5
  <2> QED BY <2>1, <1>3 DEF Recovery
<1>9. <<c>> \in Seq(Recovery) /\ Len(<<c>>) = 1 /\ <<c>>[1] = c
  BY <1>8
<1>10. recoveries' \in Seq(Recovery) /\ Len(recoveries') = 1 /\ recoveries'[1] = c
  BY <1>6, <1>9
<1>11. PICK a \in Nat : a = Len(answers) /\ a = requests - 1 /\ requests \in Nat /\ requests >= 1
  BY <1>1, TypedLens
<1>12. CASE c.state \in {"400", "431"}
  <2>1. answers' \in Seq(Answer) /\ Len(answers') = a + 1 /\ dispatched' = <<>> /\ socket' = "ended"
    <3>1. PICK s \in Answer : s = c.state
      BY <1>12, Typings
    <3>2. Append(answers, s) \in Seq(Answer) /\ Len(Append(answers, s)) = Len(answers) + 1
      BY <1>1, <3>1
    <3> QED BY <3>1, <3>2, <1>6, <1>11, <1>12
  <2>2. EdgeTyped'
    BY <1>1, <1>10, <2>1 DEF EdgeTyped
  <2>3. Counted'
    BY <2>1, <1>11 DEF Counted
  <2>4. TakenOver'
    BY <2>1, <1>10 DEF TakenOver
  <2>5. Reading' /\ Recovering' /\ Given'
    BY <2>1 DEF Reading, Recovering, Given
  <2> QED BY <2>2, <2>3, <2>4, <2>5 DEF EdgeInv
<1>13. CASE c.state = "dispatched"
  <2>1. /\ answers' = answers /\ socket' = "open" /\ dispatched' \in Seq(Message) /\ Len(dispatched') = 1
        /\ dispatched'[1] = Edg!incomingMessage(request.method, request.headers)
    BY <1>6, <1>7, <1>13, SMTT(30)
  <2>2. EdgeTyped'
    BY <1>1, <1>10, <2>1 DEF EdgeTyped
  <2>3. Counted'
    BY <2>1, <1>11 DEF Counted
  <2>4. TakenOver'
    BY <2>1, <1>10, <1>11 DEF TakenOver
  <2>5. Reading' /\ Given'
    BY <2>1 DEF Reading, Given
  <2>6. Recovering'
    BY <2>1, <1>10, <1>13 DEF Recovering
  <2> QED BY <2>2, <2>3, <2>4, <2>5, <2>6 DEF EdgeInv
<1>14. CASE c.state = "collecting"
  <2>1. answers' = answers /\ socket' = "open" /\ dispatched' = <<>>
    BY <1>6, <1>14
  <2>2. EdgeTyped'
    BY <1>1, <1>10, <2>1 DEF EdgeTyped
  <2>3. Counted'
    BY <2>1, <1>11 DEF Counted
  <2>4. TakenOver'
    BY <2>1, <1>10, <1>11 DEF TakenOver
  <2>5. Reading' /\ Given'
    BY <2>1 DEF Reading, Given
  <2>6. Recovering'
    <3>1. recoveries'[1].buffer \o unsent' = Whole(request)' /\ request'.method \in Edg!Unknown
      BY <1>4, <1>10 DEF Whole, Edg!Sent, Edg!Body
    <3> QED BY <2>1, <1>10, <1>14, <3>1 DEF Recovering
  <2> QED BY <2>2, <2>3, <2>4, <2>5, <2>6 DEF EdgeInv
<1> QED BY <1>5, <1>12, <1>13, <1>14

LEMMA InvalidMethodSafe ==
    ASSUME Edg!ConstantsAssumption, EdgeInv, NEW n \in 1..Len(unsent), Edg!InvalidMethod(n)
    PROVE  EdgeInv'
<1>1. /\ socket = "open" /\ unsent' = SubSeq(unsent, n + 1, Len(unsent))
      /\ request.method \in Edg!Unknown /\ owned' = TRUE
      /\ Edg!Settle(recoveries, Edg!RecoveredFrom(SubSeq(unsent, 1, n)))
      /\ UNCHANGED <<requests, request, received>>
  BY DEF Edg!InvalidMethod, Edg!Arriving
<1>2. /\ EdgeTyped /\ unsent \in Seq(Symbol) /\ owned \in BOOLEAN /\ recoveries \in Seq(Recovery)
      /\ request \in Edg!Sendable
  BY DEF EdgeInv, EdgeTyped
<1>3. PICK chunk : chunk = SubSeq(unsent, 1, n)
  OBVIOUS
<1>4. chunk \in Seq(Symbol) /\ unsent' \in Seq(Symbol) /\ chunk \o unsent' = unsent
  BY <1>1, <1>2, <1>3, Chunked
<1>5. CASE ~owned
  <2>1. recoveries = <<>> /\ unsent = Whole(request) /\ Len(answers) = requests - 1 /\ dispatched = <<>>
    BY <1>1, <1>5, NoTerminator DEF EdgeInv, TakenOver, Reading
  <2>2. Edg!RecoveredFrom(chunk) = <<Edg!Collected(chunk)>>
    <3>1. Edg!onData(chunk) = <<>>
      BY <2>1 DEF Edg!onData
    <3>2. Edg!RecoveredFrom(chunk) = Append(Edg!onData(chunk), Edg!Collected(chunk))
      BY <1>5 DEF Edg!RecoveredFrom
    <3> QED BY <3>1, <3>2
  <2> QED BY <1>1, <1>3, <1>4, <2>1, <2>2, RecoveryReads
<1>6. CASE owned
  <2>1. Len(recoveries) = 1 /\ Len(answers) = requests - 1
    BY <1>1, <1>6 DEF EdgeInv, TakenOver
  <2>2. PICK r \in Recovery : recoveries = <<r>>
    <3>1. recoveries[1] \in Recovery /\ recoveries = <<recoveries[1]>>
      BY <1>2, <2>1, OneOf
    <3> QED BY <3>1
  <2>3. DOMAIN recoveries = {1} /\ recoveries[1] = r /\ r.buffer \in Seq(Symbol)
    BY <2>2 DEF Recovery
  <2>4. Edg!RecoveredFrom(chunk) = Edg!onData(chunk)
    BY <1>6 DEF Edg!RecoveredFrom
  <2>5. Edg!onData(chunk) = <<IF r.state = "collecting" THEN Edg!Collected(r.buffer \o chunk) ELSE r>>
    BY <2>2, <2>3 DEF Edg!onData
  <2>6. CASE r.state = "collecting"
    <3>1. dispatched = <<>> /\ r.buffer \o unsent = Whole(request)
      BY <1>1, <1>6, <2>3, <2>6 DEF EdgeInv, Recovering
    <3>2. /\ r.buffer \o chunk \in Seq(Symbol)
          /\ (r.buffer \o chunk) \o unsent' = r.buffer \o unsent
      <4>1. PICK b \in Seq(Symbol) : b = r.buffer
        BY <2>3
      <4>2. /\ b \o SubSeq(unsent, 1, n) \in Seq(Symbol)
            /\ (b \o SubSeq(unsent, 1, n)) \o SubSeq(unsent, n + 1, Len(unsent)) = b \o unsent
        BY <1>2, <4>1, Chunked, ZenonT(30)
      <4> QED BY <1>1, <1>3, <4>1, <4>2
    <3>3. Edg!Settle(recoveries, <<Edg!Collected(r.buffer \o chunk)>>)
      BY <1>1, <1>3, <2>4, <2>5, <2>6
    <3> QED BY <1>1, <1>4, <2>1, <2>3, <2>6, <3>1, <3>2, <3>3, RecoveryReads
  <2>7. CASE r.state # "collecting"
    <3>1. Edg!Settle(recoveries, <<r>>)
      BY <1>1, <1>3, <2>4, <2>5, <2>7
    <3>2. ~(recoveries = <<>> \/ recoveries[1].state = "collecting")
      BY <2>2, <2>3, <2>7
    <3>3. recoveries' = <<r>> /\ answers' = answers /\ dispatched' = dispatched /\ socket' = socket
      <4>1. answers \in Seq(Answer) /\ dispatched \in Seq(Message)
        BY <1>2 DEF EdgeTyped
      <4> QED BY <3>1, <3>2, <4>1, <2>3, SettlesOne
    <3>4. recoveries' = recoveries /\ owned' = owned
      BY <3>3, <2>2, <1>1, <1>6
    <3>5. EdgeTyped'
      BY <1>1, <1>2, <1>4, <3>3, <3>4 DEF EdgeTyped
    <3>6. Counted' /\ TakenOver'
      BY <1>1, <3>3, <3>4 DEF EdgeInv, Counted, TakenOver
    <3>7. Reading' /\ Given'
      BY <1>1, <3>3, <3>4, <1>6 DEF EdgeInv, Reading, Given
    <3>8. Recovering'
      BY <1>1, <1>6, <2>3, <2>7, <3>3, <3>4 DEF EdgeInv, Recovering
    <3> QED BY <3>5, <3>6, <3>7, <3>8 DEF EdgeInv
  <2> QED BY <2>6, <2>7
<1> QED BY <1>2, <1>5, <1>6

LEMMA LenZero ==
    ASSUME NEW S, NEW s \in Seq(S), Len(s) = 0
    PROVE  s = <<>>
OBVIOUS

\* What Node refuses by itself: the first thing on the connection is answered,
\* a later one is not.
LEMMA NodeRefuses ==
    ASSUME EdgeInv, NEW code, Edg!writeNodeDefaultClientError(code),
           socket = "open", request.method \notin Edg!Unknown, ~owned, Edg!TerminatorAt(received) = {},
           received' \in Seq(Symbol), unsent' \in Seq(Symbol), owned' = owned, recoveries' = recoveries,
           UNCHANGED <<requests, request, dispatched>>
    PROVE  EdgeInv'
<1>1. EdgeTyped /\ answers \in Seq(Answer)
  BY DEF EdgeInv, EdgeTyped
<1>2. Len(answers) = requests - 1 /\ dispatched = <<>>
  BY DEF EdgeInv, Reading
<1>3. PICK a \in Nat : a = Len(answers) /\ a = requests - 1 /\ requests \in Nat /\ requests >= 1
  BY <1>1, <1>2, TypedLens
<1>4. /\ answers' \in Seq(Answer) /\ socket' = "ended"
      /\ IF a = 0 THEN Len(answers') = 1 ELSE Len(answers') = a
  <2>1. CASE answers = <<>>
    <3>1. PICK s \in Answer : answers' = Append(answers, s)
      BY <2>1, Typings DEF Edg!writeNodeDefaultClientError
    <3> QED BY <2>1, <3>1, <1>1, <1>3 DEF Edg!writeNodeDefaultClientError
  <2>2. CASE answers # <<>>
    <3>1. a # 0
      BY <2>2, <1>1, <1>3, LenZero
    <3> QED BY <2>2, <3>1, <1>1, <1>3 DEF Edg!writeNodeDefaultClientError
  <2> QED BY <2>1, <2>2
<1>5. EdgeTyped'
  BY <1>1, <1>4 DEF EdgeTyped
<1>6. Counted'
  <2>1. Len(dispatched') = 0 /\ requests' = requests /\ request' = request
    BY <1>2
  <2>2. PICK b \in Nat : b = Len(answers') /\ a <= b /\ b <= a + 1 /\ (b # a + 1 => requests > 1)
    <3>1. CASE a = 0
      BY <3>1, <1>3, <1>4
    <3>2. CASE a # 0
      BY <3>2, <1>3, <1>4
    <3> QED BY <3>1, <3>2
  <2> QED BY <1>3, <2>1, <2>2 DEF Counted
<1>7. TakenOver'
  BY <1>4 DEF EdgeInv, TakenOver
<1>8. Reading' /\ Recovering' /\ Given'
  BY <1>4 DEF Reading, Recovering, Given
<1> QED BY <1>5, <1>6, <1>7, <1>8 DEF EdgeInv

LEMMA KnownMethodSafe ==
    ASSUME Edg!ConstantsAssumption, EdgeInv, NEW n \in 1..Len(unsent), Edg!KnownMethod(n)
    PROVE  EdgeInv'
<1>0. PICK head : head = Edg!ReadSoFar(n)
  OBVIOUS
<1>1. /\ socket = "open" /\ unsent' = SubSeq(unsent, n + 1, Len(unsent))
      /\ request.method \notin Edg!Unknown /\ ~owned /\ received' = head
      /\ UNCHANGED <<requests, request, recoveries>>
  BY <1>0 DEF Edg!KnownMethod, Edg!Arriving
<1>2. /\ EdgeTyped /\ unsent \in Seq(Symbol) /\ received \in Seq(Symbol) /\ owned \in BOOLEAN
      /\ request \in Edg!Sendable /\ answers \in Seq(Answer) /\ dispatched \in Seq(Message)
  BY DEF EdgeInv, EdgeTyped
<1>3. received \o unsent = Whole(request)
  BY <1>1 DEF EdgeInv, Reading
<1>4. /\ head \in Seq(Symbol) /\ unsent' \in Seq(Symbol) /\ head \o unsent' = Whole(request)
      /\ Len(head) = Len(received) + n
  <2>1. /\ received \o SubSeq(unsent, 1, n) \in Seq(Symbol)
        /\ SubSeq(unsent, n + 1, Len(unsent)) \in Seq(Symbol)
        /\ (received \o SubSeq(unsent, 1, n)) \o SubSeq(unsent, n + 1, Len(unsent)) = received \o unsent
        /\ Len(received \o SubSeq(unsent, 1, n)) = Len(received) + n
    BY <1>2, Chunked
  <2>2. head = received \o SubSeq(unsent, 1, n)
    BY <1>0 DEF Edg!ReadSoFar
  <2> QED BY <1>1, <1>3, <2>1, <2>2
<1>5. recoveries = <<>>
  BY <1>1 DEF EdgeInv, TakenOver
<1>6. /\ Edg!TerminatorAt(head) # {} <=> Len(head) >= Len(Edg!Sent(request))
      /\ Edg!TerminatorAt(head) # {} =>
            Edg!buildIncomingMessage(Edg!HeadOf(head)) = Edg!incomingMessage(request.method, request.headers)
      /\ Edg!TerminatorAt(received) # {} <=> Len(received) >= Len(Edg!Sent(request))
  BY <1>2, <1>3, <1>4, HeadEnds
<1>7. Len(Edg!Sent(request)) \in Nat /\ Len(Edg!Sent(request)) >= 4 /\ Len(head) \in Nat /\ Len(received) \in Nat
  <2>1. request.headers \in Seq(Edg!HeaderLine) /\ Len(Edg!Sent(request)) = Len(request.headers) + 4
    BY <1>2, SentIs
  <2> QED BY <2>1, <1>2, <1>4
\* Once its head is whole, a request is past what refuses it.
<1>8. Edg!TerminatorAt(received) # {} =>
          /\ Edg!TerminatorAt(head) # {} /\ request.valid /\ Len(Edg!Sent(request)) <= maxHeaderSize
          /\ request.method # "CONNECT"
  BY <1>1, <1>4, <1>6, <1>7 DEF EdgeInv, Reading
<1>9. CASE Edg!Refused(head) /\ Edg!writeNodeDefaultClientError("HPE_INVALID_HEADER_TOKEN")
           /\ UNCHANGED <<owned, dispatched>>
  <2>1. Edg!TerminatorAt(received) = {}
    BY <1>8, <1>9 DEF Edg!Refused
  <2> QED BY <1>1, <1>4, <1>9, <2>1, NodeRefuses
<1>10. CASE ~Edg!Refused(head) /\ Edg!HeadSize(head) > maxHeaderSize
            /\ Edg!writeNodeDefaultClientError("HPE_HEADER_OVERFLOW") /\ UNCHANGED <<owned, dispatched>>
  <2>1. Edg!TerminatorAt(received) = {}
    <3>1. maxHeaderSize \in Nat
      BY DEF Edg!ConstantsAssumption
    <3> QED BY <3>1, <1>7, <1>8, <1>10 DEF Edg!HeadSize
  <2> QED BY <1>1, <1>4, <1>10, <2>1, NodeRefuses
<1>11. CASE /\ ~Edg!Refused(head) /\ Edg!HeadSize(head) <= maxHeaderSize
            /\ owned' = (request.method = "CONNECT" /\ Edg!TerminatorAt(head) # {})
            /\ dispatched' = IF Edg!TerminatorAt(head) # {} /\ Edg!TerminatorAt(received) = {}
                             THEN Append(dispatched, Edg!buildIncomingMessage(Edg!HeadOf(head))) ELSE dispatched
            /\ UNCHANGED <<answers, socket>>
  <2>1. PICK a \in Nat : a = Len(answers) /\ requests \in Nat /\ requests >= 1
    BY <1>2, TypedLens
  <2>2. owned' \in BOOLEAN
    BY <1>11
  <2>3. CASE Edg!TerminatorAt(head) = {}
    <3>1. Edg!TerminatorAt(received) = {} /\ dispatched' = dispatched /\ owned' = FALSE
      BY <2>3, <1>8, <1>11
    <3>2. a = requests - 1 /\ dispatched = <<>>
      BY <3>1, <1>1, <2>1 DEF EdgeInv, Reading
    <3>3. EdgeTyped'
      BY <1>1, <1>2, <1>4, <1>11, <2>2, <3>1 DEF EdgeTyped
    <3>4. Counted' /\ TakenOver' /\ Recovering' /\ Given'
      <4>1. dispatched' = <<>> /\ Len(dispatched') = 0 /\ ~owned'
        BY <3>1, <3>2
      <4>2. answers' = answers /\ socket' = "open" /\ recoveries' = <<>>
        BY <1>1, <1>5, <1>11
      <4>3. Counted'
        <5>1. requests - 1 <= a /\ a + 0 <= requests /\ Len(answers') = a /\ requests' = requests
          <6>1. requests - 1 <= a /\ a + 0 <= requests
            BY <2>1, <3>2
          <6> QED BY <6>1, <1>1, <2>1, <4>2
        <5> QED BY <5>1, <4>1, <4>2 DEF Counted
      <4>4. TakenOver' /\ Recovering' /\ Given'
        BY <4>1, <4>2 DEF TakenOver, Recovering, Given
      <4> QED BY <4>3, <4>4
    <3>5. Reading'
      <4>1. received' \o unsent' = Whole(request)'
        BY <1>1, <1>4 DEF Whole, Edg!Sent, Edg!Body
      <4>2. Edg!TerminatorAt(received)' = {}
        BY <2>3, <1>1 DEF Edg!TerminatorAt
      <4> QED BY <1>1, <1>11, <2>1, <3>1, <3>2, <4>1, <4>2 DEF Reading
    <3> QED BY <3>3, <3>4, <3>5 DEF EdgeInv
  <2>4. CASE Edg!TerminatorAt(head) # {}
    <3>1. request.valid /\ Len(Edg!Sent(request)) <= maxHeaderSize
      BY <2>4, <1>6, <1>7, <1>11 DEF Edg!Refused, Edg!HeadSize
    <3>2. PICK m \in Message : m = Edg!incomingMessage(request.method, request.headers)
      BY <1>2, RequestGives
    <3>3. /\ dispatched' \in Seq(Message) /\ a + Len(dispatched') = requests
          /\ dispatched' # <<>> => dispatched'[1] = m
          /\ Edg!TerminatorAt(received) = {} => a = requests - 1
      <4>1. CASE Edg!TerminatorAt(received) = {}
        <5>1. a = requests - 1 /\ dispatched = <<>> /\ dispatched' = <<m>>
          BY <4>1, <2>1, <2>4, <1>1, <1>6, <1>11, <3>2 DEF EdgeInv, Reading
        <5>2. <<m>> \in Seq(Message) /\ Len(<<m>>) = 1 /\ <<m>>[1] = m
          OBVIOUS
        <5> QED BY <5>1, <5>2, <2>1
      <4>2. CASE Edg!TerminatorAt(received) # {}
        <5>1. dispatched' = dispatched /\ a + Len(dispatched) = requests
          BY <4>2, <2>1, <1>1, <1>11 DEF EdgeInv, Reading
        <5> QED BY <5>1, <4>2, <1>1, <1>2, <3>2 DEF EdgeInv, Given
      <4> QED BY <4>1, <4>2
    <3>4. EdgeTyped'
      BY <1>1, <1>2, <1>4, <1>11, <2>2, <3>3 DEF EdgeTyped
    <3>5. Counted'
      BY <1>1, <1>11, <2>1, <3>3 DEF EdgeInv, Counted
    <3>6. Given'
      BY <1>1, <3>2, <3>3 DEF Given
    <3>7. CASE request.method = "CONNECT"
      <4>1. Edg!TerminatorAt(received) = {} /\ owned' = TRUE
        BY <3>7, <1>8, <1>11, <2>4
      <4>4. a = requests - 1 /\ Len(dispatched') = 1
        <5>1. PICK k \in Nat : k = Len(dispatched')
          BY <3>3
        <5>2. a = requests - 1 /\ a + k = requests
          BY <4>1, <3>3, <5>1
        <5>3. k = 1
          BY <5>1, <5>2, <2>1
        <5> QED BY <5>1, <5>2, <5>3
      <4>2. TakenOver'
        BY <1>1, <1>5, <1>11, <2>1, <4>1, <4>4, <3>7 DEF TakenOver
      <4>3. Reading' /\ Recovering'
        BY <1>1, <4>1, <4>4 DEF Reading, Recovering
      <4> QED BY <4>2, <4>3, <3>4, <3>5, <3>6 DEF EdgeInv
    <3>8. CASE request.method # "CONNECT"
      <4>1. owned' = FALSE
        BY <3>8, <1>11
      <4>2. TakenOver' /\ Recovering'
        BY <4>1, <1>1, <1>5 DEF TakenOver, Recovering
      <4>3. Reading'
        <5>1. /\ received' \o unsent' = Whole(request)' /\ Edg!Sent(request)' = Edg!Sent(request)
              /\ Edg!TerminatorAt(received)' # {}
          BY <1>1, <1>4, <2>4 DEF Whole, Edg!Sent, Edg!Body, Edg!TerminatorAt
        <5> QED BY <5>1, <1>1, <1>11, <2>1, <3>1, <3>3, <3>8 DEF Reading
      <4> QED BY <4>2, <4>3, <3>4, <3>5, <3>6 DEF EdgeInv
    <3> QED BY <3>7, <3>8 DEF EdgeInv
  <2> QED BY <2>3, <2>4
<1> QED BY <1>0, <1>9, <1>10, <1>11 DEF Edg!KnownMethod

LEMMA AfterConnectSafe ==
    ASSUME EdgeInv, NEW n \in 1..Len(unsent), Edg!AfterConnect(n)
    PROVE  EdgeInv'
<1>1. /\ unsent' = SubSeq(unsent, n + 1, Len(unsent)) /\ request.method = "CONNECT" /\ owned
      /\ UNCHANGED <<requests, request, received, owned, recoveries, dispatched, answers, socket>>
  BY DEF Edg!AfterConnect, Edg!Arriving
<1>2. unsent' \in Seq(Symbol)
  <2>1. unsent \in Seq(Symbol)
    BY DEF EdgeInv, EdgeTyped
  <2> QED BY <1>1, <2>1, Chunked
<1>3. "CONNECT" \notin Edg!Unknown
  BY DEF Edg!Unknown, Edg!Accepted, Edg!Rejected
<1>4. EdgeTyped'
  BY <1>1, <1>2 DEF EdgeInv, EdgeTyped
<1>5. Counted' /\ TakenOver' /\ Reading' /\ Given'
  BY <1>1 DEF EdgeInv, Counted, TakenOver, Reading, Given
<1>6. Recovering'
  BY <1>1, <1>3 DEF EdgeInv, Recovering
<1> QED BY <1>4, <1>5, <1>6 DEF EdgeInv

LEMMA RespondSafe == ASSUME EdgeInv, Edg!Respond PROVE EdgeInv'
<1>1. /\ dispatched # <<>> /\ dispatched' = Tail(dispatched)
      /\ answers' = IF socket = "open" THEN Append(answers, Edg!Handler(Edg!restoreCatchAllRoutes, dispatched[1].method))
                    ELSE answers
      /\ socket' = IF owned /\ socket = "open" THEN "ended" ELSE socket
      /\ UNCHANGED <<requests, request, unsent, received, owned, recoveries>>
  BY DEF Edg!Respond
<1>2. EdgeTyped /\ answers \in Seq(Answer) /\ dispatched \in Seq(Message) /\ owned \in BOOLEAN
  BY DEF EdgeInv, EdgeTyped
<1>3. /\ dispatched' \in Seq(Message) /\ Len(dispatched') = Len(dispatched) - 1
      /\ dispatched[1] \in Message /\ Len(dispatched) >= 1
  BY <1>1, <1>2
<1>4. PICK a \in Nat, d \in Nat : /\ a = Len(answers) /\ d = Len(dispatched)
                                  /\ requests \in Nat /\ requests >= 1
  BY <1>2, TypedLens
<1>5. PICK e \in Answer : e = Edg!Handler(Edg!restoreCatchAllRoutes, dispatched[1].method)
  BY <1>3, Typings
<1>6. requests - 1 <= a /\ a + d <= requests /\ d >= 1
  BY <1>3, <1>4 DEF EdgeInv, Counted
<1>7. a = requests - 1 /\ d = 1 /\ dispatched' = <<>>
  <2>1. a = requests - 1 /\ d = 1
    BY <1>4, <1>6
  <2> QED BY <2>1, <1>3, <1>4
<1>8. Given'
  BY <1>7 DEF Given
<1>9. CASE socket = "open"
  <2>1. answers' = Append(answers, e)
    BY <1>1, <1>5, <1>9
  <2>2. answers' \in Seq(Answer) /\ Len(answers') = a + 1
    BY <2>1, <1>2, <1>4
  <2>3. socket' \in {"open", "ended"} /\ (owned => socket' = "ended") /\ (~owned => socket' = "open")
    BY <1>1, <1>9
  <2>4. EdgeTyped'
    BY <1>1, <1>2, <1>3, <2>2, <2>3 DEF EdgeTyped
  <2>5. Counted'
    <3>1. Len(dispatched') = 0
      BY <1>7
    <3> QED BY <1>1, <1>4, <1>7, <2>2, <3>1 DEF Counted
  <2>6. TakenOver'
    BY <1>1, <2>3 DEF EdgeInv, TakenOver
  <2>7. Recovering'
    BY <1>1, <2>3 DEF Recovering
  <2>8. Reading'
    <3>1. CASE owned
      BY <3>1, <1>1 DEF Reading
    <3>2. CASE ~owned
      <4>1. Edg!TerminatorAt(received) # {}
        BY <3>2, <1>1, <1>9 DEF EdgeInv, Reading
      <4>2. Len(answers') + Len(dispatched') = requests
        BY <1>4, <1>7, <2>2
      <4>3. /\ received' = received /\ unsent' = unsent /\ request' = request /\ requests' = requests
            /\ Whole(request)' = Whole(request) /\ Edg!TerminatorAt(received)' = Edg!TerminatorAt(received)
            /\ Edg!Sent(request)' = Edg!Sent(request)
        BY <1>1 DEF Whole, Edg!Sent, Edg!Body, Edg!TerminatorAt
      <4> QED BY <3>2, <4>1, <4>2, <4>3, <1>9 DEF EdgeInv, Reading
    <3> QED BY <3>1, <3>2
  <2> QED BY <1>8, <2>4, <2>5, <2>6, <2>7, <2>8 DEF EdgeInv
<1>10. CASE socket # "open"
  <2>1. answers' = answers /\ socket' = socket /\ socket' # "open"
    BY <1>1, <1>10
  <2>2. EdgeTyped'
    BY <1>1, <1>2, <1>3, <2>1 DEF EdgeTyped
  <2>3. Counted'
    <3>1. Len(dispatched') = 0
      BY <1>7
    <3>2. requests' = requests /\ request' = request
      BY <1>1
    <3>3. socket = "ended" /\ a < requests => requests > 1 /\ request.method \notin Edg!Unknown
      BY <1>4 DEF EdgeInv, Counted
    <3>4. requests - 1 <= a /\ a + 0 <= requests
      BY <1>4, <1>7
    <3> QED BY <1>4, <2>1, <3>1, <3>2, <3>3, <3>4 DEF Counted
  <2>4. TakenOver'
    BY <1>1, <2>1 DEF EdgeInv, TakenOver
  <2>5. Reading' /\ Recovering'
    BY <2>1 DEF Reading, Recovering
  <2> QED BY <1>8, <2>2, <2>3, <2>4, <2>5 DEF EdgeInv
<1> QED BY <1>9, <1>10

LEMMA RecoveryTimeoutSafe == ASSUME EdgeInv, Edg!RecoveryTimeout PROVE EdgeInv'
<1>1. PICK i \in DOMAIN recoveries : /\ Edg!TimesOut(recoveries[i])
                                     /\ recoveries' = [recoveries EXCEPT ![i].state = "400"]
  BY DEF Edg!RecoveryTimeout
<1>2. /\ socket = "open" /\ answers' = Append(answers, "400") /\ socket' = "ended"
      /\ UNCHANGED <<requests, request, unsent, received, owned, dispatched>>
  BY DEF Edg!RecoveryTimeout
<1>3. /\ EdgeTyped /\ answers \in Seq(Answer) /\ recoveries \in Seq(Recovery) /\ owned \in BOOLEAN
  BY DEF EdgeInv, EdgeTyped
<1>4. owned /\ request.method \in Edg!Unknown
  <2>1. recoveries # <<>>
    BY <1>1
  <2> QED BY <2>1, <1>3 DEF EdgeInv, TakenOver
<1>5. Len(recoveries) = 1 /\ Len(answers) = requests - 1
  BY <1>2, <1>4 DEF EdgeInv, TakenOver
<1>6. i = 1 /\ recoveries[1].state = "collecting" /\ recoveries[1] \in Recovery
  <2>1. i = 1 /\ recoveries[i].state = "collecting"
    BY <1>1, <1>3, <1>5 DEF Edg!TimesOut
  <2>2. recoveries[1] \in Recovery
    BY <1>3, <1>5, OneOf
  <2> QED BY <2>1, <2>2
<1>7. dispatched = <<>>
  BY <1>2, <1>4, <1>6 DEF EdgeInv, Recovering
<1>8. recoveries' \in Seq(Recovery) /\ Len(recoveries') = 1
  <2>1. [recoveries[1] EXCEPT !.state = "400"] \in Recovery
    BY <1>6 DEF Recovery
  <2>2. recoveries' = [recoveries EXCEPT ![1] = [recoveries[1] EXCEPT !.state = "400"]]
    BY <1>1, <1>3, <1>6
  <2>3. PICK r \in Recovery : r = [recoveries[1] EXCEPT !.state = "400"]
    BY <2>1
  <2>4. recoveries' = [recoveries EXCEPT ![1] = r] /\ 1 \in 1..Len(recoveries)
    BY <2>2, <2>3, <1>5
  <2>5. /\ [recoveries EXCEPT ![1] = r] \in Seq(Recovery)
        /\ Len([recoveries EXCEPT ![1] = r]) = Len(recoveries)
    BY <2>4, <1>3, ExceptSeq
  <2> QED BY <2>4, <2>5, <1>5
<1>9. PICK a \in Nat : a = Len(answers) /\ a = requests - 1 /\ requests \in Nat /\ requests >= 1
  BY <1>3, <1>5, TypedLens
<1>10. answers' \in Seq(Answer) /\ Len(answers') = a + 1
  <2>1. PICK s \in Answer : s = "400"
    BY Typings
  <2>2. Append(answers, s) \in Seq(Answer) /\ Len(Append(answers, s)) = Len(answers) + 1
    BY <1>3
  <2> QED BY <2>1, <2>2, <1>2, <1>9
<1>11. EdgeTyped'
  BY <1>2, <1>3, <1>8, <1>10 DEF EdgeTyped
<1>12. Counted'
  BY <1>2, <1>7, <1>9, <1>10 DEF Counted
<1>13. TakenOver'
  BY <1>2, <1>4, <1>8 DEF TakenOver
<1>14. Reading' /\ Recovering' /\ Given'
  BY <1>2 DEF Reading, Recovering, Given
<1> QED BY <1>11, <1>12, <1>13, <1>14 DEF EdgeInv

LEMMA NodeTimeoutSafe == ASSUME EdgeInv, Edg!NodeTimeout PROVE EdgeInv'
<1>1. unsent' \in Seq(Symbol) /\ received' \in Seq(Symbol)
  BY DEF EdgeInv, EdgeTyped, Edg!NodeTimeout
<1> QED BY <1>1, NodeRefuses DEF Edg!NodeTimeout

LEMMA ClientLeavesSafe == ASSUME EdgeInv, Edg!ClientLeaves PROVE EdgeInv'
<1>1. /\ socket = "open" /\ socket' = "left"
      /\ UNCHANGED <<requests, request, unsent, received, owned, dispatched, answers>>
      /\ recoveries' = [i \in DOMAIN recoveries |->
                            IF recoveries[i].state = "collecting"
                            THEN [recoveries[i] EXCEPT !.state = "closed"] ELSE recoveries[i]]
  BY DEF Edg!ClientLeaves
<1>2. EdgeTyped /\ recoveries \in Seq(Recovery)
  BY DEF EdgeInv, EdgeTyped
<1>3. recoveries' \in Seq(Recovery) /\ Len(recoveries') = Len(recoveries)
  <2>1. ASSUME NEW i \in DOMAIN recoveries
        PROVE  (IF recoveries[i].state = "collecting"
                THEN [recoveries[i] EXCEPT !.state = "closed"] ELSE recoveries[i]) \in Recovery
    <3>1. recoveries[i] \in Recovery
      BY <1>2
    <3>2. [recoveries[i] EXCEPT !.state = "closed"] \in Recovery
      BY <3>1 DEF Recovery
    <3> QED BY <3>1, <3>2
  <2>2. PICK k \in Nat : k = Len(recoveries) /\ DOMAIN recoveries = 1..k
    BY <1>2
  <2>3. recoveries' \in [1..k -> Recovery]
    BY <1>1, <2>1, <2>2
  <2> QED BY <2>2, <2>3
<1>4. EdgeTyped'
  BY <1>1, <1>2, <1>3 DEF EdgeTyped
<1>5. Counted'
  BY <1>1 DEF EdgeInv, Counted
<1>6. TakenOver'
  <2>1. recoveries = <<>> => recoveries' = <<>>
    BY <1>1
  <2> QED BY <1>1, <1>3, <2>1 DEF EdgeInv, TakenOver
<1>7. Reading' /\ Recovering' /\ Given'
  BY <1>1 DEF Reading, Recovering, Given
<1> QED BY <1>4, <1>5, <1>6, <1>7 DEF EdgeInv

LEMMA NextRequestSafe == ASSUME Edg!ConstantsAssumption, EdgeInv, Edg!NextRequest PROVE EdgeInv'
<1>1. /\ socket = "open" /\ Len(answers) = requests
      /\ requests' = requests + 1 /\ request' \in Edg!Sendable
      /\ unsent' = Edg!Sent(request') \o Edg!Body(request') /\ received' = <<>>
      /\ UNCHANGED <<owned, recoveries, dispatched, answers, socket>>
  BY DEF Edg!NextRequest
<1>2. EdgeTyped /\ dispatched \in Seq(Message) /\ answers \in Seq(Answer)
  BY DEF EdgeInv, EdgeTyped
<1>3. PICK a \in Nat, d \in Nat : /\ a = Len(answers) /\ d = Len(dispatched)
                                  /\ requests \in Nat /\ requests >= 1
  BY <1>2, TypedLens
<1>4. d = 0 /\ a = requests /\ dispatched = <<>>
  <2>1. a + d <= requests /\ a = requests
    BY <1>1, <1>3 DEF EdgeInv, Counted
  <2>2. d = 0
    BY <2>1, <1>3
  <2> QED BY <2>1, <2>2, <1>2, <1>3
<1>5. ~owned
  BY <1>1, <1>3, <1>4 DEF EdgeInv, TakenOver
<1>6. recoveries = <<>>
  BY <1>5 DEF EdgeInv, TakenOver
<1>7. /\ unsent' \in Seq(Symbol) /\ received' \in Seq(Symbol)
      /\ unsent' = Whole(request)' /\ received' \o unsent' = Whole(request)'
  <2>1. PICK r \in Edg!Sendable : r = request'
    BY <1>1
  <2>2. Edg!Sent(r) \o Edg!Body(r) \in Seq(Symbol) /\ <<>> \in Seq(Symbol)
        /\ <<>> \o (Edg!Sent(r) \o Edg!Body(r)) = Whole(r)
    BY Unread
  <2>3. Whole(r) = Edg!Sent(r) \o Edg!Body(r) /\ Whole(request)' = Whole(r)
    BY <2>1 DEF Whole, Edg!Sent, Edg!Body
  <2> QED BY <1>1, <2>1, <2>2, <2>3
<1>8. EdgeTyped'
  BY <1>1, <1>2, <1>3, <1>7 DEF EdgeTyped
<1>9. Counted'
  BY <1>1, <1>3, <1>4 DEF Counted
<1>10. TakenOver'
  BY <1>1, <1>5, <1>6 DEF TakenOver
<1>11. Reading'
  <2>1. Edg!TerminatorAt(received)' = {}
    BY <1>1, NoTerminator DEF Edg!TerminatorAt
  <2> QED BY <1>1, <1>3, <1>4, <1>7, <2>1 DEF Reading
<1>12. Recovering' /\ Given'
  BY <1>1, <1>4, <1>5 DEF Recovering, Given
<1> QED BY <1>8, <1>9, <1>10, <1>11, <1>12 DEF EdgeInv

LEMMA NextEdgeInv == ASSUME Edg!ConstantsAssumption, EdgeInv, [Edg!Next]_(Edg!vars) PROVE EdgeInv'
BY InvalidMethodSafe, KnownMethodSafe, AfterConnectSafe, RespondSafe, RecoveryTimeoutSafe,
   NodeTimeoutSafe, ClientLeavesSafe, NextRequestSafe, EdgeStutter DEF Edg!Next

LEMMA EdgeInvSuffices == ASSUME EdgeInv PROVE Edg!OneAnswerEach /\ Edg!RefusedArrivesWhole
<1>1. Edg!OneAnswerEach
  BY DEF EdgeInv, Counted, Edg!OneAnswerEach
<1>2. PICK a \in Nat, d \in Nat : /\ a = Len(answers) /\ d = Len(dispatched)
                                  /\ requests \in Nat /\ requests >= 1
  BY TypedLens DEF EdgeInv
<1>3. d <= 1
  BY <1>2 DEF EdgeInv, Counted
<1>4. ASSUME NEW i \in DOMAIN dispatched
      PROVE  i = 1 /\ dispatched[i] \in Message /\ dispatched # <<>>
  <2>1. dispatched \in Seq(Message)
    BY DEF EdgeInv, EdgeTyped
  <2> QED BY <2>1, <1>2, <1>3, <1>4
<1>5. ASSUME NEW i \in DOMAIN dispatched, socket = "open"
      PROVE  dispatched[i] = Edg!incomingMessage(request.method, request.headers)
  BY <1>4, <1>5 DEF EdgeInv, Given
<1> QED BY <1>1, <1>5, SameHandlers DEF Edg!RefusedArrivesWhole

\* Each request is answered once, and one that Node refused reaches Express whole
\* (recoverInvalidMethod, buildIncomingMessage, restoreCatchAllRoutes).
THEOREM RefusedRequestsAreAnsweredOnce ==
    ASSUME Edg!ConstantsAssumption
    PROVE  Edg!Spec => [](Edg!OneAnswerEach /\ Edg!RefusedArrivesWhole)
<1>1. Edg!Init => EdgeInv
  BY EdgeInit
<1>2. EdgeInv /\ [Edg!Next]_(Edg!vars) => EdgeInv'
  BY NextEdgeInv
<1>3. EdgeInv => Edg!OneAnswerEach /\ Edg!RefusedArrivesWhole
  BY EdgeInvSuffices
<1> QED BY <1>1, <1>2, <1>3, PTL DEF Edg!Spec

-----------------------------------------------------------------------------
(* Amortization *)

-----------------------------------------------------------------------------
(* The calendar *)

\* A month's place among all months.
MonthOf(d) == 12 * d.year + d.month

\* A day of the month d is in, or of another, clamped.
Clamped(d, p) ==
    /\ p.year \in Int /\ p.month \in 1..12 /\ p.day \in Int
    /\ p.day = IF d.day < Amo!daysInMonth(p.year, p.month) THEN d.day ELSE Amo!daysInMonth(p.year, p.month)

LEMMA MonthLengths ==
    ASSUME NEW y \in Int, NEW m \in 1..12
    PROVE  /\ Amo!daysInMonth(y, m) \in 28..31
           /\ Amo!daysInMonth(y, m) < 30 <=> m = 2
BY DEF Amo!daysInMonth

LEMMA DateIs ==
    ASSUME NEW d, Amo!IsDate(d)
    PROVE  /\ d.year \in Int /\ d.month \in 1..12 /\ d.day \in 1..31
           /\ d.day <= Amo!daysInMonth(d.year, d.month)
<1>0. /\ d.year \in Int /\ d.month \in 1..12
      /\ d.day \in 1..Amo!daysInMonth(d.year, d.month)
  <2> DEFINE Year == 1..9999
  <2>1. /\ d.year \in Year /\ d.month \in 1..12
        /\ d.day \in 1..Amo!daysInMonth(d.year, d.month)
    BY PTL DEF Amo!IsDate
  <2>2. ASSUME NEW y \in Year  PROVE y \in Int
    OBVIOUS
  <2> HIDE DEF Year
  <2> QED BY <2>1, <2>2
<1>1. PICK y, m, day : y = d.year /\ m = d.month /\ day = d.day
  OBVIOUS
<1>2. y \in Int /\ m \in 1..12 /\ day \in 1..Amo!daysInMonth(y, m)
  <2>3. d.day \in 1..Amo!daysInMonth(d.year, d.month)
    BY <1>0
  <2>4. y \in Int /\ m \in 1..12
    BY <1>0, <1>1
  <2>5. Amo!daysInMonth(y, m) = Amo!daysInMonth(d.year, d.month)
    BY <1>1
  <2>6. day \in 1..Amo!daysInMonth(y, m)
    BY <1>1, <2>3, <2>5
  <2> QED BY <2>4, <2>6
<1>3. PICK last \in 28..31 : last = Amo!daysInMonth(y, m)
  BY <1>2, MonthLengths
<1>4. day \in 1..31 /\ day <= last
  BY <1>2, <1>3
<1>5. Amo!daysInMonth(d.year, d.month) = last
  BY <1>1, <1>3
<1>6. d.day <= Amo!daysInMonth(d.year, d.month)
  BY <1>1, <1>4, <1>5
<1>7. y \in Int /\ m \in 1..12
  BY <1>2
<1>8. d.year \in Int /\ d.month \in 1..12 /\ d.day \in 1..31
  BY <1>1, <1>4, <1>7
<1> QED BY <1>6, <1>8

LEMMA MonthsAdded ==
    ASSUME NEW d, Amo!IsDate(d), NEW k \in Nat
    PROVE  LET p == Amo!addRelativeDelta(d, [Amo!NoDelta EXCEPT !.months = k])
           IN  Clamped(d, p) /\ MonthOf(p) = MonthOf(d) + k
<1>1. /\ d.year \in Int /\ d.month \in 1..12 /\ d.day \in Int
      /\ d.day <= Amo!daysInMonth(d.year, d.month)
  BY DateIs
<1>2. PICK delta : delta = [Amo!NoDelta EXCEPT !.months = k]
  OBVIOUS
<1>3. delta.years = 0 /\ delta.months = k /\ delta.weeks = 0 /\ delta.days = 0
  BY <1>2 DEF Amo!NoDelta
<1>4. Amo!addRelativeDelta(d, delta) = Amo!addMonths(d, k)
  BY <1>3 DEF Amo!addRelativeDelta
<1>5. PICK months \in Int : months = 12 * d.year + d.month - 1 + k
  BY <1>1
<1>6. PICK y \in Int, m \in 1..12 : y = months \div 12 /\ m = (months % 12) + 1
  OBVIOUS
<1>7. 12 * y + m = months + 1
  BY <1>6
<1>8. PICK last \in 28..31 : last = Amo!daysInMonth(y, m)
  BY MonthLengths
<1>9. Amo!addMonths(d, k) = [year |-> y, month |-> m, day |-> IF d.day < last THEN d.day ELSE last]
  BY <1>5, <1>6, <1>8 DEF Amo!addMonths, Amo!Date
<1>10. PICK p : p = Amo!addMonths(d, k)
  OBVIOUS
<1>11. p.year = y /\ p.month = m /\ p.day = IF d.day < last THEN d.day ELSE last
  BY <1>9, <1>10
<1>12. Clamped(d, p)
  BY <1>1, <1>6, <1>8, <1>11 DEF Clamped
<1>13. MonthOf(p) = MonthOf(d) + k
  BY <1>1, <1>5, <1>7, <1>11 DEF MonthOf
<1> QED BY <1>2, <1>4, <1>10, <1>12, <1>13

LEMMA ItselfClamped ==
    ASSUME NEW d, Amo!IsDate(d)
    PROVE  Clamped(d, d)
<1>1. /\ d.year \in Int /\ d.month \in 1..12 /\ d.day \in 1..31
      /\ d.day <= Amo!daysInMonth(d.year, d.month)
  BY DateIs
<1>2. PICK last \in 28..31 : last = Amo!daysInMonth(d.year, d.month)
  BY <1>1, MonthLengths
<1> QED BY <1>1, <1>2 DEF Clamped

\* What lies between two payments of one loan.
LEMMA DaysBetween ==
    ASSUME NEW d, Amo!IsDate(d), NEW a, NEW b, Clamped(d, a), Clamped(d, b),
           NEW k \in Nat \ {0}, MonthOf(b) = MonthOf(a) + k
    PROVE  /\ Amo!compare(b, a) > 0
           /\ Amo!days360(a, b) \in 30 * k - 2 .. 30 * k
           /\ Amo!days360(a, b) < 30 * k => 2 \in {a.month, b.month}
<1>1. PICK y \in Int, m \in 1..12, z \in Int, n \in 1..12 :
          y = a.year /\ m = a.month /\ z = b.year /\ n = b.month
  BY DEF Clamped
<1>2. 12 * z + n = 12 * y + m + k
  BY <1>1 DEF MonthOf
<1>3. PICK first \in 28..31, last \in 28..31 : first = Amo!daysInMonth(y, m) /\ last = Amo!daysInMonth(z, n)
  BY MonthLengths
<1>4. (first < 30 <=> m = 2) /\ (last < 30 <=> n = 2)
  BY <1>3, MonthLengths
<1>5. PICK day \in 1..31 : day = d.day
  BY DateIs
<1>6. PICK e \in Int, f \in Int : e = a.day /\ f = b.day
  BY DEF Clamped
<1>7. e = (IF day < first THEN day ELSE first) /\ f = (IF day < last THEN day ELSE last)
  BY <1>1, <1>3, <1>5, <1>6 DEF Clamped
<1>8. z > y \/ (z = y /\ n > m)
  BY <1>2
<1>9. Amo!compare(b, a) > 0
  BY <1>1, <1>8 DEF Amo!compare
<1>10. Amo!compare(a, b) # 0
  BY <1>1, <1>8 DEF Amo!compare
<1>11. PICK start \in Int : start = IF e = first THEN 30 ELSE e
  OBVIOUS
<1>12. PICK end \in Int : end = IF start = 30 /\ f = 31 THEN 30 ELSE f
  OBVIOUS
<1>13. Amo!days360(a, b) = 360 * (z - y) + 30 * (n - m) + end - start
  <2>1. ~(Amo!compare(b, a) < 0)
    BY <1>9, <1>1, <1>8 DEF Amo!compare
  <2>2. Amo!isLastDay(a) <=> e = first
    BY <1>1, <1>3, <1>6 DEF Amo!isLastDay
  <2>3. Amo!days360(a, b) = 360 * (b.year - a.year) + 30 * (b.month - a.month) + end - start
    BY <1>6, <1>10, <1>11, <1>12, <2>1, <2>2 DEF Amo!days360
  <2> QED BY <1>1, <2>3
<1>14. 360 * (z - y) + 30 * (n - m) = 30 * k
  BY <1>2
<1>15. end - start \in -2 .. 0 /\ (end - start < 0 => m = 2 \/ n = 2)
  BY <1>4, <1>7, <1>11, <1>12
<1> QED BY <1>1, <1>9, <1>13, <1>14, <1>15

-----------------------------------------------------------------------------
(* Dividing and rounding *)

LEMMA DividedIs ==
    ASSUME NEW a \in Int, NEW d \in Nat \ {0}, NEW q \in Int, NEW r \in Int,
           a = d * q + r, 0 <= r, r < d
    PROVE  a \div d = q /\ a % d = r
<1>1. PICK x \in Int, y \in Int : x = a \div d /\ y = a % d
  OBVIOUS
<1>2. a = d * x + y /\ 0 <= y /\ y < d
  BY <1>1
<1>3. d * (x - q) = r - y
  BY <1>2
<1>4. PICK z \in Int : z = x - q
  OBVIOUS
<1>5. d * z = r - y /\ r - y < d /\ r - y > -d
  BY <1>2, <1>3, <1>4
<1>6. z >= 1 => d * z >= d
  OBVIOUS
<1>7. z <= -1 => d * z <= -d
  OBVIOUS
<1>8. z = 0
  BY <1>5, <1>6, <1>7
<1> QED BY <1>1, <1>4, <1>5, <1>8

LEMMA DivisionOf ==
    ASSUME NEW a \in Nat, NEW d \in Nat \ {0}
    PROVE  \E q \in Nat, r \in Nat :
               q = a \div d /\ r = a % d /\ a = d * q + r /\ r < d
<1>1. PICK q \in Int, r \in Nat : q = a \div d /\ r = a % d /\ a = d * q + r /\ r < d
  OBVIOUS
<1>2. q <= -1 => d * q <= -d
  OBVIOUS
<1>3. q \in Nat
  BY <1>1, <1>2
<1> QED BY <1>1, <1>3

LEMMA Rounded ==
    ASSUME NEW a \in Nat, NEW d \in Nat \ {0}
    PROVE  \E q \in Nat : /\ q = a \div d
                          /\ Amo!roundHalfEven(a, d) \in {q, q + 1}
<1>1. PICK q \in Nat, r \in Nat : q = a \div d /\ r = a % d /\ a = d * q + r /\ r < d
  BY DivisionOf
<1> QED BY <1>1 DEF Amo!roundHalfEven

\* Rounding does not see a factor of both.
LEMMA RoundedScaled ==
    ASSUME NEW a \in Nat, NEW d \in Nat \ {0}, NEW n \in Nat \ {0}
    PROVE  Amo!roundHalfEven(n * a, n * d) = Amo!roundHalfEven(a, d)
<1>1. PICK q \in Nat, r \in Nat : q = a \div d /\ r = a % d /\ a = d * q + r /\ r < d
  BY DivisionOf
<1>2. PICK A \in Int, D \in Int, R \in Int : A = n * a /\ D = n * d /\ R = n * r
  OBVIOUS
<1>3. n * d >= n
  OBVIOUS
<1>4. D \in Nat \ {0}
  BY <1>2, <1>3
<1>5. n * r >= 0
  OBVIOUS
<1>6. PICK g \in Nat \ {0} : g = d - r
  BY <1>1
<1>7. n * g >= n
  OBVIOUS
<1>8. 0 <= R /\ R < D
  <2>1. D - R = n * g
    BY <1>2, <1>6
  <2> QED BY <1>2, <1>5, <1>7, <2>1
<1>9. A = D * q + R
  BY <1>1, <1>2
<1>10. A \div D = q /\ A % D = R
  BY <1>4, <1>8, <1>9, DividedIs
<1>11. PICK h \in Int : h = d - 2 * r
  OBVIOUS
<1>12. D - 2 * R = n * h
  BY <1>2, <1>11
<1>13. (h > 0 => n * h > 0) /\ (h = 0 => n * h = 0) /\ (h < 0 => n * h < 0)
  OBVIOUS
<1>14. (2 * R < D <=> 2 * r < d) /\ (2 * R = D <=> 2 * r = d)
  BY <1>11, <1>12, <1>13
<1>15. Amo!roundHalfEven(A, D) = Amo!roundHalfEven(a, d)
  BY <1>1, <1>10, <1>14 DEF Amo!roundHalfEven
<1> QED BY <1>2, <1>15

\* What is paid comes, rounded, to the loan and its first interests at least.
LEMMA PaidInFull ==
    ASSUME NEW U \in Nat \ {0}, NEW v \in Nat, NEW a \in Nat, NEW s \in Nat, s >= U * v + a
    PROVE  Amo!roundHalfEven(s, U) >= v + Amo!roundHalfEven(a, U) - 1
<1>1. PICK q \in Nat, r \in Nat : q = a \div U /\ r = a % U /\ a = U * q + r /\ r < U
  BY DivisionOf
<1>2. PICK x \in Nat, y \in Nat : x = s \div U /\ y = s % U /\ s = U * x + y /\ y < U
  BY DivisionOf
<1>3. PICK z \in Int : z = v + q - x
  OBVIOUS
<1>4. U * z = U * v + U * q - U * x
  BY <1>3
<1>5. U * z < U
  <2>1. PICK e \in Int, f \in Int, g \in Int : e = U * v /\ f = U * q /\ g = U * x
    OBVIOUS
  <2>2. U * z = e + f - g
    BY <1>4, <2>1
  <2>3. a = f + r /\ s = g + y /\ s >= e + a
    BY <1>1, <1>2, <2>1
  <2>4. e + f - g <= y - r
    BY <2>3
  <2> QED BY <1>1, <1>2, <2>2, <2>4
<1>6. z >= 1 => U * z >= U
  OBVIOUS
<1>7. x >= v + q
  BY <1>3, <1>5, <1>6
<1>8. Amo!roundHalfEven(s, U) \in {x, x + 1}
  BY <1>2, Rounded
<1>9. Amo!roundHalfEven(a, U) \in {q, q + 1}
  BY <1>1, Rounded
<1> QED BY <1>7, <1>8, <1>9

LEMMA RatesRise ==
    ASSUME NEW s \in 1..36, NEW t \in s..36
    PROVE  Amo!getRate(s) \in Nat /\ Amo!getRate(t) >= Amo!getRate(s)
BY DEF Amo!getRate

-----------------------------------------------------------------------------
(* The sum of the payments *)

\* The least of some numbers.
LEMMA LeastOf ==
    ASSUME NEW S \in SUBSET Nat, S # {}
    PROVE  \E x \in S : \A y \in S : x <= y
<1>1. \E x \in S : \A y \in S : ~(<<y, x>> \in OpToRel(<, Nat))
  BY WFMin, NatLessThanWellFounded
<1>2. PICK x \in S : \A y \in S : ~(<<y, x>> \in OpToRel(<, Nat))
  BY <1>1
<1>3. \A y \in S : y < x => <<y, x>> \in OpToRel(<, Nat)
  BY DEF OpToRel
<1>4. ASSUME NEW y \in S
      PROVE  x <= y
  <2>1. ~(y < x)
    BY <1>2, <1>3, Zenon
  <2>2. x \in Nat /\ y \in Nat
    OBVIOUS
  <2> QED BY <2>1, <2>2
<1> QED BY <1>4

\* f adds up the first m payments.
Adds(f, m) ==
    /\ f \in [0..m -> Int] /\ f[0] = 0
    /\ \A i \in 1..m : f[i] = f[i - 1] + Amo!PaymentValue(i)

LEMMA SomethingAdds ==
    ASSUME NEW n \in Nat, \A i \in 1..n : Amo!PaymentValue(i) \in Int
    PROVE  \E f : Adds(f, n)
<1> DEFINE Bad == {m \in 0..n : ~\E f : Adds(f, m)}
<1>1. SUFFICES ASSUME Bad # {}
               PROVE  FALSE
  <2>1. n \in 0..n
    OBVIOUS
  <2> QED BY <1>1, <2>1
<1>2. PICK m \in Bad : \A k \in Bad : m <= k
  <2>1. Bad \subseteq Nat
    OBVIOUS
  <2> HIDE DEF Bad
  <2> QED BY <1>1, <2>1, LeastOf
<1>3. m \in 0..n /\ ~\E f : Adds(f, m)
  OBVIOUS
<1>4. m # 0
  <2>1. SUFFICES ASSUME m = 0
                 PROVE  FALSE
    OBVIOUS
  <2>2. Adds([i \in 0..0 |-> 0], 0)
    BY DEF Adds
  <2> QED BY <1>3, <2>1, <2>2
<1>5. PICK l \in 0..n : l = m - 1
  BY <1>3, <1>4
<1>6. \E f : Adds(f, l)
  <2>1. l \notin Bad
    <3>1. ~(m <= l)
      BY <1>3, <1>5
    <3> HIDE DEF Bad
    <3> QED BY <1>2, <3>1
  <2> QED BY <2>1
<1>7. PICK f : Adds(f, l)
  BY <1>6
<1>8. PICK p \in Int : p = Amo!PaymentValue(m)
  BY <1>3, <1>4
<1>9. PICK g : g = [i \in 0..m |-> IF i = m THEN f[l] + p ELSE f[i]]
  OBVIOUS
<1>10. f \in [0..l -> Int] /\ f[0] = 0 /\ \A i \in 1..l : f[i] = f[i - 1] + Amo!PaymentValue(i)
  BY <1>7 DEF Adds
<1>11. \A i \in 0..l : g[i] = f[i]
  BY <1>3, <1>5, <1>9
<1>12. g[m] = f[l] + p
  BY <1>3, <1>9
<1>13. g \in [0..m -> Int] /\ g[0] = 0
  BY <1>3, <1>4, <1>5, <1>8, <1>9, <1>10, <1>11
<1>14. ASSUME NEW i \in 1..m
       PROVE  g[i] = g[i - 1] + Amo!PaymentValue(i)
  <2>1. CASE i = m
    <3>1. g[l] = f[l] /\ i - 1 = l
      BY <1>3, <1>5, <1>11, <2>1
    <3> QED BY <1>8, <1>12, <2>1, <3>1
  <2>2. CASE i # m
    <3>1. i \in 1..l /\ i \in 0..l /\ i - 1 \in 0..l
      BY <1>3, <1>5, <2>2
    <3> QED BY <1>10, <1>11, <3>1
  <2> QED BY <2>1, <2>2
<1>15. Adds(g, m)
  BY <1>13, <1>14 DEF Adds
<1> QED BY <1>3, <1>15

LEMMA SumIs ==
    ASSUME NEW n \in Nat, Len(table) = n, \A i \in 1..n : Amo!PaymentValue(i) \in Int
    PROVE  Adds(Amo!Sum, n)
<1>1. PICK f : Adds(f, n)
  BY SomethingAdds
<1>2. f \in [0..n -> Int] /\ f[0] = 0 /\ \A i \in 1..n : f[i] = f[i - 1] + Amo!PaymentValue(i)
  BY <1>1 DEF Adds
<1> DEFINE Steps(s) == [i \in 0..n |-> IF i = 0 THEN 0 ELSE s[i - 1] + Amo!PaymentValue(i)]
<1>3. \A i \in 0..n : f[i] = IF i = 0 THEN 0 ELSE f[i - 1] + Amo!PaymentValue(i)
  BY <1>2
<1>4. f = Steps(f)
  BY <1>2, <1>3
<1>5. Amo!Sum = CHOOSE s : s = Steps(s)
  BY DEF Amo!Sum
<1> HIDE DEF Steps
<1>6. Amo!Sum = Steps(Amo!Sum)
  BY <1>4, <1>5
<1> USE DEF Steps
<1>7. PICK s : s = Amo!Sum
  OBVIOUS
<1>8. s = [i \in 0..n |-> IF i = 0 THEN 0 ELSE s[i - 1] + Amo!PaymentValue(i)]
  BY <1>6, <1>7
<1>9. s[0] = 0 /\ \A i \in 1..n : s[i] = s[i - 1] + Amo!PaymentValue(i)
  <2>1. \A i \in 0..n : s[i] = IF i = 0 THEN 0 ELSE s[i - 1] + Amo!PaymentValue(i)
    BY <1>8
  <2> QED BY <2>1
<1>10. \A i \in 0..n : s[i] = f[i]
  <2> DEFINE Bad == {i \in 0..n : s[i] # f[i]}
  <2>1. SUFFICES ASSUME Bad # {}
                 PROVE  FALSE
    OBVIOUS
  <2>2. PICK m \in Bad : \A k \in Bad : m <= k
    <3>1. Bad \subseteq Nat
      OBVIOUS
    <3> HIDE DEF Bad
    <3> QED BY <2>1, <3>1, LeastOf
  <2>3. m \in 0..n /\ s[m] # f[m] /\ m # 0
    BY <1>2, <1>9
  <2>4. PICK l \in 0..n : l = m - 1
    BY <2>3
  <2>5. l \notin Bad
    <3>1. ~(m <= l)
      BY <2>3, <2>4
    <3> HIDE DEF Bad
    <3> QED BY <2>2, <3>1
  <2>6. s[l] = f[l] /\ m \in 1..n
    BY <2>3, <2>5
  <2> QED BY <1>2, <1>9, <2>3, <2>4, <2>6
<1>11. s \in [0..n -> Int]
  <2>1. \A i \in 0..n : s[i] \in Int
    BY <1>2, <1>10
  <2>2. DOMAIN s = 0..n /\ s = [i \in DOMAIN s |-> s[i]]
    BY <1>8
  <2> QED BY <2>1, <2>2
<1> QED BY <1>7, <1>9, <1>11 DEF Adds

\* Each payment is c and its interests: so is their sum, the first's included.
LEMMA SumAtLeast ==
    ASSUME NEW n \in Nat \ {0}, NEW f, Adds(f, n), NEW c \in Nat, NEW a \in Nat,
           Amo!PaymentValue(1) = c + a,
           \A i \in 1..n : Amo!PaymentValue(i) \in Nat /\ Amo!PaymentValue(i) >= c
    PROVE  f[n] \in Nat /\ f[n] >= n * c + a
<1>1. f \in [0..n -> Int] /\ f[0] = 0 /\ \A i \in 1..n : f[i] = f[i - 1] + Amo!PaymentValue(i)
  BY DEF Adds
<1> DEFINE Bad == {i \in 1..n : ~(f[i] >= i * c + a)}
<1>2. Bad = {}
  <2>1. SUFFICES ASSUME Bad # {}
                 PROVE  FALSE
    OBVIOUS
  <2>2. PICK m \in Bad : \A k \in Bad : m <= k
    <3>1. Bad \subseteq Nat
      OBVIOUS
    <3> HIDE DEF Bad
    <3> QED BY <2>1, <3>1, LeastOf
  <2>3. m \in 1..n /\ ~(f[m] >= m * c + a)
    OBVIOUS
  <2>4. f[1] = c + a
    BY <1>1
  <2>5. m # 1
    BY <2>3, <2>4
  <2>6. PICK l \in 1..n : l = m - 1
    BY <2>3, <2>5
  <2>7. l \notin Bad
    <3>1. ~(m <= l)
      BY <2>3, <2>6
    <3> HIDE DEF Bad
    <3> QED BY <2>2, <3>1
  <2>8. f[l] >= l * c + a
    BY <2>7
  <2>9. PICK x \in Int, y \in Int, p \in Nat : x = f[l] /\ y = f[m] /\ p = Amo!PaymentValue(m)
    <3>1. l \in 0..n /\ m \in 0..n
      BY <2>3, <2>6
    <3>2. f[l] \in Int /\ f[m] \in Int
      BY <1>1, <3>1
    <3>3. Amo!PaymentValue(m) \in Nat
      BY <2>3
    <3> QED BY <3>2, <3>3
  <2>10. y = x + p /\ p >= c
    BY <1>1, <2>3, <2>6, <2>9
  <2>11. m * c = l * c + c
    <3>1. m = l + 1 /\ l \in Nat
      BY <2>3, <2>6
    <3>2. (l + 1) * c = l * c + c
      BY <3>1
    <3> QED BY <3>1, <3>2
  <2> QED BY <2>3, <2>8, <2>9, <2>10, <2>11
<1>3. f[n] >= n * c + a
  <2>1. n \in 1..n
    OBVIOUS
  <2> QED BY <1>2, <2>1
<1>4. n * c >= 0
  OBVIOUS
<1>5. f[n] \in Int
  BY <1>1
<1> QED BY <1>3, <1>4, <1>5

-----------------------------------------------------------------------------
(* The inductive invariant: the table and the detail are what the loan says *)

FromOf(i) == IF i = 1 THEN loan.disbursement_date ELSE Amo!PaymentDate(i - 1)
BalanceOf(i) == loan.value * (Amo!instalments - i)

RowOf(i) ==
    [from |-> FromOf(i), payment_date |-> Amo!PaymentDate(i),
     interests |-> Amo!calculateInterests(loan.rate, BalanceOf(i - 1), FromOf(i), Amo!PaymentDate(i)),
     final_balance |-> BalanceOf(i)]

LoanGood ==
    /\ loan.value \in Nat /\ loan.timelimit \in 1..36 /\ loan.fee \in {Amo!FEE_MONTHLY, Amo!FEE_UNIQUE}
    /\ loan.rate = Amo!getRate(loan.timelimit)
    /\ Amo!IsDate(loan.disbursement_date)

TableGood ==
    /\ table \in Seq({RowOf(i) : i \in 1..36})
    /\ Len(table) <= Amo!instalments
    /\ \A i \in 1..Len(table) : table[i] = RowOf(i)

DetailGood ==
    /\ Len(table) = Amo!instalments
    /\ detail.payday_limit = table[1].payment_date
    /\ detail.interests = Amo!roundHalfEven(table[1].interests, Amo!Unit)
    /\ detail.from_date = loan.disbursement_date
    /\ detail.capital_balance = loan.value
    /\ detail.total_payment = Amo!roundHalfEven(Amo!Sum[Amo!instalments], Amo!Unit)

AmoInv ==
    /\ loan = Amo!None => table = <<>> /\ detail = Amo!None
    /\ loan # Amo!None => LoanGood /\ TableGood
    /\ detail # Amo!None => DetailGood

LEMMA HowMany ==
    ASSUME LoanGood
    PROVE  /\ Amo!instalments \in 1..36 /\ Amo!Unit \in Nat \ {0}
           /\ loan.fee # Amo!FEE_MONTHLY => Amo!instalments = 1
           /\ loan.fee = Amo!FEE_MONTHLY => Amo!instalments = loan.timelimit
BY DEF LoanGood, Amo!instalments, Amo!Unit, Amo!FEE_MONTHLY, Amo!FEE_UNIQUE

\* How far the i-th payment is from the one before it.
Gap == IF loan.fee = Amo!FEE_MONTHLY THEN 1 ELSE loan.timelimit
Place(i) == IF loan.fee = Amo!FEE_MONTHLY THEN i ELSE loan.timelimit

LEMMA PaymentDateIs ==
    ASSUME LoanGood, NEW i \in 1..36
    PROVE  /\ Clamped(loan.disbursement_date, Amo!PaymentDate(i))
           /\ MonthOf(Amo!PaymentDate(i)) = MonthOf(loan.disbursement_date) + Place(i)
<1>1. PICK d : d = loan.disbursement_date /\ Amo!IsDate(d)
  BY DEF LoanGood
<1>2. PICK k \in Nat : k = Place(i)
  BY DEF LoanGood, Place
<1>3. PICK p : p = Amo!addRelativeDelta(d, [Amo!NoDelta EXCEPT !.months = k])
  OBVIOUS
<1>4. Clamped(d, p) /\ MonthOf(p) = MonthOf(d) + k
  BY <1>1, <1>3, MonthsAdded
<1>5. Amo!PaymentDate(i) = p
  BY <1>1, <1>2, <1>3, Zenon DEF Amo!PaymentDate, Place
<1> QED BY <1>1, <1>2, <1>4, <1>5

LEMMA RowGood ==
    ASSUME LoanGood, NEW i \in 1..Amo!instalments
    PROVE  /\ Amo!compare(Amo!PaymentDate(i), FromOf(i)) > 0
           /\ Amo!days360(FromOf(i), Amo!PaymentDate(i)) \in 30 * Gap - 2 .. 30 * Gap
           /\ Amo!days360(FromOf(i), Amo!PaymentDate(i)) < 30 * Gap
                => 2 \in {FromOf(i).month, Amo!PaymentDate(i).month}
<1>1. PICK d : d = loan.disbursement_date /\ Amo!IsDate(d)
  BY DEF LoanGood
<1>2. i \in 1..36
  BY HowMany
<1>3. PICK b : b = Amo!PaymentDate(i)
  OBVIOUS
<1>4. Clamped(d, b) /\ MonthOf(b) = MonthOf(d) + Place(i)
  BY <1>1, <1>2, <1>3, PaymentDateIs
<1>5. PICK k \in Nat \ {0} : k = Gap
  BY DEF LoanGood, Gap
<1>6. PICK a : a = FromOf(i)
  OBVIOUS
<1>7. PICK mine \in Int : mine = MonthOf(d)
  BY <1>1, DateIs DEF MonthOf
<1>8. Clamped(d, a) /\ MonthOf(b) = MonthOf(a) + k
  <2>1. CASE i = 1
    <3>1. a = d
      BY <1>1, <1>6, <2>1 DEF FromOf
    <3>2. Place(i) = k
      BY <1>5, <2>1 DEF Place, Gap
    <3> QED BY <1>1, <1>4, <3>1, <3>2, ItselfClamped
  <2>2. CASE i # 1
    <3>1. loan.fee = Amo!FEE_MONTHLY
      BY <2>2, HowMany
    <3>2. PICK j \in 1..36 : j = i - 1
      BY <1>2, <2>2
    <3>3. a = Amo!PaymentDate(j)
      BY <1>6, <2>2, <3>2 DEF FromOf
    <3>4. Clamped(d, a) /\ MonthOf(a) = MonthOf(d) + Place(j)
      BY <1>1, <3>3, PaymentDateIs
    <3>5. Place(j) = j /\ Place(i) = i /\ k = 1
      BY <1>5, <3>1 DEF Place, Gap
    <3>6. MonthOf(a) = mine + j /\ MonthOf(b) = mine + i
      BY <1>4, <1>7, <3>4, <3>5
    <3>7. MonthOf(b) = MonthOf(a) + k
      BY <3>2, <3>5, <3>6
    <3> QED BY <3>4, <3>7
  <2> QED BY <2>1, <2>2
<1>9. /\ Amo!compare(b, a) > 0
      /\ Amo!days360(a, b) \in 30 * k - 2 .. 30 * k
      /\ Amo!days360(a, b) < 30 * k => 2 \in {a.month, b.month}
  BY <1>1, <1>4, <1>8, DaysBetween
<1> QED BY <1>3, <1>5, <1>6, <1>9

LEMMA NatTimes ==
    ASSUME NEW a \in Nat, NEW b \in Nat
    PROVE  a * b \in Nat
OBVIOUS

\* A row's interests, and those of the detail's balance at its payment.
LEMMA InterestsAre ==
    ASSUME LoanGood, NEW i \in 1..Amo!instalments
    PROVE  /\ RowOf(i).interests \in Nat
           /\ i = 1 => \E whole \in Nat :
                /\ whole = Amo!calculateInterests(loan.rate, loan.value, FromOf(1), Amo!PaymentDate(1))
                /\ RowOf(1).interests = Amo!instalments * whole
<1>1. PICK n \in Nat \ {0} : n = Amo!instalments
  BY HowMany
<1>2. PICK v \in Nat, rate \in Nat : v = loan.value /\ rate = loan.rate
  BY RatesRise DEF LoanGood
<1>3. PICK days \in Nat : days = Amo!days360(FromOf(i), Amo!PaymentDate(i))
  <2>1. PICK g \in Nat \ {0} : g = Gap
    BY DEF LoanGood, Gap
  <2> QED BY <2>1, RowGood
<1>4. PICK unpaid \in Nat : unpaid = n - i + 1
  BY <1>1
<1>5. BalanceOf(i - 1) = v * unpaid
  BY <1>1, <1>2, <1>4 DEF BalanceOf
<1>6. RowOf(i).interests = v * unpaid * rate * days
  BY <1>2, <1>3, <1>5 DEF RowOf, Amo!calculateInterests
<1>7. v * unpaid \in Nat
  BY NatTimes
<1>8. v * unpaid * rate \in Nat
  BY <1>7, NatTimes
<1>9. v * unpaid * rate * days \in Nat
  BY <1>8, NatTimes
<1>10. ASSUME i = 1
       PROVE  \E whole \in Nat :
                /\ whole = Amo!calculateInterests(loan.rate, loan.value, FromOf(1), Amo!PaymentDate(1))
                /\ RowOf(1).interests = n * whole
  <2>1. v * rate \in Nat
    BY NatTimes
  <2>2. PICK whole \in Nat : whole = v * rate * days
    BY <2>1, NatTimes
  <2>3. whole = Amo!calculateInterests(loan.rate, loan.value, FromOf(1), Amo!PaymentDate(1))
    BY <1>2, <1>3, <1>10, <2>2 DEF Amo!calculateInterests
  <2>4. unpaid = n
    BY <1>4, <1>10
  <2>5. v * n * rate * days = n * (v * rate * days)
    OBVIOUS
  <2>6. RowOf(1).interests = n * whole
    BY <1>6, <1>10, <2>2, <2>4, <2>5
  <2> QED BY <2>3, <2>6
<1> QED BY <1>1, <1>6, <1>9, <1>10

-----------------------------------------------------------------------------
(* Every step keeps it *)

LEMMA AmoInit ==
    ASSUME Amo!Init
    PROVE  AmoInv
BY DEF Amo!Init, AmoInv

\* What a row is depends on the loan alone.
LEMMA RowStays ==
    ASSUME loan' = loan, NEW i
    PROVE  RowOf(i)' = RowOf(i)
BY DEF RowOf, FromOf, Amo!PaymentDate, BalanceOf, Amo!instalments

LEMMA LoanStays ==
    ASSUME loan' = loan
    PROVE  LoanGood' = LoanGood /\ Amo!instalments' = Amo!instalments /\ Amo!Unit' = Amo!Unit
BY DEF LoanGood, Amo!instalments, Amo!Unit

LEMMA AmoApply ==
    ASSUME Amo!ConstantsAssumption, AmoInv, Amo!Apply
    PROVE  AmoInv'
<1>1. loan = Amo!None /\ table = <<>> /\ detail = Amo!None /\ table' = <<>> /\ detail' = Amo!None
  BY DEF AmoInv, Amo!Apply
<1>2. LoanGood'
  BY DEF Amo!Apply, LoanGood, Amo!ConstantsAssumption, Amo!MIN_TIMELIMIT, Amo!MAX_TIMELIMIT
<1>3. TableGood'
  <2>1. PICK S : S = {RowOf(i)' : i \in 1..36}
    OBVIOUS
  <2>2. table' \in Seq(S) /\ Len(table') = 0
    BY <1>1
  <2>3. 0 <= Amo!instalments'
    BY <1>2 DEF Amo!instalments, LoanGood
  <2> QED BY <2>1, <2>2, <2>3 DEF TableGood
<1> QED BY <1>1, <1>2, <1>3 DEF AmoInv

LEMMA AmoAddRow ==
    ASSUME AmoInv, Amo!AddRow
    PROVE  AmoInv'
<1>1. /\ loan # Amo!None /\ detail = Amo!None /\ Len(table) < Amo!instalments
      /\ loan' = loan /\ detail' = detail
  BY DEF Amo!AddRow
<1>2. LoanGood /\ TableGood
  BY <1>1 DEF AmoInv
<1>3. PICK n \in 1..36 : n = Amo!instalments
  BY <1>2, HowMany
<1>4. PICK S : S = {RowOf(i) : i \in 1..36}
  OBVIOUS
<1>5. table \in Seq(S) /\ \A i \in 1..Len(table) : table[i] = RowOf(i)
  BY <1>2, <1>4 DEF TableGood
<1>6. PICK k \in Nat : k = Len(table)
  BY <1>5
<1>7. PICK i \in 1..36 : i = k + 1 /\ i <= n
  <2>1. k < n
    BY <1>1, <1>3, <1>6
  <2> QED BY <2>1
<1>8. PICK from, balance :
        /\ from = IF i = 1 THEN loan.disbursement_date ELSE table[i - 1].payment_date
        /\ balance = IF i = 1 THEN loan.value * Amo!instalments ELSE table[i - 1].final_balance
  OBVIOUS
<1>9. table' = Append(table,
               [from |-> from, payment_date |-> Amo!PaymentDate(i),
                interests |-> Amo!calculateInterests(loan.rate, balance, from, Amo!PaymentDate(i)),
                final_balance |-> balance - loan.value])
  BY <1>6, <1>7, <1>8, Zenon DEF Amo!AddRow
<1>10. from = FromOf(i) /\ balance = BalanceOf(i - 1) /\ balance - loan.value = BalanceOf(i)
  <2>1. PICK v \in Nat : v = loan.value
    BY <1>2 DEF LoanGood
  <2>2. BalanceOf(i) = v * (n - i) /\ BalanceOf(i - 1) = v * (n - (i - 1))
    BY <1>3, <2>1 DEF BalanceOf
  <2>3. v * (n - (i - 1)) - v = v * (n - i)
    OBVIOUS
  <2>4. CASE i = 1
    <3>1. from = FromOf(i) /\ balance = v * n
      BY <1>3, <1>8, <2>1, <2>4 DEF FromOf
    <3>2. v * (n - (i - 1)) = v * n
      BY <2>4
    <3> QED BY <2>1, <2>2, <2>3, <3>1, <3>2
  <2>5. CASE i # 1
    <3>1. i - 1 \in 1..Len(table)
      BY <1>6, <1>7, <2>5
    <3>2. table[i - 1] = RowOf(i - 1)
      BY <1>5, <3>1
    <3>3. from = Amo!PaymentDate(i - 1) /\ balance = BalanceOf(i - 1)
      BY <1>8, <2>5, <3>2 DEF RowOf
    <3> QED BY <2>1, <2>2, <2>3, <2>5, <3>3 DEF FromOf
  <2> QED BY <2>4, <2>5
<1>11. table' = Append(table, RowOf(i))
  BY <1>9, <1>10 DEF RowOf
<1>12. RowOf(i) \in S
  BY <1>4
<1>13. /\ table' \in Seq(S) /\ Len(table') = i
       /\ \A j \in 1..i : table'[j] = IF j = i THEN RowOf(i) ELSE table[j]
  <2>1. PICK row \in S : row = RowOf(i)
    BY <1>12
  <2>2. table' = Append(table, row)
    BY <1>11, <2>1
  <2> QED BY <1>5, <1>6, <1>7, <2>1, <2>2
<1>14. \A j \in 1..i : table'[j] = RowOf(j)
  <2> TAKE j \in 1..i
  <2>1. CASE j = i
    BY <1>13, <2>1
  <2>2. CASE j # i
    <3>1. j \in 1..Len(table)
      BY <1>6, <1>7, <2>2
    <3> QED BY <1>5, <1>13, <2>2, <3>1
  <2> QED BY <2>1, <2>2
<1>15. \A j : RowOf(j)' = RowOf(j)
  BY <1>1, RowStays
<1>16. LoanGood' /\ Amo!instalments' = n
  BY <1>1, <1>2, <1>3, LoanStays
<1>17. {RowOf(j)' : j \in 1..36} = S
  BY <1>4, <1>15
<1>18. TableGood'
  BY <1>7, <1>13, <1>14, <1>15, <1>16, <1>17 DEF TableGood
<1> QED BY <1>1, <1>16, <1>18 DEF AmoInv

LEMMA AmoSaveDetail ==
    ASSUME AmoInv, Amo!SaveDetail
    PROVE  AmoInv'
<1>1. /\ loan # Amo!None /\ Len(table) = Amo!instalments
      /\ loan' = loan /\ table' = table
  BY DEF Amo!SaveDetail
<1>2. LoanGood /\ TableGood
  BY <1>1 DEF AmoInv
<1>3. LoanGood'
  BY <1>1, <1>2, LoanStays
<1>4. TableGood'
  <2>1. \A j : RowOf(j)' = RowOf(j)
    BY <1>1, RowStays
  <2>2. {RowOf(j)' : j \in 1..36} = {RowOf(j) : j \in 1..36}
    BY <2>1
  <2>3. Amo!instalments' = Amo!instalments
    BY <1>1, LoanStays
  <2> QED BY <1>1, <1>2, <2>1, <2>2, <2>3 DEF TableGood
<1>5. DetailGood'
  <2>1. Amo!instalments' = Amo!instalments /\ Amo!Unit' = Amo!Unit
    BY <1>1, LoanStays
  <2>2. Amo!Sum' = Amo!Sum
    BY <1>1 DEF Amo!Sum, Amo!PaymentValue
  <2>3. /\ detail'.payday_limit = table[1].payment_date
        /\ detail'.interests = Amo!roundHalfEven(table[1].interests, Amo!Unit)
        /\ detail'.from_date = loan.disbursement_date
        /\ detail'.capital_balance = loan.value
        /\ detail'.total_payment = Amo!roundHalfEven(Amo!Sum[Amo!instalments], Amo!Unit)
    BY DEF Amo!SaveDetail
  <2> QED BY <1>1, <2>1, <2>2, <2>3 DEF DetailGood
<1> QED BY <1>1, <1>3, <1>4, <1>5 DEF AmoInv

LEMMA AmoStutter ==
    ASSUME AmoInv, loan' = loan, table' = table, detail' = detail
    PROVE  AmoInv'
<1>1. \A j : RowOf(j)' = RowOf(j)
  BY RowStays
<1>2. {RowOf(j)' : j \in 1..36} = {RowOf(j) : j \in 1..36}
  BY <1>1
<1>3. LoanGood' = LoanGood /\ Amo!instalments' = Amo!instalments /\ Amo!Unit' = Amo!Unit
  BY LoanStays
<1>4. TableGood => TableGood'
  BY <1>1, <1>2, <1>3 DEF TableGood
<1>5. Amo!Sum' = Amo!Sum
  BY DEF Amo!Sum, Amo!PaymentValue
<1>6. DetailGood => DetailGood'
  BY <1>3, <1>5 DEF DetailGood
<1> QED BY <1>3, <1>4, <1>6 DEF AmoInv

LEMMA AmoNext ==
    ASSUME Amo!ConstantsAssumption, AmoInv, [Amo!Next]_(Amo!vars)
    PROVE  AmoInv'
<1>1. CASE Amo!Apply
  BY <1>1, AmoApply
<1>2. CASE Amo!AddRow
  BY <1>2, AmoAddRow
<1>3. CASE Amo!SaveDetail
  BY <1>3, AmoSaveDetail
<1>4. CASE Amo!Project
  BY <1>4, AmoStutter DEF Amo!Project
<1>5. CASE UNCHANGED Amo!vars
  BY <1>5, AmoStutter DEF Amo!vars
<1> QED BY <1>1, <1>2, <1>3, <1>4, <1>5 DEF Amo!Next

-----------------------------------------------------------------------------
(* What the invariant says *)

LEMMA RowsAre ==
    ASSUME AmoInv, NEW i \in DOMAIN table
    PROVE  /\ LoanGood /\ TableGood
           /\ i \in 1..Amo!instalments /\ i \in 1..36
           /\ table[i] = RowOf(i)
<1>1. i \notin DOMAIN << >>
  OBVIOUS
<1>2. loan # Amo!None
  BY <1>1 DEF AmoInv
<1>3. LoanGood /\ TableGood
  BY <1>2 DEF AmoInv
<1>4. PICK S : table \in Seq(S) /\ Len(table) <= Amo!instalments /\ \A j \in 1..Len(table) : table[j] = RowOf(j)
  BY <1>3 DEF TableGood
<1>5. PICK k \in Nat : k = Len(table) /\ i \in 1..k
  BY <1>4
<1>6. PICK n \in 1..36 : n = Amo!instalments
  BY <1>3, HowMany
<1>7. k <= n
  BY <1>4, <1>5, <1>6
<1>8. i \in 1..n /\ i \in 1..36
  <2>1. i \in Nat /\ 1 <= i /\ i <= k
    BY <1>5
  <2>2. 1 <= i /\ i <= n
    BY <1>7, <2>1
  <2> QED BY <2>1, <2>2
<1> QED BY <1>3, <1>4, <1>5, <1>6, <1>8

LEMMA SameDay ==
    ASSUME AmoInv
    PROVE  Amo!SameDayEveryMonth
<1>1. SUFFICES ASSUME NEW i \in DOMAIN table
               PROVE  LET paid == table[i].payment_date IN
                      /\ \/ paid.day = loan.disbursement_date.day
                         \/ paid.day < loan.disbursement_date.day /\ Amo!isLastDay(paid)
                      /\ 12 * paid.year + paid.month = 12 * loan.disbursement_date.year + loan.disbursement_date.month
                                                       + IF loan.fee = Amo!FEE_MONTHLY THEN i ELSE loan.timelimit
                      /\ Amo!compare(paid, table[i].from) > 0
  BY DEF Amo!SameDayEveryMonth
<1>2. LoanGood /\ i \in 1..Amo!instalments /\ i \in 1..36 /\ table[i] = RowOf(i)
  BY RowsAre
<1>3. PICK d : d = loan.disbursement_date /\ Amo!IsDate(d)
  BY <1>2 DEF LoanGood
<1>4. PICK p : p = table[i].payment_date
  OBVIOUS
<1>5. p = Amo!PaymentDate(i) /\ table[i].from = FromOf(i)
  BY <1>2, <1>4 DEF RowOf
<1>6. Amo!compare(p, table[i].from) > 0
  BY <1>2, <1>5, RowGood
<1>7. Clamped(d, p) /\ MonthOf(p) = MonthOf(d) + Place(i)
  BY <1>2, <1>3, <1>5, PaymentDateIs
<1>8. 12 * p.year + p.month = 12 * d.year + d.month + Place(i)
  BY <1>7 DEF MonthOf
<1>9. p.day = d.day \/ (p.day < d.day /\ Amo!isLastDay(p))
  <2>1. PICK day \in 1..31 : day = d.day
    BY <1>3, DateIs
  <2>2. p.year \in Int /\ p.month \in 1..12
    BY <1>7 DEF Clamped
  <2>3. PICK last \in 28..31 : last = Amo!daysInMonth(p.year, p.month)
    BY <2>2, MonthLengths
  <2>4. p.day = IF day < last THEN day ELSE last
    BY <1>7, <2>1, <2>3 DEF Clamped
  <2> QED BY <2>1, <2>3, <2>4 DEF Amo!isLastDay
<1> QED BY <1>3, <1>4, <1>6, <1>8, <1>9 DEF Place

LEMMA ThirtyDays ==
    ASSUME AmoInv
    PROVE  Amo!NeverMoreThanThirtyDays
<1>1. SUFFICES ASSUME NEW i \in DOMAIN table
               PROVE  /\ Amo!days360(table[i].from, table[i].payment_date) \in 30 * Gap - 2 .. 30 * Gap
                      /\ Amo!days360(table[i].from, table[i].payment_date) < 30 * Gap
                            => 2 \in {table[i].from.month, table[i].payment_date.month}
  BY Zenon DEF Amo!NeverMoreThanThirtyDays, Gap
<1>2. LoanGood /\ i \in 1..Amo!instalments /\ table[i] = RowOf(i)
  BY RowsAre
<1>3. table[i].payment_date = Amo!PaymentDate(i) /\ table[i].from = FromOf(i)
  BY <1>2 DEF RowOf
<1> QED BY <1>2, <1>3, RowGood

LEMMA Figures ==
    ASSUME AmoInv
    PROVE  Amo!FiguresAgree
<1>1. SUFFICES ASSUME detail # Amo!None
               PROVE  /\ Amo!Projected(detail.payday_limit) = detail.interests
                      /\ table[Amo!instalments].final_balance = 0
                      /\ \A t \in loan.timelimit .. Amo!MAX_TIMELIMIT : Amo!getRate(t) >= loan.rate
                      /\ detail.total_payment >= loan.value + detail.interests - 1
  BY DEF Amo!FiguresAgree
<1>2. DetailGood
  BY <1>1 DEF AmoInv
<1>3. LoanGood /\ TableGood
  BY <1>1 DEF AmoInv
<1>4. PICK n \in 1..36 : n = Amo!instalments
  BY <1>3, HowMany
<1>5. Len(table) = n /\ \A i \in 1..n : table[i] = RowOf(i)
  BY <1>2, <1>3, <1>4 DEF DetailGood, TableGood
<1>6. 1 \in 1..n /\ n \in 1..n
  OBVIOUS
<1>7. PICK v \in Nat : v = loan.value
  BY <1>3 DEF LoanGood
<1>8. PICK whole \in Nat :
        /\ whole = Amo!calculateInterests(loan.rate, loan.value, FromOf(1), Amo!PaymentDate(1))
        /\ RowOf(1).interests = n * whole
  BY <1>3, <1>4, <1>6, InterestsAre
<1>9. table[1].interests = n * whole /\ table[1].payment_date = Amo!PaymentDate(1)
  BY <1>5, <1>6, <1>8 DEF RowOf
<1>10. Amo!Unit = n * 30000
  BY <1>4 DEF Amo!Unit
<1>11. detail.interests = Amo!roundHalfEven(n * whole, n * 30000)
  BY <1>2, <1>9, <1>10 DEF DetailGood
<1>12. detail.interests = Amo!roundHalfEven(whole, 30000)
  BY <1>11, RoundedScaled
<1>13. Amo!Projected(detail.payday_limit) = Amo!roundHalfEven(whole, 30000)
  <2>1. detail.capital_balance = loan.value /\ detail.from_date = FromOf(1) /\ detail.payday_limit = Amo!PaymentDate(1)
    BY <1>2, <1>9 DEF DetailGood, FromOf
  <2> QED BY <1>8, <2>1 DEF Amo!Projected
<1>14. table[Amo!instalments].final_balance = 0
  <2>1. table[n] = RowOf(n)
    BY <1>5, <1>6
  <2>2. RowOf(n).final_balance = v * (n - n)
    BY <1>4, <1>7 DEF RowOf, BalanceOf
  <2> QED BY <1>4, <2>1, <2>2
<1>15. \A t \in loan.timelimit .. Amo!MAX_TIMELIMIT : Amo!getRate(t) >= loan.rate
  BY <1>3, RatesRise DEF LoanGood, Amo!MAX_TIMELIMIT
<1>16. PICK c \in Nat : c = 30000 * v
  OBVIOUS
<1>17. PICK a \in Nat : a = n * whole
  BY NatTimes
<1>18. \A i \in 1..n : Amo!PaymentValue(i) \in Nat /\ Amo!PaymentValue(i) >= c
  <2> TAKE i \in 1..n
  <2>1. PICK x \in Nat : x = table[i].interests
    BY <1>3, <1>4, <1>5, InterestsAre
  <2>2. Amo!PaymentValue(i) = c + x
    BY <1>7, <1>16, <2>1 DEF Amo!PaymentValue
  <2> QED BY <2>2
<1>19. Amo!PaymentValue(1) = c + a
  BY <1>7, <1>9, <1>16, <1>17 DEF Amo!PaymentValue
<1>20. Adds(Amo!Sum, n)
  <2>1. \A i \in 1..n : Amo!PaymentValue(i) \in Int
    BY <1>18
  <2> QED BY <1>5, <2>1, SumIs
<1>21. Amo!Sum[n] \in Nat /\ Amo!Sum[n] >= n * c + a
  <2>1. PICK f : f = Amo!Sum
    OBVIOUS
  <2>2. Adds(f, n)
    BY <1>20, <2>1
  <2>3. n \in Nat \ {0}
    OBVIOUS
  <2>4. f[n] \in Nat /\ f[n] >= n * c + a
    BY <1>18, <1>19, <2>2, <2>3, SumAtLeast
  <2> QED BY <2>1, <2>4
<1>22. PICK s \in Nat : s = Amo!Sum[n]
  BY <1>21
<1>23. s >= (n * 30000) * v + a
  <2>1. n * c = (n * 30000) * v
    BY <1>16
  <2> QED BY <1>21, <1>22, <2>1
<1>24. PICK U \in Nat \ {0} : U = n * 30000
  OBVIOUS
<1>25. Amo!roundHalfEven(s, U) >= v + Amo!roundHalfEven(a, U) - 1
  BY <1>23, <1>24, PaidInFull
<1>26. detail.total_payment = Amo!roundHalfEven(s, U)
  BY <1>2, <1>4, <1>10, <1>22, <1>24 DEF DetailGood
<1>27. detail.interests = Amo!roundHalfEven(a, U)
  BY <1>11, <1>17, <1>24
<1>28. detail.total_payment >= loan.value + detail.interests - 1
  BY <1>7, <1>25, <1>26, <1>27
<1> QED BY <1>12, <1>13, <1>14, <1>15, <1>28

\* A loan's figures agree: each payment is due on the day of the loan or the
\* month's last, later than the one before it and for at most 30 days a month;
\* what was rounded for the detail is what a projection gives; the payments come
\* to the loan and its first interests. For any values, dates and terms.
THEOREM FiguresOfALoan ==
    ASSUME Amo!ConstantsAssumption
    PROVE  Amo!Spec => [](Amo!SameDayEveryMonth /\ Amo!NeverMoreThanThirtyDays /\ Amo!FiguresAgree)
<1>1. Amo!Init => AmoInv
  BY AmoInit
<1>2. AmoInv /\ [Amo!Next]_(Amo!vars) => AmoInv'
  BY AmoNext
<1>3. AmoInv => Amo!SameDayEveryMonth /\ Amo!NeverMoreThanThirtyDays /\ Amo!FiguresAgree
  BY SameDay, ThirtyDays, Figures
<1> QED BY <1>1, <1>2, <1>3, PTL DEF Amo!Spec

-----------------------------------------------------------------------------
(* Birthdays *)

-----------------------------------------------------------------------------
(* Days as numbers *)

Days == [year : Nat, month : 1..12, day : 1..31]
Num(d) == 10000 * d.year + 100 * d.month + d.day

LEMMA NumIs ==
    ASSUME NEW a \in Days, NEW b \in Days
    PROVE  /\ Bir!compare(a, b) \in Int
           /\ Bir!compare(a, b) < 0 <=> Num(a) < Num(b)
           /\ Bir!compare(a, b) > 0 <=> Num(a) > Num(b)
           /\ Bir!compare(a, b) = 0 <=> Num(a) = Num(b)
           /\ a = b <=> Num(a) = Num(b)
<1>1. PICK y \in Nat, m \in 1..12, d \in 1..31 : y = a.year /\ m = a.month /\ d = a.day
  BY DEF Days
<1>2. PICK z \in Nat, n \in 1..12, e \in 1..31 : z = b.year /\ n = b.month /\ e = b.day
  BY DEF Days
<1>3. Num(a) = 10000 * y + 100 * m + d /\ Num(b) = 10000 * z + 100 * n + e
  BY <1>1, <1>2 DEF Num
<1>4. Bir!compare(a, b) = IF y # z THEN y - z ELSE IF m # n THEN m - n ELSE d - e
  BY <1>1, <1>2 DEF Bir!compare
<1>5. a = b <=> y = z /\ m = n /\ d = e
  BY <1>1, <1>2 DEF Days
<1>6. Num(a) = Num(b) <=> y = z /\ m = n /\ d = e
  BY <1>3
<1> QED BY <1>3, <1>4, <1>5, <1>6

LEMMA FebruaryIs ==
    ASSUME NEW y \in Nat
    PROVE  /\ Bir!daysInMonth(y, 2) = IF Bir!isLeapYear(y) THEN 29 ELSE 28
           /\ Bir!daysInMonth(y, 2) \in {28, 29}
           /\ Bir!daysInMonth(y, 3) = 31
BY DEF Bir!daysInMonth

\* How utcDays counts: the March years c of 400, the p-th day of one.
Begins(c) == 365 * c + c \div 4 - c \div 100

LEMMA BeginsAt ==
    ASSUME NEW a \in 0..3, NEW q \in 0..24, NEW s \in 0..3
    PROVE  LET c == 100 * a + 4 * q + s
           IN  Begins(c) = 36524 * a + 1461 * q + 365 * s
<1>1. PICK c \in 0..399 : c = 100 * a + 4 * q + s
  OBVIOUS
<1>2. c \div 4 = 25 * a + q
  BY <1>1
<1>3. c \div 100 = a
  BY <1>1
<1> QED BY <1>1, <1>2, <1>3 DEF Begins

\* The n-th day of 400 years is the p-th of a year of theirs, and which.
DayIn(n, a, q, s, p) ==
    /\ a \in 0..3 /\ q \in 0..24 /\ s \in 0..3 /\ p \in 0..365
    /\ n \in Nat /\ n = 36524 * a + 1461 * q + 365 * s + p
    /\ p = 365 => s = 3 /\ (q < 24 \/ a = 3)
YearIn(n) == (n - n \div 1460 + n \div 36524 - n \div 146096) \div 365

LEMMA YearFound ==
    ASSUME NEW n, NEW a, NEW q, NEW s, NEW p, DayIn(n, a, q, s, p)
    PROVE  YearIn(n) = 100 * a + 4 * q + s
<1> USE DEF DayIn
<1>1. PICK rest \in Nat : rest = 1461 * q + 365 * s + p
  OBVIOUS
<1>2. rest <= 36524 /\ (rest = 36524 => a = 3)
  BY <1>1
<1>3. n = 36524 * a + rest
  BY <1>1
<1>4. n \div 36524 - n \div 146096 = a
  <2>1. CASE rest < 36524
    <3>1. n \div 36524 = a /\ n < 146096
      BY <1>3, <2>1
    <3> QED BY <3>1
  <2>2. CASE rest = 36524
    <3>1. n = 146096
      BY <1>2, <1>3, <2>2
    <3> QED BY <1>2, <2>2, <3>1
  <2> QED BY <1>2, <2>1, <2>2
<1>5. PICK over \in Nat : over = 24 * a + q + 365 * s + p
  OBVIOUS
<1>6. n = 1460 * (25 * a + q) + over /\ over < 2 * 1460
  BY <1>5
<1>7. PICK extra \in {0, 1} : /\ extra = IF over >= 1460 THEN 1 ELSE 0
                              /\ n \div 1460 = 25 * a + q + extra
  BY <1>6
<1>8. extra = 1 => p >= 1
  BY <1>5, <1>7
<1>9. p = 365 => extra = 1
  BY <1>5, <1>7
<1>10. n - (25 * a + q + extra) + a = 365 * (100 * a + 4 * q + s) + (p - extra)
  OBVIOUS
<1>11. p - extra \in 0..364
  BY <1>8, <1>9
<1>12. PICK t \in Int : t = n - n \div 1460 + n \div 36524 - n \div 146096
  OBVIOUS
<1>13. PICK c \in Nat : c = 100 * a + 4 * q + s
  OBVIOUS
<1>14. PICK g \in 0..364 : g = p - extra
  BY <1>11
<1>15. t = 365 * c + g
  BY <1>4, <1>7, <1>10, <1>12, <1>13, <1>14
<1>16. t \div 365 = c
  BY <1>15
<1> QED BY <1>12, <1>13, <1>16 DEF YearIn

\* The p-th day of a March year as utcDays has it, and found back.
DayNo(y, p) == 365 * y + y \div 4 - y \div 100 + y \div 400 + p
DayOf(y, p) ==
    LET m == (5 * p + 2) \div 153
    IN  Bir!Date(IF m < 10 THEN y ELSE y + 1, IF m < 10 THEN m + 3 ELSE m - 9,
             p - (153 * m + 2) \div 5 + 1)

LEMMA DayFound ==
    ASSUME NEW y \in Nat, NEW p \in 0..365, p = 365 => Bir!isLeapYear(y + 1)
    PROVE  Bir!fromDateColumn(DayNo(y, p)) = DayOf(y, p)
<1>1. PICK e \in Nat, c \in 0..399 : y = 400 * e + c
  <2>1. y = 400 * (y \div 400) + (y % 400) /\ y \div 400 \in Nat /\ y % 400 \in 0..399
    OBVIOUS
  <2> QED BY <2>1
<1>2. PICK a \in 0..3, b \in 0..99 : c = 100 * a + b
  <2>1. c = 100 * (c \div 100) + (c % 100) /\ c \div 100 \in 0..3 /\ c % 100 \in 0..99
    OBVIOUS
  <2> QED BY <2>1
<1>3. PICK q \in 0..24, s \in 0..3 : b = 4 * q + s
  <2>1. b = 4 * (b \div 4) + (b % 4) /\ b \div 4 \in 0..24 /\ b % 4 \in 0..3
    OBVIOUS
  <2> QED BY <2>1
<1>4. c = 100 * a + 4 * q + s
  BY <1>2, <1>3
<1>5. PICK n \in Nat : n = 365 * y + y \div 4 - y \div 100 + y \div 400 + p
  <2>1. y \div 100 <= 365 * y /\ y \div 4 >= 0 /\ y \div 400 >= 0
    OBVIOUS
  <2> QED BY <2>1
<1>6. PICK inEra \in Nat : inEra = 36524 * a + 1461 * q + 365 * s + p
  OBVIOUS
<1>7. n = 146097 * e + inEra
  <2>1. y \div 400 = e
    BY <1>1
  <2>2. y \div 100 = 4 * e + a
    BY <1>1, <1>2
  <2>3. y \div 4 = 100 * e + 25 * a + q
    BY <1>1, <1>4
  <2> QED BY <1>1, <1>4, <1>5, <1>6, <2>1, <2>2, <2>3
<1>8. p = 365 => s = 3 /\ (q < 24 \/ a = 3)
  <2> SUFFICES ASSUME p = 365
               PROVE  s = 3 /\ (q < 24 \/ a = 3)
    OBVIOUS
  <2>1. y + 1 = 400 * e + 100 * a + 4 * q + s + 1
    BY <1>1, <1>4
  <2>2. (y + 1) % 4 = 0 /\ ((y + 1) % 100 # 0 \/ (y + 1) % 400 = 0)
    BY DEF Bir!isLeapYear
  <2>3. s = 3
    BY <2>1, <2>2
  <2>4. q = 24 => (y + 1) = 400 * e + 100 * (a + 1)
    BY <2>1, <2>3
  <2>5. q = 24 => (y + 1) % 100 = 0
    BY <2>4
  <2>6. q = 24 => (y + 1) % 400 = 0
    BY <2>2, <2>5
  <2>7. q = 24 => a = 3
    BY <2>4, <2>6
  <2> QED BY <2>3, <2>7
<1>9. inEra < 146097
  BY <1>6, <1>8
<1>10. n % 146097 = inEra /\ n \div 146097 = e
  BY <1>7, <1>9
<1>11. YearIn(inEra) = c
  <2>1. DayIn(inEra, a, q, s, p)
    BY <1>6, <1>8 DEF DayIn
  <2> QED BY <1>4, <2>1, YearFound
<1>12. inEra - (365 * c + c \div 4 - c \div 100) = p
  <2>1. Begins(c) = 36524 * a + 1461 * q + 365 * s
    BY <1>4, BeginsAt
  <2> QED BY <1>6, <2>1 DEF Begins
<1>13. PICK m \in Int : m = (5 * p + 2) \div 153
  OBVIOUS
<1>14. c + 400 * e = y
  BY <1>1
<1>15. Bir!fromDateColumn(n) = Bir!Date(IF m < 10 THEN y ELSE y + 1, IF m < 10 THEN m + 3 ELSE m - 9,
                                p - (153 * m + 2) \div 5 + 1)
  BY <1>10, <1>11, <1>12, <1>13, <1>14 DEF Bir!fromDateColumn, YearIn
<1> QED BY <1>5, <1>13, <1>15 DEF DayNo, DayOf

-----------------------------------------------------------------------------
(* The days looked at, and what follows each *)

Looked(d) ==
    /\ d \in Days
    /\ \/ d.month = 2 /\ d.day \in 26..Bir!daysInMonth(d.year, 2)
       \/ d.month = 3 /\ d.day \in 1..3

LEMMA DayAfterIs ==
    ASSUME NEW d, Looked(d), d.year > 0, ~(d.month = 3 /\ d.day = 3)
    PROVE  Bir!DayAfter(d) = IF d.month = 2 /\ d.day = Bir!daysInMonth(d.year, 2)
                         THEN Bir!Date(d.year, 3, 1) ELSE Bir!Date(d.year, d.month, d.day + 1)
<1>1. PICK z \in Nat, m \in {2, 3}, day \in 1..31 : z = d.year /\ m = d.month /\ day = d.day
  BY DEF Looked, Days
<1>2. PICK y \in Nat : z = y + 1
  <2>1. z > 0
    BY <1>1
  <2>2. z - 1 \in Nat /\ z = (z - 1) + 1
    BY <2>1
  <2> QED BY <2>2
<1>3. PICK last \in {28, 29} : last = Bir!daysInMonth(z, 2) /\ last = IF Bir!isLeapYear(z) THEN 29 ELSE 28
  BY FebruaryIs
<1>4. (m = 2 /\ day \in 26..last) \/ (m = 3 /\ day \in 1..2)
  BY <1>1, <1>3 DEF Looked
<1>5. Bir!addMonths(d, 0) = Bir!Date(z, m, day)
  <2>1. PICK months \in Int : months = 12 * z + m - 1
    OBVIOUS
  <2>2. months \div 12 = z /\ (months % 12) + 1 = m
    BY <2>1
  <2>3. Bir!daysInMonth(z, m) >= day
    BY <1>3, <1>4, FebruaryIs
  <2>4. PICK end \in 28..31 : end = Bir!daysInMonth(z, m)
    BY <1>3, <1>4, FebruaryIs
  <2>5. (IF day < end THEN day ELSE end) = day
    BY <2>3, <2>4
  <2>6. Bir!addMonths(d, 0) = Bir!Date(z, m, IF day < end THEN day ELSE end)
    BY <1>1, <2>1, <2>2, <2>4 DEF Bir!addMonths
  <2> QED BY <2>5, <2>6
<1>6. Bir!DayAfter(d) = Bir!fromDateColumn(Bir!utcDays(Bir!Date(z, m, day)) + 1)
  <2>1. PICK delta : delta = [Bir!NoDelta EXCEPT !.days = 1]
    OBVIOUS
  <2>2. delta.years = 0 /\ delta.months = 0 /\ delta.weeks = 0 /\ delta.days = 1
    BY <2>1 DEF Bir!NoDelta
  <2>3. Bir!addRelativeDelta(d, delta) = Bir!fromDateColumn(Bir!utcDays(Bir!addMonths(d, 0)) + 1)
    BY <2>2 DEF Bir!addRelativeDelta
  <2> QED BY <1>5, <2>1, <2>3 DEF Bir!DayAfter
<1>7. CASE m = 2
  <2>1. Bir!utcDays(Bir!Date(z, m, day)) = 365 * y + y \div 4 - y \div 100 + y \div 400 + 337 + day - 1
    BY <1>2, <1>7 DEF Bir!utcDays, Bir!Date
  <2>2. CASE day < last
    <3>1. PICK p \in 363..365 : p = 337 + day
      BY <1>4, <1>7, <2>2
    <3>2. p = 365 => Bir!isLeapYear(y + 1)
      BY <1>2, <1>3, <2>2, <3>1
    <3>3. Bir!fromDateColumn(DayNo(y, p)) = DayOf(y, p)
      BY <3>2, DayFound
    <3>4. (5 * p + 2) \div 153 = 11
      OBVIOUS
    <3>5. DayOf(y, p) = Bir!Date(y + 1, 2, p - 337 + 1)
      BY <3>4 DEF DayOf
    <3>6. Bir!utcDays(Bir!Date(z, m, day)) + 1 = DayNo(y, p)
      BY <2>1, <3>1 DEF DayNo
    <3>7. Bir!DayAfter(d) = Bir!Date(z, 2, day + 1)
      BY <1>2, <1>6, <3>1, <3>3, <3>5, <3>6
    <3> QED BY <1>1, <1>3, <1>7, <2>2, <3>7
  <2>3. CASE day = last
    <3>1. Bir!utcDays(Bir!Date(z, m, day)) + 1 = DayNo(z, 0)
      <4>1. Bir!isLeapYear(z) => z \div 4 - z \div 100 + z \div 400 = y \div 4 - y \div 100 + y \div 400 + 1
        BY <1>2 DEF Bir!isLeapYear
      <4>2. ~Bir!isLeapYear(z) => z \div 4 - z \div 100 + z \div 400 = y \div 4 - y \div 100 + y \div 400
        BY <1>2 DEF Bir!isLeapYear
      <4> QED BY <1>2, <1>3, <2>1, <2>3, <4>1, <4>2 DEF DayNo
    <3>2. Bir!fromDateColumn(DayNo(z, 0)) = DayOf(z, 0)
      BY DayFound
    <3>3. DayOf(z, 0) = Bir!Date(z, 3, 1)
      BY DEF DayOf
    <3>4. Bir!DayAfter(d) = Bir!Date(z, 3, 1)
      BY <1>6, <3>1, <3>2, <3>3
    <3> QED BY <1>1, <1>3, <1>7, <2>3, <3>4
  <2> QED BY <1>3, <1>4, <1>7, <2>2, <2>3
<1>8. CASE m = 3
  <2>1. Bir!utcDays(Bir!Date(z, m, day)) = 365 * z + z \div 4 - z \div 100 + z \div 400 + day - 1
    BY <1>8 DEF Bir!utcDays, Bir!Date
  <2>2. PICK p \in {1, 2} : p = day
    BY <1>4, <1>8
  <2>3. Bir!fromDateColumn(DayNo(z, p)) = DayOf(z, p)
    BY DayFound
  <2>4. (5 * p + 2) \div 153 = 0
    OBVIOUS
  <2>5. DayOf(z, p) = Bir!Date(z, 3, p + 1)
    BY <2>4 DEF DayOf
  <2>6. Bir!utcDays(Bir!Date(z, m, day)) + 1 = DayNo(z, p)
    BY <2>1, <2>2 DEF DayNo
  <2>7. Bir!DayAfter(d) = Bir!Date(z, 3, day + 1)
    BY <1>6, <2>2, <2>3, <2>5, <2>6
  <2> QED BY <1>1, <1>8, <2>7
<1> QED BY <1>7, <1>8

LEMMA NumAfter ==
    ASSUME NEW d, Looked(d), d.year > 0, ~(d.month = 3 /\ d.day = 3)
    PROVE  /\ Looked(Bir!DayAfter(d)) /\ Bir!DayAfter(d).year = d.year
           /\ Num(Bir!DayAfter(d)) > Num(d)
           /\ \A e : Looked(e) /\ Num(e) > Num(d) => Num(e) >= Num(Bir!DayAfter(d))
<1>1. PICK y \in Nat, m \in {2, 3}, day \in 1..31 : y = d.year /\ m = d.month /\ day = d.day
  BY DEF Looked, Days
<1>2. PICK last \in {28, 29} : last = Bir!daysInMonth(y, 2)
  BY FebruaryIs
<1>3. (m = 2 /\ day \in 26..last) \/ (m = 3 /\ day \in 1..2)
  BY <1>1, <1>2 DEF Looked
<1>4. PICK a : a = Bir!DayAfter(d)
  OBVIOUS
<1>5. a = IF m = 2 /\ day = last THEN Bir!Date(y, 3, 1) ELSE Bir!Date(y, m, day + 1)
  BY <1>1, <1>2, <1>4, DayAfterIs
<1>6. PICK n \in {2, 3}, next \in 1..31 :
        /\ a = Bir!Date(y, n, next)
        /\ IF m = 2 /\ day = last THEN n = 3 /\ next = 1 ELSE n = m /\ next = day + 1
  <2>1. CASE m = 2 /\ day = last
    BY <1>5, <2>1
  <2>2. CASE ~(m = 2 /\ day = last)
    <3>1. day + 1 \in 1..31
      BY <1>3
    <3> QED BY <1>5, <2>2, <3>1
  <2> QED BY <2>1, <2>2
<1>7. a.year = y /\ a.month = n /\ a.day = next /\ a \in Days
  BY <1>6 DEF Bir!Date, Days
<1>8. (n = 2 /\ next \in 26..last) \/ (n = 3 /\ next \in 1..3)
  BY <1>3, <1>6
<1>9. Looked(a)
  BY <1>2, <1>7, <1>8 DEF Looked
<1>10. Num(d) = 10000 * y + 100 * m + day /\ Num(a) = 10000 * y + 100 * n + next
  BY <1>1, <1>7 DEF Num
<1>11. Num(a) > Num(d)
  BY <1>3, <1>6, <1>10
<1>12. ASSUME NEW e, Looked(e), Num(e) > Num(d)
       PROVE  Num(e) >= Num(a)
  <2>1. PICK z \in Nat, o \in {2, 3}, f \in 1..31 : z = e.year /\ o = e.month /\ f = e.day
    BY <1>12 DEF Looked, Days
  <2>2. Num(e) = 10000 * z + 100 * o + f
    BY <2>1 DEF Num
  <2>3. (o = 2 /\ f <= Bir!daysInMonth(z, 2)) \/ (o = 3 /\ f \in 1..3)
    <3>1. Bir!daysInMonth(z, 2) \in {28, 29}
      BY FebruaryIs
    <3> QED BY <1>12, <2>1, <3>1 DEF Looked
  <2>4. CASE z = y
    <3>1. o = 2 => f <= last
      BY <1>2, <2>3, <2>4
    <3> QED BY <1>3, <1>6, <1>10, <1>12, <2>2, <2>4, <3>1
  <2>5. CASE z # y
    BY <1>3, <1>6, <1>8, <1>10, <1>12, <2>2, <2>3, <2>5
  <2> QED BY <2>4, <2>5
<1>13. Bir!DayAfter(d).year = d.year
  BY <1>1, <1>4, <1>7
<1>14. Looked(Bir!DayAfter(d)) /\ Num(Bir!DayAfter(d)) > Num(d)
  BY <1>4, <1>9, <1>11
<1>15. \A e : Looked(e) /\ Num(e) > Num(d) => Num(e) >= Num(Bir!DayAfter(d))
  BY <1>4, <1>12
<1> QED BY <1>13, <1>14, <1>15

-----------------------------------------------------------------------------
(* The birthdays *)

BirthdateGood == birthdate \in Birthdates

LEMMA BirthdateIs ==
    ASSUME Bir!ConstantsAssumption, BirthdateGood
    PROVE  \E m \in {2, 3}, day \in 1..31 :
             /\ m = birthdate.month /\ day = birthdate.day
             /\ (m = 2 /\ day \in 26..29) \/ (m = 3 /\ day = 1)
BY DEF Bir!ConstantsAssumption, BirthdateGood

\* Where the rows of a year may be.
InBase(r, y) ==
    \/ r = Bir!birthdayInYear(y)
    \/ birthdate.day = 29 /\ r = Bir!Date(y, 2, 28)

LEMMA BirthdayIs ==
    ASSUME Bir!ConstantsAssumption, BirthdateGood, NEW y \in Nat, NEW r, InBase(r, y)
    PROVE  /\ Looked(Bir!birthdayInYear(y)) /\ Bir!birthdayInYear(y).year = y
           /\ Num(Bir!birthdayInYear(y)) \in 10000 * y + 226 .. 10000 * y + 301
           /\ Looked(r) /\ r.year = y
           /\ Num(r) \in 10000 * y + 226 .. Num(Bir!birthdayInYear(y))
           /\ InBase(Bir!nextRepeatRunDate(r, Bir!YEARLY), y + 1)
<1>1. PICK m \in {2, 3}, day \in 1..31 :
             /\ m = birthdate.month /\ day = birthdate.day
             /\ (m = 2 /\ day \in 26..29) \/ (m = 3 /\ day = 1)
  BY BirthdateIs
<1>2. PICK last \in {28, 29} : last = Bir!daysInMonth(y, 2) /\ last = IF Bir!isLeapYear(y) THEN 29 ELSE 28
  BY FebruaryIs
<1>3. PICK b : b = Bir!birthdayInYear(y)
  OBVIOUS
<1>4. b = Bir!Date(y, m, IF m = 2 /\ day = 29 THEN last ELSE day)
  BY <1>1, <1>2, <1>3 DEF Bir!birthdayInYear
<1>5. PICK on \in 1..31 : on = IF m = 2 /\ day = 29 THEN last ELSE day
  OBVIOUS
<1>6. b.year = y /\ b.month = m /\ b.day = on /\ b \in Days
  BY <1>4, <1>5 DEF Bir!Date, Days
<1>7. (m = 2 /\ on \in 26..last) \/ (m = 3 /\ on = 1)
  BY <1>1, <1>5
<1>8. Looked(b)
  BY <1>2, <1>6, <1>7 DEF Looked
<1>9. Num(b) = 10000 * y + 100 * m + on
  BY <1>6 DEF Num
<1>10. Num(b) \in 10000 * y + 226 .. 10000 * y + 301
  BY <1>7, <1>9
<1>11. PICK from \in 1..31 : r = Bir!Date(y, m, from) /\ (from = on \/ (day = 29 /\ from = 28))
  <2>1. CASE r = b
    BY <1>4, <1>5, <2>1
  <2>2. CASE birthdate.day = 29 /\ r = Bir!Date(y, 2, 28)
    BY <1>1, <2>2
  <2> QED BY <1>3, <2>1, <2>2 DEF InBase
<1>12. r.year = y /\ r.month = m /\ r.day = from /\ r \in Days
  BY <1>11 DEF Bir!Date, Days
<1>13. from <= on /\ ((m = 2 /\ from \in 26..last) \/ (m = 3 /\ from = 1))
  BY <1>1, <1>5, <1>7, <1>11
<1>14. Looked(r)
  BY <1>2, <1>12, <1>13 DEF Looked
<1>15. Num(r) = 10000 * y + 100 * m + from
  BY <1>12 DEF Num
<1>16. Num(r) \in 10000 * y + 226 .. Num(b)
  BY <1>9, <1>13, <1>15
<1>17. PICK next \in {28, 29} : next = Bir!daysInMonth(y + 1, 2) /\ next = IF Bir!isLeapYear(y + 1) THEN 29 ELSE 28
  BY FebruaryIs
<1>18. PICK then : then = Bir!nextRepeatRunDate(r, Bir!YEARLY)
  OBVIOUS
<1>19. then = Bir!Date(y + 1, m, IF m = 2 /\ next < from THEN next ELSE from)
  <2>1. PICK delta : delta = [Bir!NoDelta EXCEPT !.years = 1]
    OBVIOUS
  <2>2. delta.years = 1 /\ delta.months = 0 /\ delta.weeks = 0 /\ delta.days = 0
    BY <2>1 DEF Bir!NoDelta
  <2>3. Bir!REPEAT_DELTAS(Bir!YEARLY) = delta
    BY <2>1 DEF Bir!REPEAT_DELTAS, Bir!YEARLY, Bir!DAILY, Bir!WEEKLY, Bir!MONTHLY
  <2>4. then = Bir!addMonths(r, 12)
    BY <1>18, <2>2, <2>3 DEF Bir!nextRepeatRunDate, Bir!addRelativeDelta
  <2>5. PICK months \in Int : months = 12 * y + m - 1 + 12
    OBVIOUS
  <2>6. months \div 12 = y + 1 /\ (months % 12) + 1 = m
    BY <2>5
  <2>7. PICK end \in 28..31 : end = Bir!daysInMonth(y + 1, m) /\ end = IF m = 2 THEN next ELSE 31
    BY <1>17, FebruaryIs
  <2>8. then = Bir!Date(y + 1, m, IF from < end THEN from ELSE end)
    BY <1>12, <2>4, <2>5, <2>6, <2>7 DEF Bir!addMonths
  <2>9. (IF from < end THEN from ELSE end) = IF m = 2 /\ next < from THEN next ELSE from
    BY <1>13, <2>7
  <2> QED BY <2>8, <2>9
<1>20. Bir!birthdayInYear(y + 1) = Bir!Date(y + 1, m, IF m = 2 /\ day = 29 THEN next ELSE day)
  BY <1>1, <1>17 DEF Bir!birthdayInYear
<1>21. InBase(then, y + 1)
  <2>1. CASE m = 2 /\ day = 29
    <3>1. from \in {28, 29}
      BY <1>5, <1>11, <2>1
    <3>2. then = Bir!Date(y + 1, 2, 28) \/ then = Bir!Date(y + 1, 2, next)
      BY <1>19, <2>1, <3>1
    <3> QED BY <1>1, <1>20, <2>1, <3>2 DEF InBase
  <2>2. CASE ~(m = 2 /\ day = 29)
    <3>1. from = day /\ (m = 2 => from <= 28)
      BY <1>1, <1>5, <1>11, <2>2
    <3>2. then = Bir!Date(y + 1, m, day)
      BY <1>19, <3>1
    <3> QED BY <1>20, <2>2, <3>2 DEF InBase
  <2> QED BY <2>1, <2>2
<1> QED BY <1>3, <1>6, <1>8, <1>10, <1>12, <1>14, <1>16, <1>18, <1>21

-----------------------------------------------------------------------------
(* The inductive invariant: where the row that has not run stands, against the *)
(* clock and against what was announced                                        *)

ThisYear == now.date.year
Birthday == Bir!birthdayInYear(ThisYear)
FirstPassRan == now.hour > 10 \/ (now.hour = 10 /\ now.passed)

\* This year's birthday had its first pass.
Over ==
    \/ Num(Birthday) < Num(now.date)
    \/ Num(Birthday) = Num(now.date) /\ FirstPassRan

Told(y) == \E i \in DOMAIN sent : sent[i].date.year = y

ClockGood ==
    /\ now \in [date : Days, hour : {9, 10, 12, 14, 15}, passed : BOOLEAN]
    /\ Looked(now.date) /\ ThisYear \in Years

SaveGood ==
    save # Bir!NotSaving =>
        \/ save.run = Birthday /\ Num(Birthday) >= Num(now.date)
        \/ save.run = Bir!birthdayInYear(ThisYear + 1) /\ Over

SentGood ==
    /\ sent \in Seq([date : Days, saves : Nat])
    /\ \A i \in DOMAIN sent :
          /\ sent[i].date \in Bir!Expected(sent[i].date.year)
          /\ sent[i].saves <= saves
    /\ \A i, j \in DOMAIN sent :
          i < j /\ sent[i].date.year = sent[j].date.year => sent[i].saves < sent[j].saves

\* Today's may wait after a pass only if it was saved for today after it, and
\* yesterday's only until the first pass.
Placed(r) ==
    /\ InBase(r, r.year) /\ r.year \in {ThisYear, ThisYear + 1}
    /\ r.year = ThisYear =>
          \/ Num(r) > Num(now.date)
          \/ Num(r) = Num(now.date) /\ (FirstPassRan => r = Birthday)
          \/ r = Birthday /\ now.date = Bir!DayAfter(r) /\ ~FirstPassRan

OneRow(r) ==
    /\ [run_date |-> r, processed |-> FALSE] \in tasks
    /\ \A t \in tasks : t.processed = TRUE \/ t = [run_date |-> r, processed |-> FALSE]

TaskRowGood(r) ==
    /\ Placed(r) /\ OneRow(r)
    /\ \A y \in Years : owed <= y /\ y < r.year => Told(y)
    /\ \A i \in DOMAIN sent : sent[i].saves = saves => sent[i].date.year < r.year

BirInv ==
    /\ BirthdateGood /\ ClockGood /\ SaveGood /\ SentGood
    /\ saves \in Nat /\ owed \in Nat
    /\ saves = 0 => tasks = {} /\ sent = <<>> /\ owed = 9999
    /\ saves > 0 => /\ \E t \in tasks : TaskRowGood(t.run_date)
                    /\ Over /\ owed <= ThisYear => Told(ThisYear)

-----------------------------------------------------------------------------
(* What does not change *)

LEMMA SameBirthdate ==
    ASSUME birthdate' = birthdate
    PROVE  /\ BirthdateGood' <=> BirthdateGood
           /\ \A y : Bir!birthdayInYear(y)' = Bir!birthdayInYear(y)
           /\ \A y : Bir!Expected(y)' = Bir!Expected(y)
           /\ \A r, y : InBase(r, y)' <=> InBase(r, y)
BY DEF BirthdateGood, Bir!birthdayInYear, Bir!Expected, InBase

LEMMA SameDate ==
    ASSUME birthdate' = birthdate, now'.date = now.date
    PROVE  /\ ThisYear' = ThisYear /\ Birthday' = Birthday
           /\ Num(Birthday)' = Num(Birthday) /\ Num(now.date)' = Num(now.date)
           /\ (FirstPassRan' <=> FirstPassRan) => /\ Over' <=> Over
                                                /\ \A r : Placed(r)' <=> Placed(r)
<1>1. ThisYear' = ThisYear /\ Birthday' = Birthday
  BY DEF ThisYear, Birthday, Bir!birthdayInYear
<1>2. Num(Birthday)' = Num(Birthday) /\ Num(now.date)' = Num(now.date)
  BY <1>1 DEF Num
<1>3. ASSUME FirstPassRan' <=> FirstPassRan
      PROVE  Over' <=> Over
  BY <1>2, <1>3 DEF Over
<1>4. ASSUME FirstPassRan' <=> FirstPassRan, NEW r
      PROVE  Placed(r)' <=> Placed(r)
  <2>1. InBase(r, r.year)' <=> InBase(r, r.year)
    BY SameBirthdate
  <2> QED BY <1>1, <1>2, <1>4, <2>1 DEF Placed
<1> QED BY <1>1, <1>2, <1>3, <1>4

LEMMA SameNow ==
    ASSUME birthdate' = birthdate, now' = now
    PROVE  /\ ClockGood' <=> ClockGood
           /\ ThisYear' = ThisYear /\ Birthday' = Birthday
           /\ FirstPassRan' <=> FirstPassRan
           /\ Over' <=> Over
           /\ \A r : Placed(r)' <=> Placed(r)
<1>1. FirstPassRan' <=> FirstPassRan
  BY DEF FirstPassRan
<1>2. ClockGood' <=> ClockGood
  BY DEF ClockGood, ThisYear
<1> QED BY <1>1, <1>2, SameDate

LEMMA SameSent ==
    ASSUME birthdate' = birthdate, sent' = sent
    PROVE  /\ \A y : Told(y)' <=> Told(y)
           /\ saves' = saves => (SentGood' <=> SentGood)
<1>1. \A y : Told(y)' <=> Told(y)
  BY DEF Told
<1>2. saves' = saves => (SentGood' <=> SentGood)
  BY SameBirthdate DEF SentGood
<1> QED BY <1>1, <1>2

LEMMA SameRow ==
    ASSUME birthdate' = birthdate, now' = now, sent' = sent,
           tasks' = tasks, saves' = saves, owed' = owed
    PROVE  \A r : TaskRowGood(r)' <=> TaskRowGood(r)
<1>1. \A r : OneRow(r)' <=> OneRow(r)
  BY DEF OneRow
<1> QED BY <1>1, SameNow, SameSent DEF TaskRowGood

\* What the clock and the birthdays are.
LEMMA Setting ==
    ASSUME Bir!ConstantsAssumption, BirthdateGood, ClockGood
    PROVE  \E y \in Nat, t \in Nat, b \in Nat, c \in Nat :
             /\ y = ThisYear /\ y > 0 /\ y <= 9998 /\ y \in Years
             /\ t = Num(now.date) /\ t \in 10000 * y + 226 .. 10000 * y + 303
             /\ b = Num(Birthday) /\ b \in 10000 * y + 226 .. 10000 * y + 301
             /\ c = Num(Bir!birthdayInYear(y + 1)) /\ c \in 10000 * y + 10226 .. 10000 * y + 10301
             /\ Looked(now.date) /\ Looked(Birthday) /\ Birthday.year = y
             /\ Bir!birthdayInYear(y + 1).year = y + 1
<1>1. PICK y \in Nat : y = ThisYear /\ y > 0 /\ y <= 9998 /\ y \in Years
  <2>1. ThisYear \in Years
    BY DEF ClockGood
  <2>2. ThisYear \in Nat /\ ThisYear > 0 /\ ThisYear <= 9998
    BY <2>1 DEF Bir!ConstantsAssumption
  <2> QED BY <2>1, <2>2
<1>2. Looked(now.date) /\ now.date.year = y
  BY <1>1 DEF ClockGood, ThisYear
<1>3. PICK m \in {2, 3}, day \in 1..31 : m = now.date.month /\ day = now.date.day
  BY <1>2 DEF Looked, Days
<1>4. (m = 2 /\ day \in 26..29) \/ (m = 3 /\ day \in 1..3)
  <2>1. Bir!daysInMonth(y, 2) \in {28, 29}
    BY FebruaryIs
  <2> QED BY <1>2, <1>3, <2>1 DEF Looked
<1>5. PICK t \in Nat : t = Num(now.date) /\ t \in 10000 * y + 226 .. 10000 * y + 303
  <2>1. Num(now.date) = 10000 * y + 100 * m + day
    BY <1>2, <1>3 DEF Num
  <2> QED BY <1>4, <2>1
<1>6. InBase(Birthday, y) /\ InBase(Bir!birthdayInYear(y + 1), y + 1) /\ Birthday = Bir!birthdayInYear(y)
  BY <1>1 DEF InBase, Birthday
<1>7. PICK b \in Nat : b = Num(Birthday) /\ b \in 10000 * y + 226 .. 10000 * y + 301
  BY <1>6, BirthdayIs
<1>8. Looked(Birthday) /\ Birthday.year = y
  BY <1>6, BirthdayIs
<1>9. PICK z \in Nat : z = y + 1
  OBVIOUS
<1>10. PICK c \in Nat : c = Num(Bir!birthdayInYear(z)) /\ c \in 10000 * z + 226 .. 10000 * z + 301
  BY <1>6, <1>9, BirthdayIs
<1>11. Bir!birthdayInYear(z).year = z
  BY <1>6, <1>9, BirthdayIs
<1>12. c \in 10000 * y + 10226 .. 10000 * y + 10301
  BY <1>9, <1>10
<1> QED BY <1>1, <1>2, <1>5, <1>7, <1>8, <1>9, <1>10, <1>11, <1>12

\* An unprocessed row's number.
LEMMA PlacedIs ==
    ASSUME Bir!ConstantsAssumption, BirthdateGood, ClockGood, NEW r, Placed(r)
    PROVE  \E n \in Nat, z \in Nat :
             /\ n = Num(r) /\ z = r.year /\ z \in {ThisYear, ThisYear + 1}
             /\ r \in Days /\ Looked(r) /\ InBase(r, z)
             /\ n \in 10000 * z + 226 .. 10000 * z + 301
             /\ z = ThisYear => n <= Num(Birthday)
<1>1. PICK y \in Nat : y = ThisYear
  BY Setting
<1>2. PICK z \in Nat : z = r.year /\ z \in {y, y + 1} /\ InBase(r, z)
  BY <1>1 DEF Placed
<1>3. PICK b \in Nat : b = Num(Bir!birthdayInYear(z)) /\ b \in 10000 * z + 226 .. 10000 * z + 301
  BY <1>2, BirthdayIs
<1>4. Looked(r) /\ r \in Days
  BY <1>2, BirthdayIs DEF Looked
<1>5. PICK n \in Nat : n = Num(r) /\ n \in 10000 * z + 226 .. b
  <2>1. Num(r) \in 10000 * z + 226 .. b
    BY <1>2, <1>3, BirthdayIs
  <2> QED BY <2>1
<1>6. z = y => n <= Num(Birthday)
  BY <1>1, <1>3, <1>5 DEF Birthday
<1> QED BY <1>1, <1>2, <1>3, <1>4, <1>5, <1>6

\* The history is a sequence, also with one more announcement.
LEMMA HistoryIs ==
    ASSUME NEW s \in Seq([date : Days, saves : Nat])
    PROVE  /\ DOMAIN s = 1..Len(s) /\ Len(s) \in Nat
           /\ \A i \in DOMAIN s : s[i].saves \in Nat /\ s[i].date \in Days
<1>1. DOMAIN s = 1..Len(s) /\ Len(s) \in Nat
  BY LenProperties
<1>2. ASSUME NEW i \in DOMAIN s
      PROVE  s[i] \in [date : Days, saves : Nat]
  BY <1>1, ElementOfSeq
<1>3. ASSUME NEW i \in DOMAIN s
      PROVE  s[i].saves \in Nat /\ s[i].date \in Days
  BY <1>2
<1> QED BY <1>1, <1>3

LEMMA OneMore ==
    ASSUME NEW s \in Seq([date : Days, saves : Nat]), NEW e \in [date : Days, saves : Nat]
    PROVE  /\ Append(s, e) \in Seq([date : Days, saves : Nat])
           /\ DOMAIN Append(s, e) = DOMAIN s \cup {Len(s) + 1}
           /\ \A i \in DOMAIN s : i \in Nat /\ i < Len(s) + 1 /\ Append(s, e)[i] = s[i]
           /\ Append(s, e)[Len(s) + 1] = e
<1>1. DOMAIN s = 1..Len(s) /\ Len(s) \in Nat
  BY HistoryIs
<1>2. /\ Append(s, e) \in Seq([date : Days, saves : Nat])
      /\ Len(Append(s, e)) = Len(s) + 1
      /\ \A i \in 1..Len(s) : Append(s, e)[i] = s[i]
      /\ Append(s, e)[Len(s) + 1] = e
  BY AppendProperties
<1>3. DOMAIN Append(s, e) = 1..Len(s) + 1
  BY <1>2, HistoryIs
<1>4. DOMAIN Append(s, e) = DOMAIN s \cup {Len(s) + 1}
  BY <1>1, <1>3
<1> QED BY <1>1, <1>2, <1>4

-----------------------------------------------------------------------------
(* Every step keeps it *)

LEMMA BirInit ==
    ASSUME Bir!ConstantsAssumption, Bir!Init
    PROVE  BirInv
<1>1. PICK first \in Years : first \in Nat /\ \A z \in Years : first <= z
  <2>1. Years \subseteq Nat /\ Years # {}
    BY DEF Bir!ConstantsAssumption
  <2> QED BY <2>1, LeastOf
<1>2. Bir!FirstYear = first
  <2>1. Bir!FirstYear \in Years /\ \A z \in Years : Bir!FirstYear <= z
    BY <1>1 DEF Bir!FirstYear
  <2>2. Bir!FirstYear \in Nat /\ Bir!FirstYear <= first /\ first <= Bir!FirstYear
    BY <1>1, <2>1 DEF Bir!ConstantsAssumption
  <2> QED BY <1>1, <2>2
<1>3. now.date = Bir!Date(first, 2, 26) /\ now.hour = 9 /\ now.passed = FALSE
  BY <1>2 DEF Bir!Init, Bir!FirstDay, Bir!FirstHour
<1>4. now.date.year = first /\ now.date.month = 2 /\ now.date.day = 26 /\ now.date \in Days
  BY <1>1, <1>3 DEF Bir!Date, Days
<1>5. Bir!daysInMonth(first, 2) \in {28, 29}
  BY <1>1, FebruaryIs
<1>6. Looked(now.date)
  BY <1>4, <1>5 DEF Looked
<1>7. ClockGood
  BY <1>1, <1>3, <1>4, <1>6 DEF Bir!Init, ClockGood, ThisYear, Bir!FirstDay, Bir!FirstHour
<1>8. BirthdateGood /\ SaveGood
  BY DEF Bir!Init, BirthdateGood, SaveGood
<1>9. sent = <<>> /\ saves = 0 /\ tasks = {} /\ owed = 9999
  BY DEF Bir!Init
<1>10. SentGood
  BY <1>9 DEF SentGood
<1> QED BY <1>7, <1>8, <1>9, <1>10 DEF BirInv

LEMMA BirReadClock ==
    ASSUME Bir!ConstantsAssumption, BirInv, Bir!ReadClock
    PROVE  BirInv'
<1>1. /\ birthdate' = birthdate /\ now' = now /\ tasks' = tasks /\ saves' = saves
      /\ owed' = owed /\ sent' = sent
      /\ save' = [at |-> "computed", run |-> Bir!nextBirthdayRunDate, hour |-> now.hour]
  BY DEF Bir!ReadClock
<1>2. BirthdateGood /\ ClockGood
  BY DEF BirInv
<1>3. PICK y \in Nat, t \in Nat, b \in Nat :
        /\ y = ThisYear /\ t = Num(now.date) /\ b = Num(Birthday)
        /\ now.date \in Days /\ Birthday \in Days
  BY <1>2, Setting DEF Looked
<1>4. PICK order \in Int : /\ order = Bir!compare(Birthday, now.date)
                           /\ order > 0 <=> b > t
                           /\ order = 0 <=> b = t
  BY <1>3, NumIs
<1>5. now.hour \in {9, 10, 12, 14, 15}
  BY <1>2 DEF ClockGood
<1>6. Bir!nextBirthdayRunDate = IF order > 0 \/ (order = 0 /\ now.hour < 14)
                            THEN Birthday ELSE Bir!birthdayInYear(y + 1)
  BY <1>3, <1>4 DEF Bir!nextBirthdayRunDate, Birthday, ThisYear, Bir!LAST_SCHEDULER_PASS_HOUR
<1>7. \/ save'.run = Birthday /\ b >= t
      \/ save'.run = Bir!birthdayInYear(y + 1) /\ Over
  <2>1. CASE order > 0 \/ (order = 0 /\ now.hour < 14)
    BY <1>1, <1>4, <1>6, <2>1
  <2>2. CASE ~(order > 0 \/ (order = 0 /\ now.hour < 14))
    <3>1. b < t \/ (b = t /\ now.hour > 10)
      BY <1>4, <1>5, <2>2
    <3>2. Over
      BY <1>3, <3>1 DEF Over, FirstPassRan
    <3> QED BY <1>1, <1>6, <2>2, <3>2
  <2> QED BY <2>1, <2>2
<1>8. SaveGood'
  <2>1. Bir!birthdayInYear(ThisYear + 1)' = Bir!birthdayInYear(y + 1)
    BY <1>1, <1>3, SameNow, SameBirthdate
  <2>2. Birthday' = Birthday /\ Num(Birthday)' = b /\ Num(now.date)' = t /\ (Over' <=> Over)
    BY <1>1, <1>3, SameNow DEF Num
  <2> QED BY <1>7, <2>1, <2>2 DEF SaveGood
<1>9. BirthdateGood' /\ ClockGood' /\ SentGood'
  BY <1>1, SameBirthdate, SameNow, SameSent DEF BirInv
<1>10. \A r : TaskRowGood(r)' <=> TaskRowGood(r)
  BY <1>1, SameRow
<1>11. (Over' <=> Over) /\ ThisYear' = ThisYear /\ (Told(ThisYear)' <=> Told(ThisYear))
  <2>1. ThisYear' = ThisYear /\ (Over' <=> Over)
    BY <1>1, SameNow
  <2>2. Told(ThisYear)' <=> Told(ThisYear)
    BY <1>1, <2>1 DEF Told
  <2> QED BY <2>1, <2>2
<1> QED BY <1>1, <1>8, <1>9, <1>10, <1>11 DEF BirInv

LEMMA BirCommitSave ==
    ASSUME Bir!ConstantsAssumption, BirInv, Bir!CommitSave
    PROVE  BirInv'
<1>1. /\ birthdate' = birthdate /\ now' = now /\ sent' = sent
      /\ save # Bir!NotSaving /\ save' = Bir!NotSaving /\ saves' = saves + 1
      /\ tasks' = {[run_date |-> save.run, processed |-> FALSE]}
      /\ owed' = IF saves = 0 THEN (IF Bir!Straddles THEN save.run.year + 1 ELSE save.run.year) ELSE owed
  BY DEF Bir!CommitSave
<1>2. BirthdateGood /\ ClockGood /\ SentGood /\ SaveGood /\ saves \in Nat /\ owed \in Nat
  BY DEF BirInv
<1>3. PICK y \in Nat, t \in Nat, b \in Nat, c \in Nat :
        /\ y = ThisYear /\ t = Num(now.date) /\ b = Num(Birthday)
        /\ c = Num(Bir!birthdayInYear(y + 1)) /\ y \in Years
        /\ now.date \in Days /\ Birthday \in Days
        /\ Birthday.year = y /\ Bir!birthdayInYear(y + 1).year = y + 1
  BY <1>2, Setting DEF Looked
<1>4. PICK r : r = save.run
  OBVIOUS
<1>5. (r = Birthday /\ b >= t) \/ (r = Bir!birthdayInYear(y + 1) /\ Over)
  BY <1>1, <1>2, <1>3, <1>4 DEF SaveGood
<1>6. PICK z \in {y, y + 1} :
        z = r.year /\ (z = y => r = Birthday /\ b >= t) /\ (z = y + 1 => Over)
  <2>1. CASE r = Birthday /\ b >= t
    <3>1. r.year = y /\ y # y + 1
      BY <1>3, <2>1
    <3> QED BY <2>1, <3>1
  <2>2. CASE r = Bir!birthdayInYear(y + 1) /\ Over
    <3>1. r.year = y + 1 /\ y # y + 1
      BY <1>3, <2>2
    <3> QED BY <2>2, <3>1
  <2> QED BY <1>5, <2>1, <2>2
<1>7. Placed(r)
  <2>1. InBase(r, z)
    BY <1>3, <1>5, <1>6 DEF InBase, Birthday
  <2> QED BY <1>3, <1>6, <2>1 DEF Placed
<1>8. OneRow(r)'
  BY <1>1, <1>4 DEF OneRow
<1>9. \A u \in Years : u \in Nat
  BY DEF Bir!ConstantsAssumption
<1>10. owed' \in Nat
  BY <1>1, <1>2, <1>4, <1>6
<1>11. \A u \in Years : owed' <= u /\ u < z => Told(u)
  <2>1. CASE saves = 0
    <3>1. owed' >= z
      BY <1>1, <1>4, <1>6, <2>1
    <3> QED BY <1>9, <1>10, <3>1
  <2>2. CASE saves # 0
    <3>1. saves > 0 /\ owed' = owed
      BY <1>1, <1>2, <2>2
    <3>2. PICK old : TaskRowGood(old)
      BY <3>1 DEF BirInv
    <3>3. PICK w \in Nat : w = old.year /\ w >= y
      BY <1>2, <1>3, <3>2, PlacedIs DEF TaskRowGood
    <3>4. ASSUME NEW u \in Years, owed <= u, u < z
          PROVE  Told(u)
      <4>1. CASE u < y
        BY <1>9, <3>2, <3>3, <3>4, <4>1 DEF TaskRowGood
      <4>2. CASE u >= y
        <5>1. u = y /\ z = y + 1
          BY <1>9, <3>4, <4>2
        <5>2. Over
          BY <1>6, <5>1
        <5> QED BY <1>3, <3>1, <3>4, <5>1, <5>2 DEF BirInv
      <4> QED BY <1>9, <4>1, <4>2
    <3> QED BY <3>1, <3>4
  <2> QED BY <2>1, <2>2
<1>12. \A i \in DOMAIN sent : sent[i].saves <= saves /\ sent[i].saves \in Int
  <2>2. \A i \in DOMAIN sent : sent[i].saves \in Nat
    BY <1>2, HistoryIs DEF SentGood
  <2>3. \A i \in DOMAIN sent : sent[i].saves <= saves
    BY <1>2 DEF SentGood
  <2> QED BY <2>2, <2>3
<1>13. TaskRowGood(r)'
  <2>1. \A i \in DOMAIN sent : sent[i].saves # saves + 1
    BY <1>2, <1>12
  <2>2. Placed(r)' /\ \A u : Told(u)' <=> Told(u)
    BY <1>1, <1>7, SameNow, SameSent
  <2>3. \A u \in Years : owed' <= u /\ u < r.year => Told(u)'
    BY <1>6, <1>11, <2>2
  <2>4. \A i \in DOMAIN sent' : sent'[i].saves = saves' => sent'[i].date.year < r.year
    BY <1>1, <2>1
  <2> QED BY <1>8, <2>2, <2>3, <2>4 DEF TaskRowGood
<1>14. Over /\ owed' <= y => Told(y)
  <2>1. CASE saves = 0
    <3>1. SUFFICES ASSUME Over, owed' <= y
                   PROVE  FALSE
      OBVIOUS
    <3>2. z = y /\ ~Bir!Straddles
      BY <1>1, <1>4, <1>6, <2>1, <3>1
    <3>3. r = Birthday /\ b >= t
      BY <1>6, <3>2
    <3>4. b = t /\ FirstPassRan
      BY <1>3, <3>1, <3>3 DEF Over
    <3>5. r = now.date
      BY <1>3, <3>3, <3>4, NumIs
    <3> QED BY <1>4, <3>2, <3>4, <3>5 DEF Bir!Straddles, FirstPassRan
  <2>2. CASE saves # 0
    <3>1. saves > 0 /\ owed' = owed
      BY <1>1, <1>2, <2>2
    <3> QED BY <1>3, <3>1 DEF BirInv
  <2> QED BY <2>1, <2>2
<1>15. Over' /\ owed' <= ThisYear' => Told(ThisYear)'
  <2>1. ThisYear' = y /\ (Over' <=> Over)
    BY <1>1, <1>3, SameNow
  <2>2. Told(ThisYear)' <=> Told(y)
    BY <1>1, <2>1 DEF Told
  <2> QED BY <1>14, <2>1, <2>2
<1>16. BirthdateGood' /\ ClockGood' /\ SaveGood'
  BY <1>1, <1>2, SameBirthdate, SameNow DEF SaveGood
<1>17. SentGood'
  <2>1. \A i \in DOMAIN sent : sent[i].date \in Bir!Expected(sent[i].date.year)' /\ sent[i].saves <= saves + 1
    BY <1>1, <1>2, <1>12, SameBirthdate DEF SentGood
  <2> QED BY <1>1, <1>2, <2>1 DEF SentGood
<1>18. \E task \in tasks' : TaskRowGood(task.run_date)'
  <2>1. PICK task : task = [run_date |-> r, processed |-> FALSE]
    OBVIOUS
  <2>2. task \in tasks' /\ task.run_date = r
    BY <1>1, <1>4, <2>1
  <2> QED BY <1>13, <2>2
<1>19. saves' \in Nat /\ saves' > 0
  BY <1>1, <1>2
<1> QED BY <1>10, <1>15, <1>16, <1>17, <1>18, <1>19 DEF BirInv

LEMMA YearIs ==
    ASSUME Bir!ConstantsAssumption, BirthdateGood, NEW y \in Nat, NEW r, InBase(r, y)
    PROVE  r.year = y
BY BirthdayIs

\* A pass that finds the row: on the day of it, or the day after the birthday.
LEMMA PassFinds ==
    ASSUME Bir!ConstantsAssumption, BirthdateGood, ClockGood, NEW r, Placed(r), Num(r) <= Num(now.date)
    PROVE  /\ r.year = ThisYear
           /\ now.date \in Bir!Expected(ThisYear)
           /\ InBase(Bir!nextRepeatRunDate(r, Bir!YEARLY), ThisYear + 1)
           /\ Bir!nextRepeatRunDate(r, Bir!YEARLY).year = ThisYear + 1
<1>1. PICK y \in Nat, t \in Nat, b \in Nat :
        /\ y = ThisYear /\ t = Num(now.date) /\ t \in 10000 * y + 226 .. 10000 * y + 303
        /\ now.date \in Days
  BY Setting DEF Looked
<1>2. PICK n \in Nat, z \in Nat :
        /\ n = Num(r) /\ z = r.year /\ z \in {ThisYear, ThisYear + 1}
        /\ r \in Days /\ InBase(r, z)
        /\ n \in 10000 * z + 226 .. 10000 * z + 301
  BY PlacedIs
<1>3. z = y
  BY <1>1, <1>2
<1>4. now.date \in Bir!Expected(y)
  <2>1. CASE n = t
    <3>1. r \in Days /\ now.date \in Days /\ Num(r) = Num(now.date)
      BY <1>1, <1>2, <2>1
    <3>2. r = now.date
      BY <3>1, NumIs
    <3> QED BY <1>2, <1>3, <3>2 DEF InBase, Bir!Expected
  <2>2. CASE n # t
    <3>1. r = Birthday /\ now.date = Bir!DayAfter(r)
      BY <1>1, <1>2, <1>3, <2>2 DEF Placed
    <3> QED BY <1>1, <3>1 DEF Bir!Expected, Birthday
  <2> QED BY <2>1, <2>2
<1>5. InBase(Bir!nextRepeatRunDate(r, Bir!YEARLY), y + 1)
  BY <1>2, <1>3, BirthdayIs
<1>6. Bir!nextRepeatRunDate(r, Bir!YEARLY).year = y + 1
  <2>1. PICK w \in Nat : w = y + 1
    OBVIOUS
  <2>2. PICK nxt : nxt = Bir!nextRepeatRunDate(r, Bir!YEARLY)
    OBVIOUS
  <2>3. InBase(nxt, w)
    BY <1>5, <2>1, <2>2
  <2>4. nxt.year = w
    BY <2>3, YearIs
  <2> QED BY <2>1, <2>2, <2>4
<1> QED BY <1>1, <1>2, <1>3, <1>4, <1>5, <1>6

LEMMA BirPass ==
    ASSUME Bir!ConstantsAssumption, BirInv, Bir!Pass
    PROVE  BirInv'
<1>1. /\ birthdate' = birthdate /\ save' = save /\ saves' = saves /\ owed' = owed
      /\ now' = [now EXCEPT !.passed = TRUE] /\ now.hour \in {10, 14}
      /\ tasks' = (tasks \ Bir!Due) \cup UNION {Bir!Run(task) : task \in Bir!Due}
      /\ sent' = IF Bir!Due = {} THEN sent ELSE Append(sent, [date |-> now.date, saves |-> saves])
  BY DEF Bir!Pass, Bir!SCHEDULER_PASS_HOURS
<1>2. /\ BirthdateGood /\ ClockGood /\ SentGood /\ SaveGood /\ saves \in Nat /\ owed \in Nat
      /\ now \in [date : Days, hour : {9, 10, 12, 14, 15}, passed : BOOLEAN]
      /\ sent \in Seq([date : Days, saves : Nat])
  BY DEF BirInv, ClockGood, SentGood
<1>3. PICK y \in Nat, t \in Nat, b \in Nat :
        /\ y = ThisYear /\ t = Num(now.date) /\ b = Num(Birthday) /\ y \in Years
        /\ now.date \in Days /\ Birthday \in Days /\ Looked(now.date)
  BY <1>2, Setting DEF Looked
<1>4. now'.date = now.date /\ now'.hour = now.hour /\ now'.passed = TRUE
  BY <1>1, <1>2
<1>5. /\ ThisYear' = y /\ Birthday' = Birthday
      /\ Num(Birthday)' = b /\ Num(now.date)' = t
  BY <1>1, <1>3, <1>4, SameDate
<1>6. ClockGood'
  <2>1. now' \in [date : Days, hour : {9, 10, 12, 14, 15}, passed : BOOLEAN]
    BY <1>1, <1>2
  <2>2. Looked(now.date)'
    BY <1>3, <1>4 DEF Looked
  <2> QED BY <1>3, <1>5, <2>1, <2>2 DEF ClockGood
<1>7. FirstPassRan'
  BY <1>1, <1>4 DEF FirstPassRan
<1>8. Over => Over'
  BY <1>3, <1>5, <1>7 DEF Over
<1>9. SaveGood'
  <2>1. Bir!birthdayInYear(ThisYear + 1)' = Bir!birthdayInYear(y + 1)
    BY <1>1, <1>5, SameBirthdate
  <2> QED BY <1>1, <1>2, <1>3, <1>5, <1>8, <2>1 DEF SaveGood
<1>10. BirthdateGood'
  BY <1>1, <1>2, SameBirthdate
<1>11. CASE saves = 0
  <2>1. tasks = {} /\ sent = <<>> /\ owed = 9999
    BY <1>11 DEF BirInv
  <2>2. Bir!Due = {}
    BY <2>1 DEF Bir!Due
  <2>3. tasks' = {} /\ sent' = sent
    BY <1>1, <2>1, <2>2
  <2>4. SentGood'
    BY <1>1, <1>2, <2>3, SameSent
  <2>5. saves' = 0 /\ saves' \in Nat /\ owed' \in Nat
    BY <1>1, <1>2, <1>11
  <2>6. ~(saves' > 0)
    BY <2>5
  <2> QED BY <1>1, <1>6, <1>9, <1>10, <2>1, <2>3, <2>4, <2>5, <2>6 DEF BirInv
<1>12. CASE saves # 0
  <2>1. saves > 0 /\ saves' > 0 /\ saves' # 0 /\ saves' \in Nat /\ owed' \in Nat
    BY <1>1, <1>2, <1>12
  <2>2. PICK row \in tasks : TaskRowGood(row.run_date)
    BY <2>1 DEF BirInv
  <2>3. PICK r : r = row.run_date
    OBVIOUS
  <2>4. Placed(r) /\ OneRow(r)
    BY <2>2, <2>3 DEF TaskRowGood
  <2>5. PICK n \in Nat, z \in Nat :
          /\ n = Num(r) /\ z = r.year /\ z \in {y, y + 1} /\ r \in Days
          /\ z = y => n <= b
    BY <1>2, <1>3, <2>4, PlacedIs
  <2>6. PICK found : found = [run_date |-> r, processed |-> FALSE]
    OBVIOUS
  <2>7. /\ found \in tasks /\ found.run_date = r /\ found.processed = FALSE
        /\ \A task \in tasks : task.processed = TRUE \/ task = found
    BY <2>4, <2>6 DEF OneRow
  <2>8. (Bir!compare(r, now.date) <= 0) <=> (n <= t)
    <3>1. PICK order \in Int : /\ order = Bir!compare(r, now.date)
                               /\ order > 0 <=> Num(r) > Num(now.date)
      BY <1>3, <2>5, NumIs
    <3> QED BY <1>3, <2>5, <3>1
  <2>9. \A u \in Years : u \in Nat
    BY DEF Bir!ConstantsAssumption
  <2>10. \A u \in Years : owed <= u /\ u < z => Told(u)
    BY <2>2, <2>3, <2>5 DEF TaskRowGood
  <2>11. \A i \in DOMAIN sent : sent[i].saves = saves => sent[i].date.year < z
    BY <2>2, <2>3, <2>5 DEF TaskRowGood
  <2>12. CASE n <= t
    <3>1. Bir!Due = {found}
      <4>1. found \in Bir!Due
        BY <2>7, <2>8, <2>12 DEF Bir!Due
      <4>2. \A task \in Bir!Due : task = found
        BY <2>7 DEF Bir!Due
      <4> QED BY <4>1, <4>2
    <3>2. PICK nxt : nxt = Bir!nextRepeatRunDate(r, Bir!YEARLY)
      OBVIOUS
    <3>3. z = y /\ now.date \in Bir!Expected(y) /\ InBase(nxt, y + 1) /\ nxt.year = y + 1
      BY <1>2, <1>3, <2>4, <2>5, <2>12, <3>2, PassFinds
    <3>4. PICK ran : ran = [found EXCEPT !.processed = TRUE]
      OBVIOUS
    <3>5. PICK clone : clone = [run_date |-> nxt, processed |-> FALSE]
      OBVIOUS
    <3>6. tasks' = (tasks \ {found}) \cup {ran, clone}
      BY <1>1, <2>7, <3>1, <3>2, <3>4, <3>5 DEF Bir!Run
    <3>7. ran.processed = TRUE
      BY <2>6, <3>4
    <3>8. OneRow(nxt)'
      BY <2>7, <3>5, <3>6, <3>7 DEF OneRow
    <3>9. Placed(nxt)'
      <4>1. InBase(nxt, nxt.year)'
        BY <1>1, <3>3, SameBirthdate
      <4>2. nxt.year # y
        BY <3>3
      <4> QED BY <1>5, <3>3, <4>1, <4>2 DEF Placed
    <3>10. PICK e \in [date : Days, saves : Nat] : e = [date |-> now.date, saves |-> saves]
      BY <1>2, <1>3
    <3>11. e.date = now.date /\ e.saves = saves /\ e.date.year = y
      BY <1>3, <3>10 DEF ThisYear
    <3>12. sent' = Append(sent, e)
      BY <1>1, <3>1, <3>10
    <3>13. PICK last \in Nat : last = Len(sent) + 1
      BY <1>2, HistoryIs
    <3>14. /\ sent' \in Seq([date : Days, saves : Nat])
           /\ DOMAIN sent' = DOMAIN sent \cup {last}
           /\ \A i \in DOMAIN sent : i \in Nat /\ i < last /\ sent'[i] = sent[i]
           /\ sent'[last] = e
      BY <1>2, <3>12, <3>13, OneMore
    <3>15. /\ \A u : Told(u) => Told(u)'
           /\ Told(y)'
      <4>1. ASSUME NEW u, Told(u)
            PROVE  Told(u)'
        <5>1. PICK i \in DOMAIN sent : sent[i].date.year = u
          BY <4>1 DEF Told
        <5>2. i \in DOMAIN sent' /\ sent'[i] = sent[i]
          BY <3>14, <5>1
        <5>3. \E k \in DOMAIN sent' : sent'[k].date.year = u
          BY <5>1, <5>2
        <5> QED BY <5>3 DEF Told
      <4>2. \E k \in DOMAIN sent' : sent'[k].date.year = y
        BY <3>11, <3>14
      <4>3. \E k \in DOMAIN sent' : sent'[k].date.year = ThisYear'
        BY <1>5, <4>2
      <4> QED BY <4>1, <4>2 DEF Told
    <3>16. \A u \in Years : owed' <= u /\ u < nxt.year => Told(u)'
      <4>1. ASSUME NEW u \in Years, owed <= u, u < y + 1
            PROVE  Told(u)'
        <5>1. CASE u < y
          BY <2>10, <3>3, <3>15, <4>1, <5>1
        <5>2. CASE u >= y
          <6>1. u = y
            BY <2>9, <4>1, <5>2
          <6> QED BY <3>15, <6>1
        <5> QED BY <2>9, <5>1, <5>2
      <4> QED BY <1>1, <3>3, <4>1
    <3>17. \A i \in DOMAIN sent' : sent'[i].saves = saves' => sent'[i].date.year < nxt.year
      <4>1. ASSUME NEW i \in DOMAIN sent, sent'[i].saves = saves
            PROVE  sent'[i].date.year < y + 1
        <5>1. PICK u \in Nat : u = sent[i].date.year
          BY <1>2, HistoryIs DEF Days
        <5>2. u < y
          BY <2>11, <3>3, <3>14, <4>1, <5>1
        <5> QED BY <3>14, <5>1, <5>2
      <4>2. sent'[last].date.year < y + 1
        BY <3>11, <3>14
      <4> QED BY <1>1, <3>3, <3>14, <4>1, <4>2
    <3>18. TaskRowGood(nxt)'
      BY <3>8, <3>9, <3>16, <3>17 DEF TaskRowGood
    <3>19. (\A i \in DOMAIN sent : sent[i].date \in Bir!Expected(sent[i].date.year))'
      <4>1. ASSUME NEW i \in DOMAIN sent'
            PROVE  \E u, d : d = sent'[i].date /\ u = d.year /\ d \in Bir!Expected(u)
        <5>1. CASE i \in DOMAIN sent
          BY <1>2, <3>14, <5>1 DEF SentGood
        <5>2. CASE i = last
          BY <3>3, <3>11, <3>14, <5>2
        <5> QED BY <3>14, <5>1, <5>2
      <4>2. ASSUME NEW i \in DOMAIN sent'
            PROVE  (sent[i].date \in Bir!Expected(sent[i].date.year))'
        <5>1. PICK u, d : d = sent'[i].date /\ u = d.year /\ d \in Bir!Expected(u)
          BY <4>1, <4>2
        <5>2. d \in Bir!Expected(u)'
          BY <1>1, <5>1, SameBirthdate
        <5> QED BY <5>1, <5>2 DEF Bir!Expected, Bir!birthdayInYear
      <4> QED BY <4>2
    <3>24. \A i \in DOMAIN sent' : sent'[i].saves <= saves'
      <4>1. ASSUME NEW i \in DOMAIN sent
            PROVE  sent'[i].saves <= saves
        BY <1>2, <3>14, <4>1 DEF SentGood
      <4>2. sent'[last].saves <= saves
        BY <1>2, <3>11, <3>14
      <4> QED BY <1>1, <3>14, <4>1, <4>2
    <3>20. \A i, j \in DOMAIN sent' :
             i < j /\ sent'[i].date.year = sent'[j].date.year => sent'[i].saves < sent'[j].saves
      <4>1. SUFFICES ASSUME NEW i \in DOMAIN sent', NEW j \in DOMAIN sent',
                            i < j, sent'[i].date.year = sent'[j].date.year
                     PROVE  sent'[i].saves < sent'[j].saves
        OBVIOUS
      <4>2. i \in DOMAIN sent
        <5>1. i # last
          BY <3>14, <4>1
        <5> QED BY <3>14, <5>1
      <4>3. CASE j \in DOMAIN sent
        BY <1>2, <3>14, <4>1, <4>2, <4>3 DEF SentGood
      <4>4. CASE j = last
        <5>1. sent[i].date.year = y
          BY <3>11, <3>14, <4>1, <4>2, <4>4
        <5>2. sent[i].saves # saves
          BY <2>11, <3>3, <4>2, <5>1
        <5>3. PICK k \in Nat : k = sent[i].saves /\ k <= saves
          BY <1>2, <4>2, HistoryIs DEF SentGood
        <5>4. k < saves
          BY <1>2, <5>2, <5>3
        <5> QED BY <3>11, <3>14, <4>2, <4>4, <5>3, <5>4
      <4> QED BY <3>14, <4>3, <4>4
    <3>21. SentGood'
      BY <1>1, <3>14, <3>19, <3>20, <3>24 DEF SentGood
    <3>22. \E task \in tasks' : TaskRowGood(task.run_date)'
      <4>1. clone \in tasks' /\ clone.run_date = nxt
        BY <3>5, <3>6
      <4> QED BY <3>18, <4>1
    <3>23. Told(ThisYear)'
      <4>1. \E k \in DOMAIN sent' : sent'[k].date.year = y
        BY <3>11, <3>14
      <4> QED BY <1>5, <4>1 DEF Told
    <3> QED BY <1>6, <1>9, <1>10, <2>1, <3>21, <3>22, <3>23 DEF BirInv
  <2>13. CASE n > t
    <3>1. Bir!Due = {}
      <4>1. ASSUME NEW task \in Bir!Due
            PROVE  FALSE
        <5>1. task = found /\ Bir!compare(task.run_date, now.date) <= 0
          BY <2>7 DEF Bir!Due
        <5>2. n <= t
          BY <2>7, <2>8, <5>1
        <5> QED BY <2>13, <5>2
      <4> QED BY <4>1
    <3>2. tasks' = tasks /\ sent' = sent
      BY <1>1, <3>1
    <3>3. Placed(r)'
      <4>1. InBase(r, r.year)' /\ r.year \in {y, y + 1}
        BY <1>1, <1>3, <2>4, SameBirthdate DEF Placed
      <4>2. Num(r)' > t
        BY <2>5, <2>13 DEF Num
      <4> QED BY <1>5, <4>1, <4>2 DEF Placed
    <3>4. OneRow(r)'
      BY <2>4, <3>2 DEF OneRow
    <3>5. \A u : Told(u)' <=> Told(u)
      BY <1>1, <3>2, SameSent
    <3>6. \A u \in Years : owed' <= u /\ u < r.year => Told(u)'
      BY <1>1, <2>5, <2>10, <3>5
    <3>7. \A i \in DOMAIN sent' : sent'[i].saves = saves' => sent'[i].date.year < r.year
      BY <1>1, <2>5, <2>11, <3>2
    <3>8. TaskRowGood(r)'
      BY <3>3, <3>4, <3>6, <3>7 DEF TaskRowGood
    <3>9. row \in tasks' /\ row.run_date = r
      BY <2>2, <2>3, <3>2
    <3>10. SentGood'
      BY <1>1, <1>2, <3>2, SameSent
    <3>11. Over' /\ owed' <= ThisYear' => Told(ThisYear)'
      <4>1. SUFFICES ASSUME Over', owed' <= ThisYear'
                     PROVE  Told(ThisYear)'
        OBVIOUS
      <4>2. b <= t
        BY <1>5, <4>1 DEF Over
      <4>3. z = y + 1
        BY <2>5, <2>13, <4>2
      <4>4. owed <= y
        BY <1>1, <1>5, <4>1
      <4>5. Told(y)
        BY <1>3, <2>10, <4>3, <4>4
      <4> QED BY <1>5, <3>2, <4>5 DEF Told
    <3> QED BY <1>6, <1>9, <1>10, <2>1, <3>8, <3>9, <3>10, <3>11 DEF BirInv
  <2> QED BY <1>3, <2>5, <2>12, <2>13
<1> QED BY <1>11, <1>12

\* Hours go by: nothing a pass of the day has changed.
LEMMA WithinTheDay ==
    ASSUME Bir!ConstantsAssumption, BirInv, Bir!Tick, now.hour # 15
    PROVE  /\ now'.date = now.date /\ (FirstPassRan' <=> FirstPassRan)
           /\ now' \in [date : Days, hour : {9, 10, 12, 14, 15}, passed : BOOLEAN]
<1>1. now \in [date : Days, hour : {9, 10, 12, 14, 15}, passed : BOOLEAN]
  BY DEF BirInv, ClockGood
<1>2. Len(Bir!Hours) - 1 = 4
  BY DEF Bir!Hours
<1>3. PICK i \in 1..4 : Bir!Hours[i] = now.hour /\ now' = [now EXCEPT !.hour = Bir!Hours[i + 1], !.passed = FALSE]
  <2>1. \E i \in 1..Len(Bir!Hours) - 1 :
            Bir!Hours[i] = now.hour /\ now' = [now EXCEPT !.hour = Bir!Hours[i + 1], !.passed = FALSE]
    BY DEF Bir!Tick, Bir!LastHour
  <2> QED BY <1>2, <2>1
<1>4. PICK h : h = Bir!Hours[i + 1]
  OBVIOUS
<1>5. \/ now.hour = 9 /\ h = 10
      \/ now.hour = 10 /\ h = 12
      \/ now.hour = 12 /\ h = 14
      \/ now.hour = 14 /\ h = 15
  <2>1. i = 1 \/ i = 2 \/ i = 3 \/ i = 4
    BY <1>3
  <2>2. /\ Bir!Hours[1] = 9 /\ Bir!Hours[2] = 10 /\ Bir!Hours[3] = 12
        /\ Bir!Hours[4] = 14 /\ Bir!Hours[5] = 15
    BY DEF Bir!Hours
  <2>3. (1 + 1 = 2) /\ (2 + 1 = 3) /\ (3 + 1 = 4) /\ (4 + 1 = 5)
    OBVIOUS
  <2> QED BY <1>3, <1>4, <2>1, <2>2, <2>3
<1>6. now' = [now EXCEPT !.hour = h, !.passed = FALSE]
  BY <1>3, <1>4
<1>7. now'.date = now.date /\ now'.hour = h /\ now'.passed = FALSE
  BY <1>1, <1>6
<1>8. now.hour = 10 => now.passed
  BY DEF Bir!Tick, Bir!SCHEDULER_PASS_HOURS
<1>9. FirstPassRan' <=> FirstPassRan
  <2>1. CASE now.hour = 9
    BY <1>5, <1>7, <2>1 DEF FirstPassRan
  <2>2. CASE now.hour = 10
    BY <1>5, <1>7, <1>8, <2>2 DEF FirstPassRan
  <2>3. CASE now.hour = 12 \/ now.hour = 14
    BY <1>5, <1>7, <2>3 DEF FirstPassRan
  <2> QED BY <1>5, <2>1, <2>2, <2>3
<1>10. h \in {9, 10, 12, 14, 15}
  BY <1>5
<1>11. now' \in [date : Days, hour : {9, 10, 12, 14, 15}, passed : BOOLEAN]
  BY <1>1, <1>6, <1>10
<1> QED BY <1>7, <1>9, <1>11

\* A day goes by: a row that waits is not left behind, and a birthday is not
\* over by it.
LEMMA NextDay ==
    ASSUME Bir!ConstantsAssumption, BirInv, Bir!Tick, now.hour = 15
    PROVE  /\ ClockGood' /\ save = Bir!NotSaving
           /\ \A r : Placed(r) => Placed(r)'
           /\ Over' => Over /\ ThisYear' = ThisYear
<1>1. /\ birthdate' = birthdate
      /\ Bir!Later(now.date).year \in Years
      /\ now' = [date |-> Bir!Later(now.date), hour |-> 9, passed |-> FALSE]
      /\ save = Bir!NotSaving
  BY DEF Bir!Tick, Bir!LastHour, Bir!FirstHour
<1>2. BirthdateGood /\ ClockGood /\ FirstPassRan
  BY DEF BirInv, FirstPassRan
<1>3. PICK y \in Nat, t \in Nat, b \in Nat :
        /\ y = ThisYear /\ y > 0 /\ y <= 9998
        /\ t = Num(now.date) /\ b = Num(Birthday) /\ b \in 10000 * y + 226 .. 10000 * y + 301
        /\ Looked(now.date) /\ Looked(Birthday) /\ now.date \in Days /\ Birthday \in Days
  BY <1>2, Setting DEF Looked
<1>4. PICK today, tomorrow : today = now.date /\ tomorrow = Bir!Later(today)
  OBVIOUS
<1>5. /\ now'.date = tomorrow /\ now'.hour = 9 /\ now'.passed = FALSE
      /\ tomorrow.year \in Years /\ ThisYear' = tomorrow.year
      /\ today.year = y /\ Looked(today) /\ Num(today) = t /\ today \in Days
  BY <1>1, <1>3, <1>4 DEF ThisYear
<1>6. ~FirstPassRan'
  BY <1>5 DEF FirstPassRan
<1>7. \A r : Placed(r) =>
        \E n \in Nat, z \in Nat :
           /\ n = Num(r) /\ z = r.year /\ z \in {y, y + 1}
           /\ Looked(r) /\ r \in Days
           /\ n \in 10000 * z + 226 .. 10000 * z + 301
           /\ z = y => n <= b
           /\ InBase(r, r.year)'
  <2>1. ASSUME NEW r, Placed(r)
        PROVE  \E n \in Nat, z \in Nat :
                 /\ n = Num(r) /\ z = r.year /\ z \in {y, y + 1}
                 /\ Looked(r) /\ r \in Days
                 /\ n \in 10000 * z + 226 .. 10000 * z + 301
                 /\ z = y => n <= b
                 /\ InBase(r, r.year)'
    <3>1. PICK n \in Nat, z \in Nat :
            /\ n = Num(r) /\ z = r.year /\ z \in {ThisYear, ThisYear + 1}
            /\ r \in Days /\ Looked(r) /\ InBase(r, z)
            /\ n \in 10000 * z + 226 .. 10000 * z + 301
            /\ z = ThisYear => n <= Num(Birthday)
      BY <1>2, <2>1, PlacedIs
    <3>2. InBase(r, r.year)'
      BY <1>1, <3>1, SameBirthdate
    <3> QED BY <1>3, <3>1, <3>2
  <2> QED BY <2>1
<1>8. CASE today = Bir!LastDay(y)
  <2>1. PICK z \in Nat : z = y + 1
    OBVIOUS
  <2>2. tomorrow = Bir!Date(z, 2, 26) /\ t = 10000 * y + 303
    BY <1>4, <1>5, <1>8, <2>1 DEF Bir!Later, Bir!FirstDay, Bir!LastDay, Num, Bir!Date
  <2>3. /\ tomorrow \in Days /\ tomorrow.year = z /\ tomorrow.month = 2 /\ tomorrow.day = 26
        /\ Num(tomorrow) = 10000 * z + 226
    BY <2>1, <2>2 DEF Bir!Date, Days, Num
  <2>4. Looked(tomorrow)
    <3>1. Bir!daysInMonth(z, 2) \in {28, 29}
      BY FebruaryIs
    <3>2. 26 \in 26..Bir!daysInMonth(z, 2)
      BY <3>1
    <3> QED BY <2>3, <3>2 DEF Looked
  <2>5. ThisYear' = z /\ Num(now.date)' = 10000 * z + 226
    BY <1>5, <2>3 DEF Num
  <2>6. ClockGood'
    <3>1. now' \in [date : Days, hour : {9, 10, 12, 14, 15}, passed : BOOLEAN]
      BY <1>1, <1>4, <2>3
    <3>2. Looked(now.date)'
      BY <1>5, <2>4 DEF Looked
    <3> QED BY <1>5, <3>1, <3>2 DEF ClockGood
  <2>7. ~Over'
    <3>1. BirthdateGood'
      BY <1>1, <1>2, SameBirthdate
    <3>2. PICK d : d = Bir!birthdayInYear(z)
      OBVIOUS
    <3>3. InBase(d, z)
      BY <3>2 DEF InBase
    <3>4. PICK n \in Nat : n = Num(d) /\ n >= 10000 * z + 226
      BY <1>2, <3>2, <3>3, BirthdayIs
    <3>5. Birthday' = d
      <4>1. Birthday' = Bir!birthdayInYear(z)'
        BY <2>5 DEF Birthday, Bir!birthdayInYear
      <4> QED BY <1>1, <3>2, <4>1, SameBirthdate
    <3>6. Num(Birthday)' = n
      BY <3>4, <3>5 DEF Num
    <3> QED BY <1>6, <2>5, <3>4, <3>6 DEF Over
  <2>8. ASSUME NEW r, Placed(r)
        PROVE  Placed(r)'
    <3>1. PICK n \in Nat, w \in Nat :
            /\ n = Num(r) /\ w = r.year /\ w \in {y, y + 1}
            /\ n \in 10000 * w + 226 .. 10000 * w + 301 /\ (w = y => n <= b)
            /\ InBase(r, r.year)'
      BY <1>7, <2>8
    <3>2. w = z
      <4>1. SUFFICES ASSUME w = y
                     PROVE  FALSE
        BY <2>1, <3>1
      <4>2. n < t
        BY <2>2, <3>1, <4>1
      <4> QED BY <1>2, <1>3, <2>8, <3>1, <4>1, <4>2 DEF Placed
    <3>3. n > 10000 * z + 226 \/ n = 10000 * z + 226
      BY <3>1, <3>2
    <3>4. Num(r)' = n
      BY <3>1 DEF Num
    <3> QED BY <1>6, <2>5, <3>1, <3>2, <3>3, <3>4 DEF Placed
  <2> QED BY <1>1, <2>6, <2>7, <2>8
<1>9. CASE today # Bir!LastDay(y)
  <2>1. ~(today.month = 3 /\ today.day = 3)
    BY <1>5, <1>9 DEF Days, Bir!LastDay, Bir!Date
  <2>2. tomorrow = Bir!DayAfter(today)
    BY <1>4, <1>5, <1>9 DEF Bir!Later
  <2>3. /\ Looked(tomorrow) /\ tomorrow.year = y /\ Num(tomorrow) > t
        /\ \A e : Looked(e) /\ Num(e) > t => Num(e) >= Num(tomorrow)
    BY <1>3, <1>5, <2>1, <2>2, NumAfter
  <2>4. PICK s \in Nat : s = Num(tomorrow)
    <3>1. tomorrow \in Days
      BY <2>3 DEF Looked
    <3> QED BY <3>1 DEF Days, Num
  <2>5. ThisYear' = y /\ Num(now.date)' = s
    BY <1>5, <2>3, <2>4 DEF Num
  <2>6. ClockGood'
    <3>1. now' \in [date : Days, hour : {9, 10, 12, 14, 15}, passed : BOOLEAN]
      BY <1>1, <1>4, <2>3 DEF Looked
    <3>2. Looked(now.date)'
      BY <1>5, <2>3 DEF Looked
    <3> QED BY <1>5, <3>1, <3>2 DEF ClockGood
  <2>7. Birthday' = Birthday /\ Num(Birthday)' = b
    <3>1. Birthday' = Bir!birthdayInYear(y)'
      BY <2>5 DEF Birthday, Bir!birthdayInYear
    <3>2. Birthday' = Birthday
      BY <1>1, <1>3, <3>1, SameBirthdate DEF Birthday
    <3> QED BY <1>3, <3>2 DEF Num
  <2>8. Over' => Over
    <3>1. SUFFICES ASSUME Over'
                   PROVE  Over
      OBVIOUS
    <3>2. b < s
      BY <1>6, <2>5, <2>7, <3>1 DEF Over
    <3>3. b <= t
      BY <1>3, <1>5, <2>3, <2>4, <3>2
    <3> QED BY <1>2, <1>3, <3>3 DEF Over
  <2>9. ASSUME NEW r, Placed(r)
        PROVE  Placed(r)'
    <3>1. PICK n \in Nat, w \in Nat :
            /\ n = Num(r) /\ w = r.year /\ w \in {y, y + 1} /\ Looked(r) /\ r \in Days
            /\ InBase(r, r.year)'
      BY <1>7, <2>9
    <3>2. CASE w = y + 1
      <4>1. w # y
        BY <3>2
      <4> QED BY <2>5, <3>1, <3>2, <4>1 DEF Placed
    <3>3. CASE w = y
      <4>1. \/ n > t
            \/ n = t /\ r = Birthday
        BY <1>2, <1>3, <2>9, <3>1, <3>3 DEF Placed
      <4>2. CASE n > t
        <5>1. n >= s
          BY <2>3, <2>4, <3>1, <4>2
        <5>2. Num(r)' = n
          BY <3>1 DEF Num
        <5>3. n > s \/ n = s
          BY <5>1
        <5> QED BY <1>6, <2>5, <3>1, <3>3, <5>2, <5>3 DEF Placed
      <4>3. CASE n = t /\ r = Birthday
        <5>1. r = today
          <6>1. Num(r) = Num(today)
            BY <1>5, <3>1, <4>3
          <6> QED BY <1>5, <3>1, <6>1, NumIs
        <5>2. now'.date = Bir!DayAfter(r)
          BY <1>5, <2>2, <5>1
        <5>3. r = Birthday'
          BY <2>7, <4>3
        <5>4. (now.date = Bir!DayAfter(r))'
          BY <5>2
        <5> QED BY <1>6, <2>5, <3>1, <3>3, <5>3, <5>4 DEF Placed
      <4> QED BY <4>1, <4>2, <4>3
    <3> QED BY <3>1, <3>2, <3>3
  <2> QED BY <1>1, <1>3, <2>5, <2>6, <2>8, <2>9
<1> QED BY <1>8, <1>9

LEMMA BirTick ==
    ASSUME Bir!ConstantsAssumption, BirInv, Bir!Tick
    PROVE  BirInv'
<1>1. /\ birthdate' = birthdate /\ tasks' = tasks /\ save' = save /\ saves' = saves
      /\ owed' = owed /\ sent' = sent
  BY DEF Bir!Tick
<1>2. BirthdateGood /\ ClockGood /\ SaveGood /\ SentGood /\ saves \in Nat /\ owed \in Nat
  BY DEF BirInv
<1>3. BirthdateGood' /\ SentGood' /\ \A u : Told(u)' <=> Told(u)
  BY <1>1, <1>2, SameBirthdate, SameSent
<1>4. /\ ClockGood' /\ SaveGood'
      /\ \A r : Placed(r) => Placed(r)'
      /\ Over' => Over /\ ThisYear' = ThisYear
  <2>1. CASE now.hour # 15
    <3>1. /\ now'.date = now.date /\ (FirstPassRan' <=> FirstPassRan)
          /\ now' \in [date : Days, hour : {9, 10, 12, 14, 15}, passed : BOOLEAN]
      BY <2>1, WithinTheDay
    <3>2. /\ ThisYear' = ThisYear /\ Birthday' = Birthday
          /\ Num(Birthday)' = Num(Birthday) /\ Num(now.date)' = Num(now.date)
          /\ (Over' <=> Over) /\ \A r : Placed(r)' <=> Placed(r)
      BY <1>1, <3>1, SameDate
    <3>3. ClockGood'
      <4>1. Looked(now.date)'
        BY <1>2, <3>1 DEF ClockGood, Looked
      <4> QED BY <1>2, <3>1, <3>2, <4>1 DEF ClockGood
    <3>4. SaveGood'
      <4>1. PICK y : y = ThisYear
        OBVIOUS
      <4>2. Bir!birthdayInYear(ThisYear + 1)' = Bir!birthdayInYear(y + 1)
        BY <1>1, <3>2, <4>1, SameBirthdate
      <4> QED BY <1>1, <1>2, <3>2, <4>1, <4>2 DEF SaveGood
    <3> QED BY <3>2, <3>3, <3>4
  <2>2. CASE now.hour = 15
    <3>1. /\ ClockGood' /\ save = Bir!NotSaving
          /\ \A r : Placed(r) => Placed(r)'
          /\ Over' => Over /\ ThisYear' = ThisYear
      BY <2>2, NextDay
    <3>2. SaveGood'
      BY <1>1, <3>1 DEF SaveGood, Bir!NotSaving
    <3> QED BY <3>1, <3>2
  <2> QED BY <2>1, <2>2
<1>5. \A r : TaskRowGood(r) => TaskRowGood(r)'
  <2>1. ASSUME NEW r, TaskRowGood(r)
        PROVE  TaskRowGood(r)'
    <3>1. Placed(r)' /\ OneRow(r)'
      BY <1>1, <1>4, <2>1 DEF TaskRowGood, OneRow
    <3> QED BY <1>1, <1>3, <2>1, <3>1 DEF TaskRowGood
  <2> QED BY <2>1
<1>6. saves > 0 => \E task \in tasks' : TaskRowGood(task.run_date)'
  <2>1. SUFFICES ASSUME saves > 0
                 PROVE  \E task \in tasks' : TaskRowGood(task.run_date)'
    OBVIOUS
  <2>2. PICK task \in tasks : TaskRowGood(task.run_date)
    BY <2>1 DEF BirInv
  <2>3. PICK r : r = task.run_date
    OBVIOUS
  <2>4. TaskRowGood(r)'
    BY <1>5, <2>2, <2>3
  <2> QED BY <1>1, <2>2, <2>3, <2>4
<1>7. saves > 0 => (Over' /\ owed' <= ThisYear' => Told(ThisYear)')
  <2>1. SUFFICES ASSUME saves > 0, Over', owed' <= ThisYear'
                 PROVE  Told(ThisYear)'
    OBVIOUS
  <2>2. Over /\ ThisYear' = ThisYear
    BY <1>4, <2>1
  <2>3. Told(ThisYear)
    BY <1>1, <2>1, <2>2 DEF BirInv
  <2> QED BY <1>1, <2>2, <2>3 DEF Told
<1>8. saves' = 0 => tasks' = {} /\ sent' = <<>> /\ owed' = 9999
  BY <1>1 DEF BirInv
<1> QED BY <1>1, <1>2, <1>3, <1>4, <1>6, <1>7, <1>8 DEF BirInv

-----------------------------------------------------------------------------
(* What follows from it *)

LEMMA BirNext ==
    ASSUME Bir!ConstantsAssumption, BirInv, [Bir!Next]_(Bir!vars)
    PROVE  BirInv'
<1>1. CASE Bir!ReadClock
  BY <1>1, BirReadClock
<1>2. CASE Bir!CommitSave
  BY <1>2, BirCommitSave
<1>3. CASE Bir!Pass
  BY <1>3, BirPass
<1>4. CASE Bir!Tick
  BY <1>4, BirTick
<1>5. CASE UNCHANGED Bir!vars
  <2>1. /\ birthdate' = birthdate /\ now' = now /\ tasks' = tasks /\ save' = save
        /\ saves' = saves /\ owed' = owed /\ sent' = sent
    BY <1>5 DEF Bir!vars
  <2>2. \A r : TaskRowGood(r)' <=> TaskRowGood(r)
    BY <2>1, SameRow
  <2>3. (Over' <=> Over) /\ ThisYear' = ThisYear /\ (Told(ThisYear)' <=> Told(ThisYear))
    <3>1. ThisYear' = ThisYear /\ (Over' <=> Over)
      BY <2>1, SameNow
    <3> QED BY <2>1, <3>1 DEF Told
  <2>4. BirthdateGood' /\ ClockGood' /\ SentGood'
    BY <2>1, SameBirthdate, SameNow, SameSent DEF BirInv
  <2>5. SaveGood'
    <3>1. PICK y : y = ThisYear
      OBVIOUS
    <3>2. /\ Birthday' = Birthday /\ Num(Birthday)' = Num(Birthday)
          /\ Num(now.date)' = Num(now.date)
      BY <2>1, SameDate
    <3>3. Bir!birthdayInYear(ThisYear + 1)' = Bir!birthdayInYear(y + 1)
      BY <2>1, <2>3, <3>1, SameBirthdate
    <3> QED BY <2>1, <2>3, <3>1, <3>2, <3>3 DEF BirInv, SaveGood
  <2> QED BY <2>1, <2>2, <2>3, <2>4, <2>5 DEF BirInv
<1> QED BY <1>1, <1>2, <1>3, <1>4, <1>5 DEF Bir!Next

LEMMA AnnouncedFollows ==
    ASSUME BirInv
    PROVE  Bir!AnnouncedOnTheDay
BY DEF BirInv, SentGood, Bir!AnnouncedOnTheDay

LEMMA MissedFollows ==
    ASSUME Bir!ConstantsAssumption, BirInv
    PROVE  Bir!NoBirthdayMissed
<1>1. SUFFICES ASSUME NEW u \in Years, u >= owed, Bir!compare(now.date, Bir!LastDay(u)) >= 0
               PROVE  Told(u)
  BY DEF Bir!NoBirthdayMissed, Told
<1>2. BirthdateGood /\ ClockGood /\ saves \in Nat /\ owed \in Nat
  BY DEF BirInv
<1>3. PICK y \in Nat, t \in Nat, b \in Nat :
        /\ y = ThisYear /\ t = Num(now.date) /\ t \in 10000 * y + 226 .. 10000 * y + 303
        /\ b = Num(Birthday) /\ b \in 10000 * y + 226 .. 10000 * y + 301
        /\ now.date \in Days
  BY <1>2, Setting DEF Looked
<1>4. u \in Nat /\ u < 9999
  BY DEF Bir!ConstantsAssumption
<1>5. saves > 0
  <2>1. saves # 0
    BY <1>1, <1>4 DEF BirInv
  <2> QED BY <1>2, <2>1
<1>6. t >= 10000 * u + 303
  <2>1. Bir!LastDay(u) \in Days /\ Num(Bir!LastDay(u)) = 10000 * u + 303
    BY <1>4 DEF Bir!LastDay, Bir!Date, Days, Num
  <2>2. PICK order \in Int : order = Bir!compare(now.date, Bir!LastDay(u))
                             /\ (order < 0 <=> Num(now.date) < Num(Bir!LastDay(u)))
    BY <1>3, <2>1, NumIs
  <2>3. ~(order < 0)
    BY <1>1, <2>2
  <2> QED BY <1>3, <1>4, <2>1, <2>2, <2>3
<1>7. PICK row \in tasks : TaskRowGood(row.run_date)
  BY <1>5 DEF BirInv
<1>8. PICK r : r = row.run_date
  OBVIOUS
<1>9. TaskRowGood(r) /\ Placed(r)
  BY <1>7, <1>8 DEF TaskRowGood
<1>10. PICK z \in Nat : z = r.year /\ z \in {y, y + 1}
  BY <1>3, <1>2, <1>9, PlacedIs
<1>11. CASE u < y
  <2>1. u < z
    BY <1>4, <1>10, <1>11
  <2> QED BY <1>1, <1>2, <1>4, <1>9, <1>10, <2>1 DEF TaskRowGood
<1>12. CASE u >= y
  <2>1. u = y
    BY <1>3, <1>4, <1>6, <1>12
  <2>2. b < t
    BY <1>3, <1>6, <2>1
  <2>3. Over
    BY <1>3, <2>2 DEF Over
  <2>4. owed <= ThisYear
    BY <1>1, <1>2, <1>3, <2>1
  <2> QED BY <1>3, <1>5, <2>1, <2>3, <2>4 DEF BirInv
<1> QED BY <1>4, <1>11, <1>12

\* However late the profile is saved, and saved again, each year's birthday is
\* announced on its day, once for each save, and none is missed: for any years
\* and every birthdate around the end of February
\* (src/users/birthday-run-date.ts, relativedelta.util.ts).
THEOREM BirthdaysAreTold ==
    ASSUME Bir!ConstantsAssumption
    PROVE  Bir!Spec => [](Bir!AnnouncedOnTheDay /\ Bir!NoBirthdayMissed)
<1>1. Bir!Init => BirInv
  BY BirInit
<1>2. BirInv /\ [Bir!Next]_(Bir!vars) => BirInv'
  BY BirNext
<1>3. BirInv => Bir!AnnouncedOnTheDay /\ Bir!NoBirthdayMissed
  BY AnnouncedFollows, MissedFollows
<1> QED BY <1>1, <1>2, <1>3, PTL DEF Bir!Spec
=============================================================================
