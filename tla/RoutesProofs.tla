---------------------------- MODULE RoutesProofs ----------------------------
(***************************************************************************)
(* Proofs about the route table, for any number of routers, routes and     *)
(* middleware, any route strings and any growth of Go's slices.            *)
(***************************************************************************)
EXTENDS Routes, SequenceTheorems, FiniteSetTheorems, TLAPS

-----------------------------------------------------------------------------
(* Slices.                                                                  *)

Cells == Middleware \cup {"nil"}

Heaps == Seq(Seq(Cells))

\* A slice that points into the heap.
Valid(h, s) ==
  /\ s \in [array : Nat, len : Nat]
  /\ s.array = 0 => s.len = 0
  /\ s.array # 0 => s.array \in 1..Len(h) /\ s.len <= Len(h[s.array])

\* Nothing that t sees has changed.
Keeps(h, g, t) == Valid(g, t) /\ Elements(g, t) = Elements(h, t)

LEMMA Prefix ==
  ASSUME NEW S, NEW p \in Seq(S), NEW q \in Seq(S)
  PROVE  SubSeq(p \o q, 1, Len(p)) = p
<1>1. /\ p \o q \in Seq(S) /\ Len(p \o q) = Len(p) + Len(q) /\ Len(p) \in Nat /\ Len(q) \in Nat
      /\ \A i \in 1..Len(p) : (p \o q)[i] = p[i]
  BY ConcatProperties
<1>2. \A i \in 1..Len(p) : (p \o q)[i] \in S
  BY <1>1
<1>3. /\ SubSeq(p \o q, 1, Len(p)) \in Seq(S) /\ Len(SubSeq(p \o q, 1, Len(p))) = Len(p)
      /\ \A i \in 1..Len(p) : SubSeq(p \o q, 1, Len(p))[i] = (p \o q)[i]
  BY <1>1, <1>2, SubSeqProperties
<1>4. QED
  BY <1>1, <1>3, SeqEqual

LEMMA ElementsOf ==
  ASSUME NEW h \in Heaps, NEW s, Valid(h, s)
  PROVE  Elements(h, s) \in Seq(Cells) /\ Len(Elements(h, s)) = s.len /\ s.len \in Nat
<1>1. CASE s.array = 0
  BY <1>1 DEF Valid, Elements
<1>2. CASE s.array # 0
  <2>1. PICK a \in Seq(Cells) : a = h[s.array] /\ s.len <= Len(a)
    BY <1>2 DEF Valid, Heaps
  <2>2. s.len \in Nat /\ \A i \in 1..s.len : a[i] \in Cells
    BY <2>1 DEF Valid
  <2>3. SubSeq(a, 1, s.len) \in Seq(Cells) /\ Len(SubSeq(a, 1, s.len)) = s.len
    BY <2>2, SubSeqProperties
  <2>4. QED
    BY <1>2, <2>1, <2>2, <2>3 DEF Elements
<1>3. QED
  BY <1>1, <1>2

\* Array a is overwritten, the others are not.
PutOK(h, a, new, g) ==
  /\ g \in Heaps /\ Len(g) = Len(h) /\ g[a] = new
  /\ \A t : Valid(h, t) /\ t.array # a => Keeps(h, g, t)

LEMMA HeapPut ==
  ASSUME NEW h \in Heaps, NEW a \in 1..Len(h), NEW new \in Seq(Cells), NEW g,
         g = [h EXCEPT ![a] = new]
  PROVE  PutOK(h, a, new, g)
<1>1. g \in Heaps /\ Len(g) = Len(h) /\ \A j \in 1..Len(h) : g[j] = IF j = a THEN new ELSE h[j]
  BY ExceptSeq DEF Heaps
<1>2. QED
  BY <1>1 DEF PutOK, Valid, Keeps, Elements

LEMMA HeapAdd ==
  ASSUME NEW h \in Heaps, NEW new \in Seq(Cells), NEW g, g = Append(h, new)
  PROVE  /\ g \in Heaps /\ Len(g) = Len(h) + 1 /\ g[Len(h) + 1] = new
         /\ \A t : Valid(h, t) => Keeps(h, g, t)
<1>1. /\ g \in Heaps /\ Len(g) = Len(h) + 1 /\ g[Len(h) + 1] = new /\ Len(h) \in Nat
      /\ \A j \in 1..Len(h) : g[j] = h[j]
  BY AppendProperties DEF Heaps
<1>2. QED
  BY <1>1 DEF Valid, Keeps, Elements

AppendedOK(h, s, elems, a) ==
  /\ a.heap \in Heaps /\ Len(h) <= Len(a.heap)
  /\ Valid(a.heap, a.slice) /\ Elements(a.heap, a.slice) = Elements(h, s) \o elems
  /\ a.slice.array = s.array \/ a.slice.array = Len(h) + 1
  /\ \A t : Valid(h, t) /\ (t.array = 0 \/ t.array # s.array) => Keeps(h, a.heap, t)

\* append returns a slice of the old elements and the new ones, in its own array or in a
\* new one, and no slice of another array sees a difference.
LEMMA AppendedSlice ==
  ASSUME NEW h \in Heaps, NEW s, Valid(h, s), NEW elems \in Seq(Cells), NEW spare \in Nat,
         NEW a, a = Appended(h, s, elems, spare)
  PROVE  AppendedOK(h, s, elems, a)
<1> USE DEF AppendedOK
<1>1. PICK old \in Seq(Cells) : old = Elements(h, s) /\ Len(old) = s.len /\ s.len \in Nat
  BY ElementsOf
<1>2. Len(h) \in Nat /\ Len(elems) \in Nat
  BY DEF Heaps
<1>3. PICK n \in Nat : n = s.len + Len(elems)
  BY <1>1, <1>2
<1>4. PICK whole \in Seq(Cells) : whole = old \o elems /\ Len(whole) = n
  <2>1. old \o elems \in Seq(Cells) /\ Len(old \o elems) = Len(old) + Len(elems)
    BY ConcatProperties
  <2>2. QED
    BY <1>1, <1>3, <2>1
<1>5. CASE elems = <<>>
  <2>1. a = [heap |-> h, slice |-> s]
    BY <1>5 DEF Appended
  <2>2. old \o elems = old
    BY <1>5, ConcatEmptySeq
  <2>3. QED
    BY <1>1, <1>2, <2>1, <2>2 DEF Keeps
<1>6. CASE elems # <<>> /\ n <= Cap(h, s)
  <2>1. n > 0
    BY <1>1, <1>2, <1>3, <1>6
  <2>2. s.array # 0 /\ s.array \in 1..Len(h)
    BY <1>6, <2>1 DEF Cap, Valid
  <2>3. PICK arr \in Seq(Cells) : arr = h[s.array] /\ n <= Len(arr)
    BY <1>6, <2>2 DEF Cap, Heaps
  <2>4. PICK rest \in Seq(Cells) : rest = SubSeq(arr, n + 1, Len(arr)) /\ Len(rest) = Len(arr) - n
    <3>1. n + 1 \in Int /\ Len(arr) \in Int /\ \A i \in n + 1..Len(arr) : arr[i] \in Cells
      OBVIOUS
    <3>2. SubSeq(arr, n + 1, Len(arr)) \in Seq(Cells)
      BY <3>1, SubSeqProperties
    <3>3. Len(SubSeq(arr, n + 1, Len(arr))) = Len(arr) - n
      BY <2>3, <3>1, SubSeqProperties
    <3>4. QED
      BY <3>2, <3>3
  <2>5. PICK new \in Seq(Cells) : new = whole \o rest /\ Len(new) = Len(arr)
    <3>1. whole \o rest \in Seq(Cells) /\ Len(whole \o rest) = Len(whole) + Len(rest)
      BY ConcatProperties
    <3>2. Len(whole \o rest) = Len(arr)
      <4>1. Len(arr) \in Nat /\ Len(whole) = n /\ Len(rest) = Len(arr) - n
        BY <1>4, <2>4
      <4>2. n + (Len(arr) - n) = Len(arr)
        BY <4>1
      <4>3. QED
        BY <3>1, <4>1, <4>2
    <3>3. QED
      BY <3>1, <3>2
  <2>6. PICK g : g = [h EXCEPT ![s.array] = new]
    OBVIOUS
  <2>7. a = [heap |-> g, slice |-> [s EXCEPT !.len = n]]
    BY <1>1, <1>3, <1>4, <1>6, <2>3, <2>4, <2>5, <2>6 DEF Appended
  <2>8. /\ g \in Heaps /\ Len(g) = Len(h) /\ g[s.array] = new
        /\ \A t : Valid(h, t) /\ t.array # s.array => Keeps(h, g, t)
    <3>1. PICK i \in 1..Len(h) : i = s.array
      BY <2>2
    <3>2. g = [h EXCEPT ![i] = new]
      BY <2>6, <3>1
    <3>3. PutOK(h, i, new, g)
      BY <3>2, HeapPut
    <3>4. QED
      BY <3>1, <3>3 DEF PutOK
  <2>9. PICK sl : sl = [s EXCEPT !.len = n]
    OBVIOUS
  <2>10. sl \in [array : Nat, len : Nat] /\ sl.array = s.array /\ sl.len = n
    BY <2>9 DEF Valid
  <2>11. Valid(g, sl)
    BY <2>2, <2>3, <2>5, <2>8, <2>10 DEF Valid
  <2>12. SubSeq(new, 1, n) = whole
    BY <1>4, <2>5, Prefix
  <2>13. Elements(g, sl) = whole
    BY <2>2, <2>8, <2>10, <2>12 DEF Elements
  <2>14. a.heap = g /\ a.slice = sl
    BY <2>7, <2>9
  <2>15. \A t : Valid(h, t) /\ (t.array = 0 \/ t.array # s.array) => Keeps(h, a.heap, t)
    BY <2>2, <2>8, <2>14
  <2>16. a.heap \in Heaps /\ Len(h) <= Len(a.heap) /\ Elements(a.heap, a.slice) = Elements(h, s) \o elems
    BY <1>1, <1>2, <1>4, <2>8, <2>13, <2>14
  <2>17. QED
    BY <2>10, <2>11, <2>14, <2>15, <2>16
<1>7. CASE elems # <<>> /\ ~(n <= Cap(h, s))
  <2>1. PICK room \in Seq(Cells) : room = [i \in 1..spare |-> "nil"]
    <3>1. [i \in 1..spare |-> "nil"] \in Seq(Cells)
      BY DEF Cells
    <3>2. QED
      BY <3>1
  <2>2. PICK new \in Seq(Cells) : new = whole \o room /\ n <= Len(new)
    <3>1. whole \o room \in Seq(Cells) /\ Len(whole \o room) = Len(whole) + Len(room)
      BY ConcatProperties
    <3>2. n <= Len(whole \o room)
      BY <1>4, <3>1
    <3>3. QED
      BY <3>1, <3>2
  <2>3. PICK g : g = Append(h, new)
    OBVIOUS
  <2>4. a = [heap |-> g, slice |-> [array |-> Len(h) + 1, len |-> n]]
    BY <1>1, <1>3, <1>4, <1>7, <2>1, <2>2, <2>3 DEF Appended
  <2>5. /\ g \in Heaps /\ Len(g) = Len(h) + 1 /\ g[Len(h) + 1] = new
        /\ \A t : Valid(h, t) => Keeps(h, g, t)
    BY <2>3, HeapAdd
  <2>6. a.heap = g /\ a.slice \in [array : Nat, len : Nat] /\ a.slice.array = Len(h) + 1
        /\ a.slice.len = n
    BY <1>2, <2>4
  <2>7. Valid(g, a.slice)
    BY <1>2, <2>2, <2>5, <2>6 DEF Valid
  <2>8. SubSeq(new, 1, n) = whole
    BY <1>4, <2>1, <2>2, Prefix
  <2>9. Elements(g, a.slice) = whole
    BY <1>2, <2>5, <2>6, <2>8 DEF Elements
  <2>10. QED
    BY <1>1, <1>2, <1>4, <2>5, <2>6, <2>7, <2>9
<1>8. QED
  BY <1>5, <1>6, <1>7

\* append(append([]Middleware{}, own...), more...) shares no array with any slice.
LEMMA JoinedSlice ==
  ASSUME NEW h \in Heaps, NEW s, Valid(h, s), NEW more \in Seq(Cells), NEW spare \in Nat,
         NEW j, j = Joined(h, s, more, spare)
  PROVE  /\ j.heap \in Heaps
         /\ Valid(j.heap, j.slice) /\ Elements(j.heap, j.slice) = Elements(h, s) \o more
         /\ j.slice.array = 0 \/ j.slice.array > Len(h)
         /\ \A t : Valid(h, t) => Keeps(h, j.heap, t)
<1>1. PICK old \in Seq(Cells) : old = Elements(h, s)
  BY ElementsOf
<1>2. Valid(h, NilSlice) /\ NilSlice.array = 0 /\ Elements(h, NilSlice) = <<>>
  BY DEF Valid, NilSlice, Elements
<1>3. PICK copy : copy = Appended(h, NilSlice, old, spare)
  OBVIOUS
<1>4. /\ copy.heap \in Heaps /\ Len(h) <= Len(copy.heap) /\ Valid(copy.heap, copy.slice)
      /\ Elements(copy.heap, copy.slice) = <<>> \o old
      /\ copy.slice.array = 0 \/ copy.slice.array = Len(h) + 1
      /\ \A t : Valid(h, t) => Keeps(h, copy.heap, t)
  <2>1. AppendedOK(h, NilSlice, old, copy)
    BY <1>2, <1>3, AppendedSlice
  <2>2. QED
    BY <1>2, <2>1 DEF AppendedOK
<1>5. <<>> \o old = old
  BY ConcatEmptySeq
<1>6. j = Appended(copy.heap, copy.slice, more, spare)
  BY <1>1, <1>3 DEF Joined
<1>7. /\ j.heap \in Heaps /\ Valid(j.heap, j.slice)
      /\ Elements(j.heap, j.slice) = Elements(copy.heap, copy.slice) \o more
      /\ j.slice.array = copy.slice.array \/ j.slice.array = Len(copy.heap) + 1
      /\ \A t : Valid(copy.heap, t) /\ (t.array = 0 \/ t.array # copy.slice.array) =>
           Keeps(copy.heap, j.heap, t)
  <2>0. PICK ch \in Heaps : ch = copy.heap
    BY <1>4
  <2>1. PICK cs : ch = copy.heap /\ cs = copy.slice
    BY <2>0
  <2>2. Valid(ch, cs) /\ j = Appended(ch, cs, more, spare)
    BY <1>4, <1>6, <2>1
  <2>3. AppendedOK(ch, cs, more, j)
    BY <2>2, AppendedSlice
  <2>4. QED
    BY <2>1, <2>3 DEF AppendedOK
<1>8. Len(h) \in Nat /\ Len(copy.heap) \in Nat
  BY <1>4 DEF Heaps
<1>9. ASSUME NEW t, Valid(h, t)
      PROVE  Keeps(h, j.heap, t)
  <2>1. Keeps(h, copy.heap, t)
    BY <1>4, <1>9
  <2>2. t.array = 0 \/ t.array # copy.slice.array
    BY <1>4, <1>8, <1>9 DEF Valid
  <2>3. QED
    BY <1>7, <2>1, <2>2 DEF Keeps
<1>10. QED
  BY <1>1, <1>4, <1>5, <1>7, <1>8, <1>9


-----------------------------------------------------------------------------
(* The route table.                                                         *)

Slices == [array : Nat, len : Nat]

\* Prefixes and paths.
Paths == {Empty} \cup Seq(Names)

RouterRecord == [prefix : Paths, middleware : Slices]

TableTyped ==
  /\ heap \in Heaps
  /\ routers \in Seq(RouterRecord)
  /\ declared \in Seq(Seq(Cells)) /\ Len(declared) = Len(routers)
  /\ DOMAIN chain = DOMAIN routes

\* What a slice that belongs to a router or a route sees.
RoutersSee ==
  \A r \in 1..Len(routers) : /\ Valid(heap, routers[r].middleware)
                             /\ Elements(heap, routers[r].middleware) = declared[r]

RoutesSee ==
  \A path \in DOMAIN routes : /\ Valid(heap, routes[path].middleware)
                              /\ Elements(heap, routes[path].middleware) = chain[path]

\* No array is shared between two routers, or between a router and a route: append may
\* write to a router's array in place.
RoutersApart ==
  \A q, r \in 1..Len(routers) :
    q # r /\ routers[q].middleware.array # 0 =>
      routers[q].middleware.array # routers[r].middleware.array

RoutesApart ==
  \A path \in DOMAIN routes, r \in 1..Len(routers) :
    routes[path].middleware.array # 0 =>
      routes[path].middleware.array # routers[r].middleware.array

TableInv == TableTyped /\ RoutersSee /\ RoutesSee /\ RoutersApart /\ RoutesApart

LEMMA ListsTyped == Lists \subseteq Seq(Cells)
<1>1. \A m \in Middleware : <<m>> \in Seq(Cells)
  BY DEF Cells
<1>2. <<>> \in Seq(Cells)
  OBVIOUS
<1>3. QED
  BY <1>1, <1>2, Zenon DEF Lists

LEMMA UseTable ==
  ASSUME TableInv, NEW r \in 1..Len(routers), NEW mw \in Lists, NEW spare \in 0..1,
         Use(r, mw, spare)
  PROVE  TableInv'
<1>1. PICK s, a : s = routers[r].middleware /\ a = Appended(heap, s, mw, spare)
  OBVIOUS
<1>2. /\ heap' = a.heap /\ routers' = [routers EXCEPT ![r].middleware = a.slice]
      /\ declared' = [declared EXCEPT ![r] = @ \o mw] /\ UNCHANGED <<routes, chain>>
  BY <1>1 DEF Use
<1>3. mw \in Seq(Cells) /\ spare \in Nat
  BY ListsTyped
<1>4. heap \in Heaps /\ Valid(heap, s) /\ Elements(heap, s) = declared[r]
  BY <1>1 DEF TableInv, TableTyped, RoutersSee
<1>5. AppendedOK(heap, s, mw, a)
  BY <1>1, <1>3, <1>4, AppendedSlice
<1>6. /\ heap' \in Heaps /\ a.slice \in Slices
  BY <1>2, <1>5 DEF AppendedOK, Valid, Slices
<1>7. PICK rec \in RouterRecord : rec = [routers[r] EXCEPT !.middleware = a.slice]
  <2>1. routers[r] \in RouterRecord
    BY DEF TableInv, TableTyped
  <2>2. [routers[r] EXCEPT !.middleware = a.slice] \in RouterRecord
    BY <1>6, <2>1 DEF RouterRecord
  <2>3. QED
    BY <2>2
<1>8. rec.middleware = a.slice
  <2>1. routers[r] \in RouterRecord
    BY DEF TableInv, TableTyped
  <2>2. QED
    BY <1>7, <2>1 DEF RouterRecord
<1>9. routers' = [routers EXCEPT ![r] = rec]
  BY <1>2, <1>7 DEF TableInv, TableTyped
<1>10. /\ routers' \in Seq(RouterRecord) /\ Len(routers') = Len(routers)
       /\ \A q \in 1..Len(routers) : routers'[q] = IF q = r THEN rec ELSE routers[q]
  BY <1>9, ExceptSeq DEF TableInv, TableTyped
<1>11. /\ declared' \in Seq(Seq(Cells)) /\ Len(declared') = Len(declared)
       /\ \A q \in 1..Len(routers) : declared'[q] = IF q = r THEN declared[r] \o mw ELSE declared[q]
  <2>1. PICK d \in Seq(Cells) : d = declared[r] \o mw
    <3>1. declared[r] \in Seq(Cells)
      BY DEF TableInv, TableTyped
    <3>2. declared[r] \o mw \in Seq(Cells)
      BY <1>3, <3>1, ConcatProperties
    <3>3. QED
      BY <3>2
  <2>2. r \in 1..Len(declared) /\ declared' = [declared EXCEPT ![r] = d]
    BY <1>2, <2>1 DEF TableInv, TableTyped
  <2>3. QED
    BY <2>1, <2>2, ExceptSeq DEF TableInv, TableTyped
<1>12. TableTyped'
  BY <1>2, <1>6, <1>10, <1>11 DEF TableInv, TableTyped
<1>13. ASSUME NEW q \in 1..Len(routers), q # r
       PROVE  /\ Keeps(heap, heap', routers[q].middleware)
              /\ routers[q].middleware.array \in 0..Len(heap)
              /\ routers[q].middleware.array # 0 => routers[q].middleware.array # s.array
  <2>1. Valid(heap, routers[q].middleware)
    BY DEF TableInv, RoutersSee
  <2>2. routers[q].middleware.array # 0 => routers[q].middleware.array # s.array
    BY <1>1, <1>13 DEF TableInv, RoutersApart
  <2>3. routers[q].middleware.array \in 0..Len(heap)
    BY <1>4, <2>1 DEF Valid, Heaps
  <2>4. Keeps(heap, a.heap, routers[q].middleware)
    BY <1>5, <2>1, <2>2 DEF AppendedOK
  <2>5. QED
    BY <1>2, <2>2, <2>3, <2>4
<1>14. RoutersSee'
  <2>1. ASSUME NEW q \in 1..Len(routers)
        PROVE  /\ Valid(heap', routers'[q].middleware)
               /\ Elements(heap', routers'[q].middleware) = declared'[q]
    <3>1. CASE q = r
      BY <1>2, <1>4, <1>5, <1>8, <1>10, <1>11, <3>1 DEF AppendedOK
    <3>2. CASE q # r
      BY <1>10, <1>11, <1>13, <3>2 DEF Keeps, TableInv, RoutersSee
    <3>3. QED
      BY <3>1, <3>2
  <2>2. QED
    BY <1>10, <2>1 DEF RoutersSee
<1>15. ASSUME NEW path \in DOMAIN routes
       PROVE  /\ Keeps(heap, heap', routes[path].middleware)
              /\ routes[path].middleware.array \in 0..Len(heap)
              /\ routes[path].middleware.array # 0 => routes[path].middleware.array # s.array
  <2>1. Valid(heap, routes[path].middleware)
    BY DEF TableInv, RoutesSee
  <2>2. routes[path].middleware.array # 0 => routes[path].middleware.array # s.array
    BY <1>1 DEF TableInv, RoutesApart
  <2>3. routes[path].middleware.array \in 0..Len(heap)
    BY <1>4, <2>1 DEF Valid, Heaps
  <2>4. Keeps(heap, a.heap, routes[path].middleware)
    BY <1>5, <2>1, <2>2 DEF AppendedOK
  <2>5. QED
    BY <1>2, <2>2, <2>3, <2>4
<1>16. RoutesSee'
  BY <1>2, <1>15 DEF Keeps, TableInv, RoutesSee
<1>17. a.slice.array = s.array \/ a.slice.array = Len(heap) + 1
  BY <1>5 DEF AppendedOK
<1>18. Len(heap) \in Nat /\ s.array \in Nat
  BY <1>4 DEF Heaps, Valid
<1>19. RoutersApart'
  <2>1. ASSUME NEW p \in 1..Len(routers), NEW q \in 1..Len(routers), p # q,
               routers'[p].middleware.array # 0
        PROVE  routers'[p].middleware.array # routers'[q].middleware.array
    <3>1. CASE p # r /\ q # r
      BY <1>10, <2>1, <3>1 DEF TableInv, RoutersApart
    <3>2. CASE p # r /\ q = r
      <4>1. routers'[p] = routers[p] /\ routers'[q].middleware = a.slice
        BY <1>8, <1>10, <3>2
      <4>2. QED
        BY <1>13, <1>17, <1>18, <2>1, <3>2, <4>1
    <3>3. CASE p = r /\ q # r
      <4>1. routers'[q] = routers[q] /\ routers'[p].middleware = a.slice
        BY <1>8, <1>10, <3>3
      <4>2. QED
        BY <1>13, <1>17, <1>18, <2>1, <3>3, <4>1
    <3>4. QED
      BY <2>1, <3>1, <3>2, <3>3
  <2>2. QED
    BY <1>10, <2>1 DEF RoutersApart
<1>20. RoutesApart'
  <2>1. ASSUME NEW path \in DOMAIN routes, NEW q \in 1..Len(routers),
               routes[path].middleware.array # 0
        PROVE  routes[path].middleware.array # routers'[q].middleware.array
    <3>1. CASE q # r
      BY <1>10, <2>1, <3>1 DEF TableInv, RoutesApart
    <3>2. CASE q = r
      BY <1>8, <1>10, <1>15, <1>17, <1>18, <2>1, <3>2
    <3>3. QED
      BY <3>1, <3>2
  <2>2. QED
    BY <1>2, <1>10, <2>1 DEF RoutesApart
<1>21. QED
  BY <1>12, <1>14, <1>16, <1>19, <1>20 DEF TableInv


JoinedOK(h, s, more, j) ==
  /\ j.heap \in Heaps
  /\ Valid(j.heap, j.slice) /\ Elements(j.heap, j.slice) = Elements(h, s) \o more
  /\ j.slice.array = 0 \/ j.slice.array > Len(h)
  /\ \A t : Valid(h, t) => Keeps(h, j.heap, t)

\* What a call that copies router r's list leaves in the heap.
CopyOK(r, mw, j) ==
  /\ j.heap \in Heaps /\ j.slice \in Slices /\ Valid(j.heap, j.slice)
  /\ Elements(j.heap, j.slice) = declared[r] \o mw
  /\ declared[r] \o mw \in Seq(Cells)
  /\ Len(heap) \in Nat /\ (j.slice.array = 0 \/ j.slice.array > Len(heap))
  /\ \A q \in 1..Len(routers) : /\ Valid(j.heap, routers[q].middleware)
                                /\ Elements(j.heap, routers[q].middleware) = declared[q]
                                /\ routers[q].middleware.array \in 0..Len(heap)
  /\ \A path \in DOMAIN routes :
       /\ Valid(j.heap, routes[path].middleware)
       /\ Elements(j.heap, routes[path].middleware) = chain[path]
       /\ routes[path].middleware.array \in 0..Len(heap)

LEMMA JoinedTable ==
  ASSUME TableInv, NEW r \in 1..Len(routers), NEW mw \in Lists, NEW spare \in 0..1, NEW j,
         j = Joined(heap, routers[r].middleware, mw, spare)
  PROVE  CopyOK(r, mw, j)
<1>1. mw \in Seq(Cells) /\ spare \in Nat /\ declared[r] \in Seq(Cells)
  BY ListsTyped DEF TableInv, TableTyped
<1>2. PICK s : s = routers[r].middleware
  OBVIOUS
<1>3. /\ heap \in Heaps /\ Len(heap) \in Nat /\ Valid(heap, s) /\ Elements(heap, s) = declared[r]
      /\ j = Joined(heap, s, mw, spare)
  BY <1>2 DEF TableInv, TableTyped, RoutersSee, Heaps
<1>4. JoinedOK(heap, s, mw, j)
  BY <1>1, <1>3, JoinedSlice DEF JoinedOK
<1>5. declared[r] \o mw \in Seq(Cells)
  BY <1>1, ConcatProperties
<1>6. ASSUME NEW q \in 1..Len(routers)
      PROVE  /\ Valid(j.heap, routers[q].middleware)
             /\ Elements(j.heap, routers[q].middleware) = declared[q]
             /\ routers[q].middleware.array \in 0..Len(heap)
  <2>1. Valid(heap, routers[q].middleware) /\ Elements(heap, routers[q].middleware) = declared[q]
    BY DEF TableInv, RoutersSee
  <2>2. Keeps(heap, j.heap, routers[q].middleware)
    BY <1>4, <2>1 DEF JoinedOK
  <2>3. routers[q].middleware.array \in 0..Len(heap)
    BY <1>3, <2>1 DEF Valid
  <2>4. QED
    BY <2>1, <2>2, <2>3 DEF Keeps
<1>7. ASSUME NEW path \in DOMAIN routes
      PROVE  /\ Valid(j.heap, routes[path].middleware)
             /\ Elements(j.heap, routes[path].middleware) = chain[path]
             /\ routes[path].middleware.array \in 0..Len(heap)
  <2>1. Valid(heap, routes[path].middleware) /\ Elements(heap, routes[path].middleware) = chain[path]
    BY DEF TableInv, RoutesSee
  <2>2. Keeps(heap, j.heap, routes[path].middleware)
    BY <1>4, <2>1 DEF JoinedOK
  <2>3. routes[path].middleware.array \in 0..Len(heap)
    BY <1>3, <2>1 DEF Valid
  <2>4. QED
    BY <2>1, <2>2, <2>3 DEF Keeps
<1>8. j.slice \in Slices
  BY <1>4 DEF JoinedOK, Valid, Slices
<1>9. QED
  BY <1>3, <1>4, <1>5, <1>6, <1>7, <1>8 DEF JoinedOK, CopyOK

LEMMA PanicTable ==
  ASSUME TableInv, UNCHANGED <<heap, routers, routes, declared, chain>>
  PROVE  TableInv'
<1>1. TableTyped'
  BY DEF TableInv, TableTyped
<1>2. RoutersSee' /\ RoutesSee'
  BY DEF TableInv, RoutersSee, RoutesSee
<1>3. RoutersApart' /\ RoutesApart'
  BY DEF TableInv, RoutersApart, RoutesApart
<1>4. QED
  BY <1>1, <1>2, <1>3 DEF TableInv

LEMMA GroupTable ==
  ASSUME TableInv, NEW r \in 1..Len(routers), NEW arg \in Args, NEW mw \in Lists,
         NEW spare \in 0..1, Group(r, arg, mw, spare),
         isDotRoute(arg) => joinRoute(routers[r].prefix, arg) \in Paths
  PROVE  TableInv'
<1>1. CASE ~isDotRoute(arg)
  BY <1>1, PanicTable DEF Group, Panics
<1>2. CASE isDotRoute(arg)
  <2>1. PICK j : j = Joined(heap, routers[r].middleware, mw, spare)
    OBVIOUS
  <2>0. CopyOK(r, mw, j)
    BY <2>1, JoinedTable
  <2>2. PICK rec : rec = [prefix |-> joinRoute(routers[r].prefix, arg), middleware |-> j.slice]
    OBVIOUS
  <2>3. /\ heap' = j.heap /\ routers' = Append(routers, rec)
        /\ declared' = Append(declared, declared[r] \o mw) /\ UNCHANGED <<routes, chain>>
    BY <1>2, <2>1, <2>2 DEF Group
  <2>4. /\ j.heap \in Heaps /\ j.slice \in Slices /\ Valid(j.heap, j.slice)
        /\ Elements(j.heap, j.slice) = declared[r] \o mw
        /\ declared[r] \o mw \in Seq(Cells)
        /\ Len(heap) \in Nat /\ (j.slice.array = 0 \/ j.slice.array > Len(heap))
    BY <2>0 DEF CopyOK
  <2>5. \A q \in 1..Len(routers) : /\ Valid(heap', routers[q].middleware)
                                   /\ Elements(heap', routers[q].middleware) = declared[q]
                                   /\ routers[q].middleware.array \in 0..Len(heap)
    BY <2>0, <2>3 DEF CopyOK
  <2>6. \A path \in DOMAIN routes : /\ Valid(heap', routes[path].middleware)
                                    /\ Elements(heap', routes[path].middleware) = chain[path]
                                    /\ routes[path].middleware.array \in 0..Len(heap)
    BY <2>0, <2>3 DEF CopyOK
  <2>7. rec \in RouterRecord /\ rec.middleware = j.slice
    BY <1>2, <2>2, <2>4 DEF RouterRecord
  <2>8. PICK n \in Nat : n = Len(routers) + 1 /\ Len(routers) \in Nat
    BY DEF TableInv, TableTyped
  <2>9. /\ routers' \in Seq(RouterRecord) /\ Len(routers') = n /\ routers'[n] = rec
        /\ \A q \in 1..Len(routers) : routers'[q] = routers[q]
    BY <2>3, <2>7, <2>8, AppendProperties DEF TableInv, TableTyped
  <2>10. /\ declared' \in Seq(Seq(Cells)) /\ Len(declared') = n
         /\ declared'[n] = declared[r] \o mw
         /\ \A q \in 1..Len(routers) : declared'[q] = declared[q]
    <3>1. PICK d \in Seq(Cells) : d = declared[r] \o mw
      BY <2>4
    <3>2. declared' = Append(declared, d)
      BY <2>3, <3>1
    <3>3. declared \in Seq(Seq(Cells)) /\ Len(declared) = Len(routers)
      BY DEF TableInv, TableTyped
    <3>4. PICK S : S = Seq(Cells)
      OBVIOUS
    <3>5. declared \in Seq(S) /\ d \in S
      BY <3>1, <3>3, <3>4
    <3>6. /\ declared' \in Seq(S) /\ Len(declared') = Len(declared) + 1
          /\ declared'[Len(declared) + 1] = d
          /\ \A q \in 1..Len(declared) : declared'[q] = declared[q]
      BY <3>2, <3>5, AppendProperties
    <3>7. QED
      BY <2>8, <3>1, <3>3, <3>4, <3>6
  <2>11. 1..Len(routers') = 1..Len(routers) \cup {n} /\ n \notin 1..Len(routers)
    BY <2>8, <2>9
  <2>12. TableTyped'
    BY <2>3, <2>4, <2>9, <2>10 DEF TableInv, TableTyped
  <2>13. RoutersSee'
    BY <2>3, <2>4, <2>5, <2>7, <2>9, <2>10, <2>11 DEF RoutersSee
  <2>14. RoutesSee'
    BY <2>3, <2>6 DEF RoutesSee
  <2>15. RoutersApart'
    <3>1. ASSUME NEW p \in 1..Len(routers) \cup {n}, NEW q \in 1..Len(routers) \cup {n}, p # q,
                 routers'[p].middleware.array # 0
          PROVE  routers'[p].middleware.array # routers'[q].middleware.array
      <4>1. CASE p # n /\ q # n
        BY <2>9, <3>1, <4>1 DEF TableInv, RoutersApart
      <4>2. CASE p = n
        <5>1. q \in 1..Len(routers)
          BY <3>1, <4>2
        <5>2. routers'[q] = routers[q] /\ routers[q].middleware.array \in 0..Len(heap)
          BY <2>5, <2>9, <5>1
        <5>3. routers'[p].middleware = j.slice
          BY <2>7, <2>9, <4>2
        <5>4. QED
          BY <2>4, <3>1, <5>2, <5>3
      <4>3. CASE q = n
        <5>1. p \in 1..Len(routers)
          BY <3>1, <4>3
        <5>2. routers'[p] = routers[p] /\ routers[p].middleware.array \in 0..Len(heap)
          BY <2>5, <2>9, <5>1
        <5>3. routers'[q].middleware = j.slice
          BY <2>7, <2>9, <4>3
        <5>4. PICK x \in 0..Len(heap) : x = routers'[p].middleware.array /\ x # 0
          BY <3>1, <5>2
        <5>5. j.slice.array # x
          BY <2>4, <5>4
        <5>6. QED
          BY <5>3, <5>4, <5>5
      <4>4. QED
        BY <4>1, <4>2, <4>3
    <3>2. QED
      BY <2>11, <3>1 DEF RoutersApart
  <2>16. RoutesApart'
    <3>1. ASSUME NEW path \in DOMAIN routes, NEW q \in 1..Len(routers) \cup {n},
                 routes[path].middleware.array # 0
          PROVE  routes[path].middleware.array # routers'[q].middleware.array
      <4>1. CASE q # n
        BY <2>9, <3>1, <4>1 DEF TableInv, RoutesApart
      <4>2. CASE q = n
        BY <2>4, <2>6, <2>7, <2>9, <3>1, <4>2
      <4>3. QED
        BY <4>1, <4>2
    <3>2. QED
      BY <2>3, <2>11, <3>1 DEF RoutesApart
  <2>17. QED
    BY <2>12, <2>13, <2>14, <2>15, <2>16 DEF TableInv
<1>3. QED
  BY <1>1, <1>2

LEMMA RegisterTable ==
  ASSUME TableInv, NEW r \in 1..Len(routers), NEW arg \in Args, NEW mw \in Lists,
         NEW spare \in 0..1, NEW streamType, register(r, streamType, arg, mw, spare)
  PROVE  TableInv'
<1>1. PICK full : full = joinRoute(routers[r].prefix, arg)
  OBVIOUS
<1>2. CASE ~(isDotRoute(arg) /\ full \notin DOMAIN routes)
  BY <1>1, <1>2, PanicTable DEF register, Panics
<1>3. CASE isDotRoute(arg) /\ full \notin DOMAIN routes
  <2>1. PICK j : j = Joined(heap, routers[r].middleware, mw, spare)
    OBVIOUS
  <2>0. CopyOK(r, mw, j)
    BY <2>1, JoinedTable
  <2>2. PICK rec : rec = [streamType |-> streamType, middleware |-> j.slice]
    OBVIOUS
  <2>3. /\ heap' = j.heap /\ routes' = Put(routes, full, rec)
        /\ chain' = Put(chain, full, declared[r] \o mw) /\ UNCHANGED <<routers, declared>>
    BY <1>1, <1>3, <2>1, <2>2 DEF register
  <2>4. /\ j.heap \in Heaps /\ j.slice \in Slices /\ Valid(j.heap, j.slice)
        /\ Elements(j.heap, j.slice) = declared[r] \o mw
        /\ Len(heap) \in Nat /\ (j.slice.array = 0 \/ j.slice.array > Len(heap))
    BY <2>0 DEF CopyOK
  <2>5. \A q \in 1..Len(routers) : /\ Valid(heap', routers[q].middleware)
                                   /\ Elements(heap', routers[q].middleware) = declared[q]
                                   /\ routers[q].middleware.array \in 0..Len(heap)
    BY <2>0, <2>3 DEF CopyOK
  <2>6. \A path \in DOMAIN routes : /\ Valid(heap', routes[path].middleware)
                                    /\ Elements(heap', routes[path].middleware) = chain[path]
    BY <2>0, <2>3 DEF CopyOK
  <2>7. rec.middleware = j.slice
    BY <2>2
  <2>8. /\ DOMAIN routes' = DOMAIN routes \cup {full} /\ routes'[full] = rec
        /\ \A path \in DOMAIN routes : routes'[path] = routes[path]
    BY <1>3, <2>3 DEF Put
  <2>9. /\ DOMAIN chain' = DOMAIN routes \cup {full} /\ chain'[full] = declared[r] \o mw
        /\ \A path \in DOMAIN routes : chain'[path] = chain[path]
    BY <1>3, <2>3 DEF Put, TableInv, TableTyped
  <2>10. TableTyped'
    BY <2>3, <2>4, <2>8, <2>9 DEF TableInv, TableTyped
  <2>11. RoutersSee'
    BY <2>3, <2>5 DEF RoutersSee
  <2>12. RoutesSee'
    <3>1. ASSUME NEW path \in DOMAIN routes \cup {full}
          PROVE  /\ Valid(heap', routes'[path].middleware)
                 /\ Elements(heap', routes'[path].middleware) = chain'[path]
      <4>1. CASE path = full
        BY <2>3, <2>4, <2>7, <2>8, <2>9, <4>1
      <4>2. CASE path \in DOMAIN routes
        BY <2>6, <2>8, <2>9, <4>2
      <4>3. QED
        BY <4>1, <4>2
    <3>2. QED
      BY <2>8, <3>1 DEF RoutesSee
  <2>13. RoutersApart'
    BY <2>3 DEF TableInv, RoutersApart
  <2>14. RoutesApart'
    <3>1. ASSUME NEW path \in DOMAIN routes \cup {full}, NEW q \in 1..Len(routers),
                 routes'[path].middleware.array # 0
          PROVE  routes'[path].middleware.array # routers[q].middleware.array
      <4>1. CASE path = full
        BY <2>4, <2>5, <2>7, <2>8, <3>1, <4>1
      <4>2. CASE path \in DOMAIN routes
        BY <2>8, <3>1, <4>2 DEF TableInv, RoutesApart
      <4>3. QED
        BY <4>1, <4>2
    <3>2. QED
      BY <2>3, <2>8, <3>1 DEF RoutesApart
  <2>15. QED
    BY <2>10, <2>11, <2>12, <2>13, <2>14 DEF TableInv
<1>4. QED
  BY <1>2, <1>3


-----------------------------------------------------------------------------
(* Route strings.                                                           *)

\* Induction: a set of naturals that is not empty has a least element.
LEMMA LeastNatural ==
  ASSUME NEW T, T \subseteq Nat, T # {}
  PROVE  \E n \in T : \A m \in T : n <= m
<1> DEFINE Below == {1..n : n \in T}
<1>1. IsWellFoundedOn(StrictSubsetOrdering(Nat), FiniteSubsetsOf(Nat))
  BY FS_StrictSubsetOrderingWellFounded
<1>2. Below \subseteq FiniteSubsetsOf(Nat) /\ Below # {}
  <2>1. ASSUME NEW n \in T PROVE 1..n \in FiniteSubsetsOf(Nat)
    <3>1. IsFiniteSet(1..n)
      BY FS_Interval
    <3>2. QED
      BY <3>1 DEF FiniteSubsetsOf
  <2>2. QED
    BY <2>1
<1>3. PICK X \in Below : \A Y \in Below : <<Y, X>> \notin StrictSubsetOrdering(Nat)
  <2> HIDE DEF Below
  <2>1. QED
    BY <1>1, <1>2, WFMin
<1>4. PICK n \in T : X = 1..n
  BY <1>3
<1>5. ASSUME NEW m \in T, m < n
      PROVE  FALSE
  <2>1. <<1..m, 1..n>> \notin StrictSubsetOrdering(Nat)
    BY <1>3, <1>4
  <2>2. 1..m \subseteq 1..n /\ n \in 1..n /\ n \notin 1..m /\ 1..m \subseteq Nat /\ 1..n \subseteq Nat
    BY <1>5
  <2>3. QED
    BY <2>1, <2>2 DEF StrictSubsetOrdering
<1>6. QED
  BY <1>5

\* f is what the loop of normalizeRoute leaves after each part.
Loop(f, r) ==
  f = [n \in 0..Len(r) |->
         IF n = 0 THEN <<>> ELSE IF r[n] = "" THEN f[n - 1] ELSE Append(f[n - 1], r[n])]

LEMMA Unfold ==
  ASSUME NEW r, NEW g, Loop(g, r)
  PROVE  \E f : Loop(f, r) /\ cleanParts(r) = f[Len(r)]
BY DEF cleanParts, Loop

LEMMA FirstParts ==
  ASSUME NEW S, NEW r \in Seq(S), NEW n \in 0..Len(r)
  PROVE  /\ SubSeq(r, 1, n) \in Seq(S) /\ Len(SubSeq(r, 1, n)) = n
         /\ \A i \in 1..n : SubSeq(r, 1, n)[i] = r[i]
<1>1. n \in Nat /\ \A i \in 1..n : r[i] \in S
  OBVIOUS
<1>2. QED
  BY <1>1, SubSeqProperties

LEMMA OnePartMore ==
  ASSUME NEW S, NEW r \in Seq(S), NEW n \in 1..Len(r)
  PROVE  SubSeq(r, 1, n) = Append(SubSeq(r, 1, n - 1), r[n])
<1>1. n - 1 \in 0..Len(r) /\ n \in 0..Len(r) /\ r[n] \in S
  OBVIOUS
<1>2. PICK m \in 0..Len(r) : m = n - 1
  BY <1>1
<1>3. PICK p \in Seq(S) : p = SubSeq(r, 1, m) /\ Len(p) = m /\ \A i \in 1..m : p[i] = r[i]
  <2>1. /\ SubSeq(r, 1, m) \in Seq(S)
        /\ Len(SubSeq(r, 1, m)) = m /\ \A i \in 1..m : SubSeq(r, 1, m)[i] = r[i]
    BY FirstParts
  <2>2. QED
    BY <2>1
<1>4. PICK q \in Seq(S) : q = SubSeq(r, 1, n) /\ Len(q) = n /\ \A i \in 1..n : q[i] = r[i]
  <2>1. n \in 0..Len(r)
    BY <1>1
  <2>2. /\ SubSeq(r, 1, n) \in Seq(S)
        /\ Len(SubSeq(r, 1, n)) = n /\ \A i \in 1..n : SubSeq(r, 1, n)[i] = r[i]
    BY <2>1, FirstParts
  <2>3. QED
    BY <2>2
<1>5. /\ Append(p, r[n]) \in Seq(S) /\ Len(Append(p, r[n])) = m + 1
      /\ Append(p, r[n])[m + 1] = r[n] /\ \A i \in 1..m : Append(p, r[n])[i] = p[i]
  BY <1>1, <1>3, AppendProperties
<1>6. PICK a \in Seq(S) : a = Append(p, r[n])
  BY <1>5
<1>7. Len(a) = n /\ \A i \in 1..n : a[i] = r[i]
  BY <1>2, <1>3, <1>5, <1>6
<1>8. a = q
  BY <1>4, <1>7, SeqEqual
<1>9. QED
  BY <1>2, <1>3, <1>4, <1>6, <1>8

\* A route string without empty parts is left as it is.
LEMMA CleanNames ==
  ASSUME NEW r \in Seq(Names)
  PROVE  cleanParts(r) = r
<1> DEFINE g == [n \in 0..Len(r) |-> SubSeq(r, 1, n)]
<1>1. Len(r) \in Nat
  OBVIOUS
<1>0. \A n \in 1..Len(r) : r[n] # ""
  <2>1. \A n \in 1..Len(r) : r[n] \in Names
    OBVIOUS
  <2>2. QED
    BY <2>1, RoutesAssumption, Zenon
<1>2. SubSeq(r, 1, 0) = <<>>
  <2>1. SubSeq(r, 1, 0) \in Seq(Names) /\ Len(SubSeq(r, 1, 0)) = 0
    <3>1. 0 \in 0..Len(r)
      BY <1>1
    <3>2. QED
      BY <3>1, FirstParts
  <2>2. QED
    BY <2>1, EmptySeq
<1>3. \A n \in 1..Len(r) : SubSeq(r, 1, n) = Append(SubSeq(r, 1, n - 1), r[n])
  BY OnePartMore
<1>4. Loop(g, r)
  <2>1. ASSUME NEW n \in 0..Len(r)
        PROVE  g[n] = IF n = 0 THEN <<>> ELSE IF r[n] = "" THEN g[n - 1] ELSE Append(g[n - 1], r[n])
    <3>1. CASE n = 0
      BY <1>2, <3>1
    <3>2. CASE n # 0
      <4>1. n \in 1..Len(r) /\ n - 1 \in 0..Len(r)
        BY <1>1, <3>2
      <4>2. g[n - 1] = SubSeq(r, 1, n - 1) /\ g[n] = SubSeq(r, 1, n)
        BY <4>1
      <4>3. QED
        BY <1>0, <1>3, <3>2, <4>1, <4>2
    <3>3. QED
      BY <3>1, <3>2
  <2> HIDE DEF g
  <2>2. DOMAIN g = 0..Len(r) /\ g = [n \in 0..Len(r) |-> g[n]]
    BY DEF g
  <2>3. QED
    BY <2>1, <2>2 DEF Loop
<1>5. PICK f : Loop(f, r) /\ cleanParts(r) = f[Len(r)]
  <2> HIDE DEF g
  <2>1. QED
    BY <1>4, Unfold
<1>6. /\ f[0] = <<>>
      /\ \A n \in 1..Len(r) : f[n] = Append(f[n - 1], r[n])
  <2>1. f[0] = <<>>
    <3>1. 0 \in 0..Len(r)
      BY <1>1
    <3>2. QED
      BY <1>5, <3>1, Zenon DEF Loop
  <2>2. ASSUME NEW n \in 1..Len(r)
        PROVE  f[n] = Append(f[n - 1], r[n])
    <3>1. n \in 0..Len(r) /\ n # 0
      BY <1>1
    <3>3. r[n] # ""
      BY <1>0
    <3>2. QED
      BY <1>5, <3>1, <3>3 DEF Loop
  <2>3. QED
    BY <2>1, <2>2
<1>7. \A n \in 0..Len(r) : f[n] = SubSeq(r, 1, n)
  <2> DEFINE T == {n \in 0..Len(r) : f[n] # SubSeq(r, 1, n)}
  <2>1. SUFFICES ASSUME T # {} PROVE FALSE
    OBVIOUS
  <2>2. T \subseteq Nat
    BY <1>1
  <2>3. PICK n \in T : \A m \in T : n <= m
    <3> HIDE DEF T
    <3>1. QED
      BY <2>1, <2>2, LeastNatural
  <2>4. n \in 1..Len(r)
    <3>1. n # 0
      BY <1>2, <1>6, Zenon
    <3>2. QED
      BY <1>1, <3>1
  <2>5. n - 1 \in 0..Len(r) /\ n - 1 \notin T
    BY <1>1, <2>3, <2>4
  <2>6. f[n - 1] = SubSeq(r, 1, n - 1)
    BY <2>5
  <2>7. f[n] = SubSeq(r, 1, n)
    BY <1>3, <1>6, <2>4, <2>6
  <2>8. QED
    BY <2>3, <2>7
<1>8. SubSeq(r, 1, Len(r)) = r
  <2>1. Len(r) \in 0..Len(r)
    BY <1>1
  <2>2. PICK q \in Seq(Names) : q = SubSeq(r, 1, Len(r)) /\ Len(q) = Len(r)
                                /\ \A i \in 1..Len(r) : q[i] = r[i]
    BY <2>1, FirstParts
  <2>3. q = r
    BY <2>2, SeqEqual
  <2>4. QED
    BY <2>2, <2>3
<1>9. QED
  BY <1>1, <1>5, <1>7, <1>8

LEMMA CleanEmpty == cleanParts(Empty) = <<>>
<1> DEFINE g == [n \in 0..1 |-> <<>>]
<1>1. Len(Empty) = 1 /\ Empty[1] = ""
  BY DEF Empty
<1>2. Loop(g, Empty)
  <2>1. ASSUME NEW n \in 0..1
        PROVE  g[n] = IF n = 0 THEN <<>>
                      ELSE IF Empty[n] = "" THEN g[n - 1] ELSE Append(g[n - 1], Empty[n])
    <3>1. n = 0 \/ n = 1
      OBVIOUS
    <3>2. g[0] = <<>> /\ g[1] = <<>>
      OBVIOUS
    <3>3. CASE n = 0
      BY <3>2, <3>3
    <3>4. CASE n = 1
      <4> HIDE DEF g
      <4>1. n - 1 = 0 /\ n # 0
        BY <3>4
      <4>2. Empty[n] = ""
        BY <1>1, <3>4, Zenon
      <4>3. QED
        BY <3>2, <3>4, <4>1, <4>2, Zenon
    <3>5. QED
      BY <3>1, <3>3, <3>4
  <2> HIDE DEF g
  <2>2. g = [n \in 0..1 |-> g[n]]
    BY DEF g
  <2>3. QED
    BY <1>1, <2>1, <2>2 DEF Loop
<1>3. PICK f : Loop(f, Empty) /\ cleanParts(Empty) = f[1]
  <2> HIDE DEF g
  <2>1. QED
    BY <1>1, <1>2, Unfold
<1>4. f[0] = <<>> /\ f[1] = f[0]
  <2>1. 0 \in 0..1 /\ 1 \in 0..1 /\ 1 # 0 /\ 1 - 1 = 0
    OBVIOUS
  <2>2. f = [n \in 0..1 |-> IF n = 0 THEN <<>>
                            ELSE IF Empty[n] = "" THEN f[n - 1] ELSE Append(f[n - 1], Empty[n])]
    BY <1>1, <1>3, Zenon DEF Loop
  <2>3. f[0] = <<>>
    BY <2>1, <2>2, Zenon
  <2>4. f[1] = f[1 - 1]
    BY <1>1, <2>1, <2>2, Zenon
  <2>5. QED
    BY <2>1, <2>3, <2>4, Zenon
<1>5. QED
  BY <1>3, <1>4


\* A route string as the table keeps it.
Normal(p) == p \in Seq(Names) /\ p # <<>>

LEMMA NormalStays ==
  ASSUME NEW p, Normal(p)
  PROVE  normalizeRoute(p) = p
<1>1. cleanParts(p) = p
  BY CleanNames DEF Normal
<1>2. QED
  BY <1>1, Zenon DEF normalizeRoute, Normal

LEMMA RootNormal == Normal(Root)
<1>1. PICK x \in Names : x = "root"
  BY RoutesAssumption, Zenon
<1>2. <<x>> \in Seq(Names) /\ Len(<<x>>) = 1
  OBVIOUS
<1>3. <<x>> # <<>>
  BY <1>2
<1>4. QED
  BY <1>1, <1>2, <1>3, Zenon DEF Normal, Root

\* What normalizeRoute makes of a route string that Group and register accept.
LEMMA DotRouteNormal ==
  ASSUME NEW p \in Seq(STRING), isDotRoute(p)
  PROVE  Normal(normalizeRoute(p))
<1>1. CASE p = Empty
  <2>1. normalizeRoute(p) = Root
    BY <1>1, CleanEmpty, Zenon DEF normalizeRoute
  <2>2. QED
    BY <2>1, RootNormal
<1>2. CASE p # Empty
  <2>1. \A x \in Range(p) : x \in Names
    BY <1>2 DEF isDotRoute
  <2>2. DOMAIN p = 1..Len(p)
    OBVIOUS
  <2>3. \A i \in 1..Len(p) : p[i] \in Names
    BY <2>1, <2>2, Zenon DEF Range
  <2>4. p \in Seq(Names)
    <3>1. p = [i \in 1..Len(p) |-> p[i]] /\ Len(p) \in Nat
      OBVIOUS
    <3>2. QED
      BY <2>3, <3>1
  <2>5. cleanParts(p) = p
    BY <2>4, CleanNames
  <2>6. CASE p = <<>>
    <3>1. normalizeRoute(p) = Root
      BY <2>5, <2>6, Zenon DEF normalizeRoute
    <3>2. QED
      BY <3>1, RootNormal
  <2>7. CASE p # <<>>
    <3>1. normalizeRoute(p) = p
      BY <2>5, <2>7, Zenon DEF normalizeRoute
    <3>2. QED
      BY <2>4, <2>7, <3>1 DEF Normal
  <2>8. QED
    BY <2>6, <2>7
<1>3. QED
  BY <1>1, <1>2

LEMMA NormalConcat ==
  ASSUME NEW p, NEW q, Normal(p), Normal(q)
  PROVE  Normal(p \o q)
<1>1. p \in Seq(Names) /\ q \in Seq(Names) /\ p # <<>>
  BY DEF Normal
<1>2. /\ p \o q \in Seq(Names) /\ Len(p \o q) = Len(p) + Len(q)
      /\ Len(p) \in Nat /\ Len(q) \in Nat
  BY <1>1, ConcatProperties
<1>3. Len(p) # 0
  BY <1>1, EmptySeq
<1>4. Len(p \o q) # 0
  BY <1>2, <1>3
<1>5. p \o q # <<>>
  BY <1>4
<1>6. QED
  BY <1>2, <1>5 DEF Normal

LEMMA JoinNormal ==
  ASSUME NEW prefix, prefix = Empty \/ Normal(prefix), NEW arg \in Seq(STRING), isDotRoute(arg)
  PROVE  Normal(joinRoute(prefix, arg))
<1>1. PICK p : p = normalizeRoute(prefix)
  OBVIOUS
<1>2. PICK s : s = normalizeRoute(arg)
  OBVIOUS
<1>3. Normal(s)
  BY <1>2, DotRouteNormal
<1>4. Normal(p)
  <2>1. CASE prefix = Empty
    <3>1. normalizeRoute(prefix) = Root
      BY <2>1, CleanEmpty, Zenon DEF normalizeRoute
    <3>2. QED
      BY <1>1, <3>1, RootNormal
  <2>2. CASE Normal(prefix)
    BY <1>1, <2>2, NormalStays
  <2>3. QED
    BY <2>1, <2>2
<1>5. Normal(p \o s)
  BY <1>3, <1>4, NormalConcat
<1>6. joinRoute(prefix, arg) \in {p, s, p \o s}
  BY <1>1, <1>2, Zenon DEF joinRoute
<1>7. QED
  BY <1>3, <1>4, <1>5, <1>6

PathsInv ==
  /\ \A r \in 1..Len(routers) : routers[r].prefix = Empty \/ Normal(routers[r].prefix)
  /\ \A path \in DOMAIN routes : Normal(path)


\* The paths and prefixes that a call while the server starts leaves.
LEMMA PathsKept ==
  ASSUME PathsInv, UNCHANGED <<routers, routes>>
  PROVE  PathsInv'
BY DEF PathsInv

LEMMA UsePaths ==
  ASSUME TableInv, PathsInv, NEW r \in 1..Len(routers), NEW mw, NEW spare, Use(r, mw, spare)
  PROVE  PathsInv'
<1>1. PICK slice : routers' = [routers EXCEPT ![r].middleware = slice] /\ routes' = routes
  BY DEF Use
<1>2. Len(routers') = Len(routers) /\ \A q \in 1..Len(routers) : routers[q] \in RouterRecord
  BY <1>1 DEF TableInv, TableTyped
<1>3. \A q \in 1..Len(routers) : routers'[q].prefix = routers[q].prefix
  <2>1. TAKE q \in 1..Len(routers)
  <2>2. CASE q # r
    BY <1>1, <2>2 DEF TableInv, TableTyped
  <2>3. CASE q = r
    <3>1. routers'[q] = [routers[q] EXCEPT !.middleware = slice]
      <4>1. PICK new : new = [routers[r] EXCEPT !.middleware = slice]
        OBVIOUS
      <4>2. routers' = [routers EXCEPT ![r] = new]
        BY <1>1, <4>1, Zenon
      <4>3. DOMAIN routers = 1..Len(routers)
        BY DEF TableInv, TableTyped
      <4>4. routers'[r] = new
        BY <4>2, <4>3
      <4>5. QED
        BY <2>3, <4>1, <4>4
    <3>2. PICK rec \in RouterRecord : rec = routers[q]
      BY <1>2
    <3>3. [rec EXCEPT !.middleware = slice].prefix = rec.prefix
      BY DEF RouterRecord
    <3>4. QED
      BY <3>1, <3>2, <3>3
  <2>4. QED
    BY <2>2, <2>3
<1>4. QED
  BY <1>1, <1>2, <1>3 DEF PathsInv

LEMMA GroupPaths ==
  ASSUME TableInv, PathsInv, NEW r \in 1..Len(routers), NEW arg \in Args, NEW mw, NEW spare,
         Group(r, arg, mw, spare)
  PROVE  PathsInv'
<1>1. CASE ~isDotRoute(arg)
  BY <1>1, PathsKept DEF Group, Panics
<1>2. CASE isDotRoute(arg)
  <2>1. PICK prefix : prefix = joinRoute(routers[r].prefix, arg)
    OBVIOUS
  <2>2. PICK slice : routers' = Append(routers, [prefix |-> prefix, middleware |-> slice])
                     /\ routes' = routes
    BY <1>2, <2>1 DEF Group
  <2>3. arg \in Seq(STRING)
    BY RoutesAssumption, Zenon
  <2>4. routers[r].prefix = Empty \/ Normal(routers[r].prefix)
    BY DEF PathsInv
  <2>5. Normal(prefix)
    BY <1>2, <2>1, <2>3, <2>4, JoinNormal
  <2>6. PICK S : routers \in Seq(S) /\ [prefix |-> prefix, middleware |-> slice] \in S
    <3>1. routers \in Seq(RouterRecord \cup {[prefix |-> prefix, middleware |-> slice]})
      <4>1. routers \in Seq(RouterRecord)
        BY DEF TableInv, TableTyped
      <4>2. QED
        BY <4>1
    <3>2. QED
      BY <3>1
  <2>7. PICK rec \in S : rec = [prefix |-> prefix, middleware |-> slice]
    BY <2>6
  <2>8. /\ Len(routers') = Len(routers) + 1 /\ Len(routers) \in Nat
        /\ routers'[Len(routers) + 1] = rec
        /\ \A q \in 1..Len(routers) : routers'[q] = routers[q]
    BY <2>2, <2>6, <2>7, AppendProperties
  <2>9. \A q \in 1..Len(routers') : q \in 1..Len(routers) \/ q = Len(routers) + 1
    BY <2>8
  <2>10. rec.prefix = prefix
    BY <2>7
  <2>11. \A q \in 1..Len(routers') : routers'[q].prefix = Empty \/ Normal(routers'[q].prefix)
    <3>1. TAKE q \in 1..Len(routers')
    <3>2. CASE q \in 1..Len(routers)
      BY <2>8, <3>2, Zenon DEF PathsInv
    <3>3. CASE q = Len(routers) + 1
      BY <2>5, <2>8, <2>10, <3>3, Zenon
    <3>4. QED
      BY <2>9, <3>2, <3>3
  <2>12. QED
    BY <2>2, <2>11, Zenon DEF PathsInv
<1>3. QED
  BY <1>1, <1>2

LEMMA RegisterPaths ==
  ASSUME PathsInv, NEW r \in 1..Len(routers), NEW arg \in Args, NEW mw, NEW spare,
         NEW streamType, register(r, streamType, arg, mw, spare)
  PROVE  PathsInv'
<1>1. PICK full : full = joinRoute(routers[r].prefix, arg)
  OBVIOUS
<1>2. CASE ~(isDotRoute(arg) /\ full \notin DOMAIN routes)
  BY <1>1, <1>2, PathsKept DEF register, Panics
<1>3. CASE isDotRoute(arg) /\ full \notin DOMAIN routes
  <2>1. PICK route : routes' = Put(routes, full, route) /\ routers' = routers
    BY <1>1, <1>3 DEF register
  <2>2. arg \in Seq(STRING)
    BY RoutesAssumption, Zenon
  <2>3. routers[r].prefix = Empty \/ Normal(routers[r].prefix)
    BY DEF PathsInv
  <2>4. Normal(full)
    BY <1>1, <1>3, <2>2, <2>3, JoinNormal
  <2>5. DOMAIN routes' = DOMAIN routes \cup {full}
    BY <2>1 DEF Put
  <2>6. QED
    BY <2>1, <2>4, <2>5 DEF PathsInv
<1>4. QED
  BY <1>2, <1>3

\* What the calls while the server starts keep.
LEMMA CallTable ==
  ASSUME TableInv, PathsInv, NEW r \in 1..Len(routers), NEW mw \in Lists, NEW spare \in 0..1,
         \/ Use(r, mw, spare)
         \/ \E arg \in Args : Group(r, arg, mw, spare)
         \/ \E arg \in Args, streamType \in StreamTypes : register(r, streamType, arg, mw, spare)
  PROVE  TableInv' /\ PathsInv'
<1>1. CASE Use(r, mw, spare)
  BY <1>1, UseTable, UsePaths
<1>2. ASSUME NEW arg \in Args, Group(r, arg, mw, spare)
      PROVE  TableInv' /\ PathsInv'
  <2>1. isDotRoute(arg) => joinRoute(routers[r].prefix, arg) \in Paths
    <3>1. HAVE isDotRoute(arg)
    <3>2. arg \in Seq(STRING)
      BY RoutesAssumption, Zenon
    <3>3. routers[r].prefix = Empty \/ Normal(routers[r].prefix)
      BY DEF PathsInv
    <3>4. PICK p : p = routers[r].prefix
      OBVIOUS
    <3>5. Normal(joinRoute(p, arg))
      BY <3>1, <3>2, <3>3, <3>4, JoinNormal
    <3>6. QED
      BY <3>4, <3>5, Zenon DEF Normal, Paths
  <2>2. QED
    BY <1>2, <2>1, GroupTable, GroupPaths
<1>3. ASSUME NEW arg \in Args, NEW streamType \in StreamTypes,
             register(r, streamType, arg, mw, spare)
      PROVE  TableInv' /\ PathsInv'
  BY <1>3, RegisterTable, RegisterPaths
<1>4. QED
  BY <1>1, <1>2, <1>3


-----------------------------------------------------------------------------
(* Requests.                                                                *)

Steps == {"none", "bad request", "not found", "next", "middleware", "answered", "endpoint",
          "handled", "internal error"}

Requests == [step : Steps, path : Paths, index : Nat]

\* What the request has been through, at each step of Next.
RequestInv ==
  /\ ctx \in Requests
  /\ ctx = NoRequest \/ phase = "serve"
  /\ ctx.step \in {"next", "middleware", "endpoint", "handled"} => ctx.path \in DOMAIN routes
  /\ ctx.step = "next" =>
       /\ ctx.index <= Len(chain[ctx.path])
       /\ ran = SubSeq(chain[ctx.path], 1, ctx.index)
  /\ ctx.step = "middleware" =>
       /\ ctx.index \in 1..Len(chain[ctx.path])
       /\ ran = SubSeq(chain[ctx.path], 1, ctx.index - 1)
  /\ ctx.step \in {"endpoint", "handled"} => ran = chain[ctx.path]

LEMMA NoRequestTyped == NoRequest \in Requests
<1>1. Empty \in Paths
  BY Zenon DEF Paths
<1>2. QED
  BY <1>1 DEF NoRequest, Requests, Steps

\* A call while the server starts finds no request.
LEMMA NoRequestYet ==
  ASSUME RequestInv, phase = "start", ctx' = ctx
  PROVE  RequestInv'
<1>1. ctx = NoRequest
  BY DEF RequestInv
<1>2. ctx' = NoRequest /\ NoRequest.step = "none"
  BY <1>1 DEF NoRequest
<1>3. QED
  BY <1>2, NoRequestTyped DEF RequestInv

LEMMA ChainsTyped ==
  ASSUME TableInv, NEW path \in DOMAIN routes
  PROVE  /\ chain[path] \in Seq(Cells) /\ Len(chain[path]) \in Nat
         /\ Len(chain[path]) = routes[path].middleware.len
         /\ Elements(heap, routes[path].middleware) = chain[path]
<1>1. PICK s : s = routes[path].middleware
  OBVIOUS
<1>2. heap \in Heaps /\ Valid(heap, s) /\ Elements(heap, s) = chain[path]
  BY <1>1 DEF TableInv, TableTyped, RoutesSee
<1>3. QED
  BY <1>1, <1>2, ElementsOf

LEMMA HandleRequest ==
  ASSUME TableInv, PathsInv, RequestInv, NEW op \in Ops, Handle(op)
  PROVE  RequestInv'
<1>1. PICK path : path = normalizeRoute(op)
  OBVIOUS
<1>2. phase' = "serve" /\ ran' = <<>> /\ routes' = routes /\ chain' = chain
  BY DEF Handle
<1>3. CASE op = Empty \/ ~isDotRoute(op) \/ path \notin DOMAIN routes
  <2>1. \/ ctx' = [NoRequest EXCEPT !.step = "bad request"]
        \/ ctx' = [NoRequest EXCEPT !.step = "not found"]
    BY <1>1, <1>3 DEF Handle
  <2>2. ctx' \in Requests /\ ctx'.step \in {"bad request", "not found"}
    BY <2>1, NoRequestTyped DEF Requests, Steps, NoRequest
  <2>3. QED
    BY <1>2, <2>2 DEF RequestInv
<1>4. CASE ~(op = Empty \/ ~isDotRoute(op) \/ path \notin DOMAIN routes)
  <2>1. ctx' = [step |-> "next", path |-> path, index |-> 0] /\ path \in DOMAIN routes
    BY <1>1, <1>4 DEF Handle
  <2>2. Normal(path)
    BY <2>1 DEF PathsInv
  <2>3. path \in Paths
    BY <2>2, Zenon DEF Normal, Paths
  <2>4. PICK c \in Seq(Cells) : c = chain[path] /\ Len(c) \in Nat
    BY <2>1, ChainsTyped
  <2>5. SubSeq(c, 1, 0) = <<>>
    <3>1. 0 \in 0..Len(c)
      BY <2>4
    <3>2. SubSeq(c, 1, 0) \in Seq(Cells) /\ Len(SubSeq(c, 1, 0)) = 0
      BY <3>1, FirstParts
    <3>3. QED
      BY <3>2, EmptySeq
  <2>6. /\ ctx' \in Requests /\ ctx'.step = "next" /\ ctx'.path = path /\ ctx'.index = 0
    BY <2>1, <2>3 DEF Requests, Steps
  <2>7. 0 <= Len(c)
    BY <2>4
  <2>8. QED
    BY <1>2, <2>1, <2>4, <2>5, <2>6, <2>7 DEF RequestInv
<1>5. QED
  BY <1>3, <1>4

LEMMA NextRequest ==
  ASSUME TableInv, RequestInv, ContextNext
  PROVE  RequestInv'
<1>1. PICK path, i, c : path = ctx.path /\ i = ctx.index /\ c = chain[path]
  OBVIOUS
<1>2. path \in DOMAIN routes /\ i \in Nat /\ i <= Len(c) /\ ran = SubSeq(c, 1, i) /\ path \in Paths
  BY <1>1 DEF RequestInv, ContextNext, Requests
<1>3. c \in Seq(Cells) /\ Len(c) \in Nat /\ Len(c) = ContextChain.len
  BY <1>1, <1>2, ChainsTyped DEF ContextChain
<1>4. UNCHANGED <<routes, phase, chain, ran>>
  BY DEF ContextNext
<1>5. PICK step \in {"endpoint", "middleware"} :
        step = IF i >= ContextChain.len THEN "endpoint" ELSE "middleware"
  OBVIOUS
<1>6. ctx \in Requests /\ ctx' = [ctx EXCEPT !.index = i + 1, !.step = step]
  BY <1>1, <1>5 DEF ContextNext, RequestInv
<1>7. ctx' \in Requests /\ ctx'.step = step /\ ctx'.path = path /\ ctx'.index = i + 1
  <2>1. PICK n \in Nat : n = i + 1
    BY <1>2
  <2>2. PICK c1 \in Requests : c1 = [ctx EXCEPT !.index = n] /\ c1.path = path /\ c1.index = n
    <3>1. [ctx EXCEPT !.index = n] \in Requests
      BY <1>6 DEF Requests
    <3>2. [ctx EXCEPT !.index = n].path = path /\ [ctx EXCEPT !.index = n].index = n
      BY <1>1, <1>6 DEF Requests
    <3>3. QED
      BY <3>1, <3>2
  <2>3. step \in Steps
    BY DEF Steps
  <2>4. /\ [c1 EXCEPT !.step = step] \in Requests
        /\ [c1 EXCEPT !.step = step].path = path
        /\ [c1 EXCEPT !.step = step].index = n
        /\ [c1 EXCEPT !.step = step].step = step
    BY <2>2, <2>3 DEF Requests
  <2>5. ctx' = [c1 EXCEPT !.step = step]
    BY <1>6, <2>1, <2>2 DEF Requests
  <2>6. QED
    BY <2>1, <2>4, <2>5
<1>8. phase = "serve"
  <2>1. ctx.step = "next" /\ NoRequest.step = "none"
    BY DEF ContextNext, NoRequest
  <2>2. ctx # NoRequest
    BY <2>1
  <2>3. QED
    BY <2>2 DEF RequestInv
<1>9. CASE i >= Len(c)
  <2>1. i = Len(c) /\ step = "endpoint"
    BY <1>2, <1>3, <1>5, <1>9
  <2>2. ran = c
    <3>1. Len(c) \in 0..Len(c)
      BY <1>3
    <3>2. PICK q \in Seq(Cells) : q = SubSeq(c, 1, Len(c)) /\ Len(q) = Len(c)
                                  /\ \A k \in 1..Len(c) : q[k] = c[k]
      BY <1>3, <3>1, FirstParts
    <3>3. q = c
      BY <1>3, <3>2, SeqEqual
    <3>4. QED
      BY <1>2, <2>1, <3>2, <3>3
  <2>3. QED
    BY <1>1, <1>2, <1>4, <1>7, <1>8, <2>1, <2>2 DEF RequestInv
<1>10. CASE i < Len(c)
  <2>1. step = "middleware"
    BY <1>2, <1>3, <1>5, <1>10
  <2>2. i + 1 \in 1..Len(c) /\ (i + 1) - 1 = i
    BY <1>2, <1>3, <1>10
  <2>3. ran' = SubSeq(c, 1, ctx'.index - 1) /\ ctx'.index \in 1..Len(c)
    BY <1>2, <1>4, <1>7, <2>2
  <2>4. chain'[ctx'.path] = c
    BY <1>1, <1>4, <1>7
  <2>5. QED
    BY <1>2, <1>4, <1>7, <1>8, <2>1, <2>3, <2>4 DEF RequestInv
<1>11. QED
  BY <1>2, <1>3, <1>9, <1>10

LEMMA MiddlewareRequest ==
  ASSUME TableInv, RequestInv, RunMiddleware
  PROVE  RequestInv'
<1>1. PICK path, i, c : path = ctx.path /\ i = ctx.index /\ c = chain[path]
  OBVIOUS
<1>2. /\ path \in DOMAIN routes /\ i \in Nat /\ i \in 1..Len(c)
      /\ ran = SubSeq(c, 1, i - 1) /\ path \in Paths
  BY <1>1 DEF RequestInv, RunMiddleware, Requests
<1>3. c \in Seq(Cells) /\ Len(c) \in Nat /\ Elements(heap, ContextChain) = c
  BY <1>1, <1>2, ChainsTyped DEF ContextChain
<1>4. UNCHANGED <<routes, phase, chain>> /\ ran' = Append(ran, c[i])
  BY <1>1, <1>3 DEF RunMiddleware
<1>5. PICK step \in {"next", "answered"} : ctx' = [ctx EXCEPT !.step = step]
  BY DEF RunMiddleware
<1>6. ctx \in Requests
  BY DEF RequestInv
<1>7. ctx' \in Requests /\ ctx'.step = step /\ ctx'.path = path /\ ctx'.index = i
  BY <1>1, <1>5, <1>6 DEF Requests, Steps
<1>8. phase = "serve"
  <2>1. ctx.step = "middleware" /\ NoRequest.step = "none"
    BY DEF RunMiddleware, NoRequest
  <2>2. ctx # NoRequest
    BY <2>1
  <2>3. QED
    BY <2>2 DEF RequestInv
<1>9. ran' = SubSeq(c, 1, i)
  BY <1>2, <1>3, <1>4, OnePartMore
<1>10. i <= Len(c)
  BY <1>2, <1>3
<1>11. QED
  BY <1>1, <1>2, <1>4, <1>7, <1>8, <1>9, <1>10 DEF RequestInv

LEMMA EndpointRequest ==
  ASSUME RequestInv, Endpoint
  PROVE  RequestInv'
<1>1. UNCHANGED <<routes, phase, chain, ran>> /\ ctx.step = "endpoint"
  BY DEF Endpoint
<1>2. PICK step \in {"handled", "internal error"} : ctx' = [ctx EXCEPT !.step = step]
  BY DEF Endpoint
<1>3. ctx \in Requests /\ ctx.path \in DOMAIN routes /\ ran = chain[ctx.path]
  BY <1>1 DEF RequestInv
<1>4. ctx' \in Requests /\ ctx'.step = step /\ ctx'.path = ctx.path
  BY <1>2, <1>3 DEF Requests, Steps
<1>5. phase = "serve"
  <2>1. NoRequest.step = "none"
    BY DEF NoRequest
  <2>2. ctx # NoRequest
    BY <1>1, <2>1
  <2>3. QED
    BY <2>2 DEF RequestInv
<1>6. QED
  BY <1>1, <1>3, <1>4, <1>5 DEF RequestInv


-----------------------------------------------------------------------------
(* The inductive invariant.                                                 *)

RoutesInv == TableInv /\ PathsInv /\ RequestInv

LEMMA RoutesInit == Init => RoutesInv
<1>1. SUFFICES ASSUME Init PROVE RoutesInv
  OBVIOUS
<1>2. PICK rec : rec = [prefix |-> Empty, middleware |-> NilSlice]
  OBVIOUS
<1>3. Empty \in Paths /\ NilSlice \in Slices /\ NilSlice.array = 0 /\ NilSlice.len = 0
  <2>1. Empty \in Paths
    BY Zenon DEF Paths
  <2>2. QED
    BY <2>1 DEF NilSlice, Slices
<1>4. rec \in RouterRecord /\ rec.middleware = NilSlice /\ rec.prefix = Empty
  BY <1>2, <1>3 DEF RouterRecord
<1>5. routers = <<rec>> /\ heap = <<>> /\ declared = <<<<>>>> /\ DOMAIN routes = {} /\ DOMAIN chain = {}
  BY <1>1, <1>2 DEF Init
<1>6. routers \in Seq(RouterRecord) /\ Len(routers) = 1 /\ routers[1] = rec
  BY <1>4, <1>5
<1>7. declared \in Seq(Seq(Cells)) /\ Len(declared) = 1 /\ declared[1] = <<>>
  <2>1. PICK S : S = Seq(Cells)
    OBVIOUS
  <2>2. PICK e \in S : e = <<>>
    <3>1. <<>> \in Seq(Cells)
      OBVIOUS
    <3>2. QED
      BY <2>1, <3>1, Zenon
  <2>3. declared = <<e>>
    BY <1>5, <2>2
  <2>4. declared \in Seq(S) /\ Len(declared) = 1 /\ declared[1] = e
    BY <2>3
  <2>5. QED
    BY <2>1, <2>2, <2>4
<1>8. heap \in Heaps
  BY <1>5 DEF Heaps
<1>9. Valid(heap, NilSlice) /\ Elements(heap, NilSlice) = <<>>
  BY <1>3 DEF Valid, Elements, Slices
<1>10. \A q \in 1..Len(routers) : q = 1
  BY <1>6
<1>11. TableTyped
  BY <1>5, <1>6, <1>7, <1>8 DEF TableTyped
<1>12. RoutersSee
  BY <1>4, <1>6, <1>7, <1>9, <1>10, Zenon DEF RoutersSee
<1>13. RoutesSee /\ RoutesApart
  BY <1>5, Zenon DEF RoutesSee, RoutesApart
<1>14. RoutersApart
  BY <1>10, Zenon DEF RoutersApart
<1>15. PathsInv
  BY <1>4, <1>5, <1>6, <1>10, Zenon DEF PathsInv
<1>16. RequestInv
  <2>1. ctx = NoRequest /\ NoRequest.step = "none"
    BY <1>1 DEF Init, NoRequest
  <2>2. QED
    BY <2>1, NoRequestTyped DEF RequestInv
<1>17. QED
  BY <1>11, <1>12, <1>13, <1>14, <1>15, <1>16 DEF RoutesInv, TableInv

LEMMA RoutesNext ==
  ASSUME RoutesInv, [Next]_vars
  PROVE  RoutesInv'
<1>1. TableInv /\ PathsInv /\ RequestInv
  BY DEF RoutesInv
<1>2. ASSUME NEW r \in 1..Len(routers), NEW mw \in Lists, NEW spare \in 0..1,
             \/ Use(r, mw, spare)
             \/ \E arg \in Args : Group(r, arg, mw, spare)
             \/ \E arg \in Args, streamType \in StreamTypes :
                  register(r, streamType, arg, mw, spare)
      PROVE  RoutesInv'
  <2>1. TableInv' /\ PathsInv'
    BY <1>1, <1>2, CallTable
  <2>2. phase = "start" /\ ctx' = ctx
    BY <1>2 DEF Use, Group, register, Call
  <2>3. QED
    BY <1>1, <2>1, <2>2, NoRequestYet DEF RoutesInv
<1>3. CASE Serve
  <2>1. TableInv' /\ PathsInv'
    BY <1>1, <1>3, PanicTable, PathsKept DEF Serve
  <2>2. RequestInv'
    BY <1>1, <1>3, NoRequestYet DEF Serve
  <2>3. QED
    BY <2>1, <2>2 DEF RoutesInv
<1>4. ASSUME NEW op \in Ops, Handle(op)
      PROVE  RoutesInv'
  <2>1. TableInv' /\ PathsInv'
    BY <1>1, <1>4, PanicTable, PathsKept DEF Handle
  <2>2. RequestInv'
    BY <1>1, <1>4, HandleRequest
  <2>3. QED
    BY <2>1, <2>2 DEF RoutesInv
<1>5. CASE ContextNext
  <2>1. TableInv' /\ PathsInv'
    BY <1>1, <1>5, PanicTable, PathsKept DEF ContextNext
  <2>2. RequestInv'
    BY <1>1, <1>5, NextRequest
  <2>3. QED
    BY <2>1, <2>2 DEF RoutesInv
<1>6. CASE RunMiddleware
  <2>1. TableInv' /\ PathsInv'
    BY <1>1, <1>6, PanicTable, PathsKept DEF RunMiddleware
  <2>2. RequestInv'
    BY <1>1, <1>6, MiddlewareRequest
  <2>3. QED
    BY <2>1, <2>2 DEF RoutesInv
<1>7. CASE Endpoint
  <2>1. TableInv' /\ PathsInv'
    BY <1>1, <1>7, PanicTable, PathsKept DEF Endpoint
  <2>2. RequestInv'
    BY <1>1, <1>7, EndpointRequest
  <2>3. QED
    BY <2>1, <2>2 DEF RoutesInv
<1>8. CASE UNCHANGED vars
  <2>1. TableInv' /\ PathsInv'
    BY <1>1, <1>8, PanicTable, PathsKept DEF vars
  <2>2. RequestInv'
    BY <1>1, <1>8 DEF vars, RequestInv
  <2>3. QED
    BY <2>1, <2>2 DEF RoutesInv
<1>9. QED
  BY <1>2, <1>3, <1>4, <1>5, <1>6, <1>7, <1>8 DEF Next

LEMMA RoutesInvariant == Spec => []RoutesInv
<1>1. Init => RoutesInv
  BY RoutesInit
<1>2. RoutesInv /\ [Next]_vars => RoutesInv'
  BY RoutesNext
<1>3. QED
  BY <1>1, <1>2, PTL DEF Spec

\* Routers and routes keep the middleware they were given, in order: however append
\* shares and grows arrays, no call of Use, Group or register on one router writes what
\* another router or a route registered earlier sees (Group, Use, register).
THEOREM MiddlewareTheorem == Spec => []MiddlewareAsDeclared
<1>1. RoutesInv => MiddlewareAsDeclared
  BY DEF RoutesInv, TableInv, RoutersSee, RoutesSee, MiddlewareAsDeclared
<1>2. QED
  BY <1>1, RoutesInvariant, PTL

\* A handler runs after all the middleware declared for its route, each once and in
\* order, for chains of any length (BaseContext.Next).
THEOREM HandlerTheorem == Spec => []HandlerAfterItsChain
<1>1. RoutesInv => HandlerAfterItsChain
  BY DEF RoutesInv, RequestInv, HandlerAfterItsChain
<1>2. QED
  BY <1>1, RoutesInvariant, PTL

\* The path of every route is an op that Handle accepts and finds again, whatever the
\* route strings and however deep the groups (joinRoute, normalizeRoute, isDotRoute).
THEOREM ReachableTheorem == Spec => []EveryRouteReachable
<1>1. ASSUME PathsInv, NEW path \in DOMAIN routes
      PROVE  path # Empty /\ isDotRoute(path) /\ normalizeRoute(path) = path
  <2>1. Normal(path)
    BY <1>1 DEF PathsInv
  <2>2. path \in Seq(Names)
    BY <2>1 DEF Normal
  <2>3. \A i \in DOMAIN path : path[i] \in Names
    BY <2>2
  <2>4. Range(path) \subseteq Names
    BY <2>3, Zenon DEF Range
  <2>5. path # Empty
    <3>1. 1 \in DOMAIN Empty /\ Empty[1] = ""
      BY DEF Empty
    <3>2. "" \notin Names
      BY RoutesAssumption, Zenon
    <3>3. QED
      BY <2>3, <3>1, <3>2, Zenon
  <2>6. QED
    BY <2>1, <2>4, <2>5, NormalStays, Zenon DEF isDotRoute
<1>2. RoutesInv => EveryRouteReachable
  BY <1>1, Zenon DEF RoutesInv, EveryRouteReachable
<1>3. QED
  BY <1>2, RoutesInvariant, PTL

=============================================================================
