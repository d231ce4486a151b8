--------------------------- MODULE MemStoreProofs ---------------------------
(***************************************************************************)
(* Proofs about MemStore: the maps agree, Save leaves nothing behind, a    *)
(* clean shutdown loses nothing, the file is only ever replaced by a whole *)
(* snapshot, and the pruner deletes what PostgreSQL would, for any number  *)
(* of endpoints, requests and clients and any budgets.                     *)
(***************************************************************************)
EXTENDS MemStore, ListProofs

-----------------------------------------------------------------------------
(* Lists.                                                                  *)

\* A new row at the end of a list.
LEMMA AppendedList ==
  ASSUME NEW S, NEW s \in Seq(S), NEW r \in S, IsInjective(s), r \notin Range(s)
  PROVE  /\ Append(s, r) \in Seq(S)
         /\ IsInjective(Append(s, r))
         /\ Range(Append(s, r)) = Range(s) \cup {r}
BY DEF IsInjective, Range

\* A list without its oldest rows.
LEMMA NewestList ==
  ASSUME NEW S, NEW s \in Seq(S), NEW n \in 0 .. Len(s), IsInjective(s),
         NEW t, t = SubSeq(s, n + 1, Len(s))
  PROVE  /\ t \in Seq(S)
         /\ IsInjective(t)
         /\ Range(t) = Range(s) \ {s[i] : i \in 1 .. n}
<1>1. t \in Seq(S) /\ Len(t) = Len(s) - n /\ \A i \in 1 .. Len(t) : t[i] = s[n + i]
  OBVIOUS
<1>2. IsInjective(t)
  BY <1>1 DEF IsInjective
<1>3. Range(t) = Range(s) \ {s[i] : i \in 1 .. n}
  <2>1. ASSUME NEW x \in Range(t) PROVE x \in Range(s) \ {s[i] : i \in 1 .. n}
    BY <1>1 DEF IsInjective, Range
  <2>2. ASSUME NEW x \in Range(s) \ {s[i] : i \in 1 .. n} PROVE x \in Range(t)
    <3>1. PICK j \in DOMAIN s : x = s[j]
      BY DEF Range
    <3>2. j \in (n + 1) .. Len(s) /\ j - n \in DOMAIN t /\ t[j - n] = x
      BY <1>1, <3>1
    <3> QED BY <3>2 DEF Range
  <2> QED BY <2>1, <2>2
<1> QED BY <1>1, <1>2, <1>3

\* Sequence t is s without its i-th element.
IsGapped(t, s, i) ==
  /\ Len(t) = Len(s) - 1
  /\ \A j \in 1 .. Len(t) : j < i => t[j] = s[j]
  /\ \A j \in 1 .. Len(t) : j >= i => t[j] = s[j + 1]

\* What RemoveAt leaves.
LEMMA RemovedIsGapped ==
  ASSUME NEW S, NEW s \in Seq(S), NEW i \in 1 .. Len(s)
  PROVE  RemoveAt(s, i) \in Seq(S) /\ IsGapped(RemoveAt(s, i), s, i)
<1>0. PICK a, b : a = SubSeq(s, 1, i - 1) /\ b = SubSeq(s, i + 1, Len(s))
  OBVIOUS
<1>1. a \in Seq(S) /\ Len(a) = i - 1 /\ \A j \in 1 .. i - 1 : a[j] = s[j]
  BY <1>0
<1>2. b \in Seq(S) /\ Len(b) = Len(s) - i /\ \A j \in 1 .. Len(s) - i : b[j] = s[i + j]
  BY <1>0
<1>3. /\ a \o b \in Seq(S)
      /\ Len(a \o b) = Len(a) + Len(b)
      /\ \A j \in 1 .. Len(a) + Len(b) : (a \o b)[j] = IF j <= Len(a) THEN a[j] ELSE b[j - Len(a)]
  BY ONLY <1>1, <1>2, ConcatProperties, Zenon
<1>4. PICK t \in Seq(S) : t = a \o b
  BY <1>3
<1>5. /\ Len(t) = Len(s) - 1
      /\ \A j \in 1 .. Len(s) - 1 : t[j] = IF j <= i - 1 THEN a[j] ELSE b[j - (i - 1)]
  BY <1>1, <1>2, <1>3, <1>4
<1>6. ASSUME NEW j \in 1 .. Len(t), j < i PROVE t[j] = s[j]
  BY <1>1, <1>5, <1>6
<1>7. ASSUME NEW j \in 1 .. Len(t), j >= i PROVE t[j] = s[j + 1]
  <2>1. PICK k \in 1 .. Len(s) - i : k = j - (i - 1) /\ i + k = j + 1
    BY <1>5, <1>7
  <2>2. t[j] = b[k]
    BY <1>5, <1>7, <2>1
  <2> QED BY <1>2, <2>1, <2>2
<1>8. RemoveAt(s, i) = t
  BY <1>0, <1>4 DEF RemoveAt
<1> QED BY <1>5, <1>6, <1>7, <1>8 DEF IsGapped

\* It holds the same rows but one, once each.
LEMMA GappedList ==
  ASSUME NEW S, NEW s \in Seq(S), NEW i \in 1 .. Len(s), NEW t \in Seq(S),
         IsInjective(s), IsGapped(t, s, i)
  PROVE  IsInjective(t) /\ Range(t) = Range(s) \ {s[i]}
<1>1. \A j \in 1 .. Len(t) : \E k \in 1 .. Len(s) : /\ t[j] = s[k]
                                                   /\ k # i
                                                   /\ j = IF k < i THEN k ELSE k - 1
  <2> TAKE j \in 1 .. Len(t)
  <2>1. CASE j < i
    <3>1. j \in 1 .. Len(s) /\ t[j] = s[j]
      BY <2>1 DEF IsGapped
    <3> QED BY <2>1, <3>1
  <2>2. CASE j >= i
    <3>1. j + 1 \in 1 .. Len(s) /\ t[j] = s[j + 1]
      BY <2>2 DEF IsGapped
    <3> QED BY <2>2, <3>1
  <2> QED BY <2>1, <2>2
<1>2. \A j, k \in 1 .. Len(s) : s[j] = s[k] => j = k
  BY DEF IsInjective
<1>3. IsInjective(t)
  BY <1>1, <1>2 DEF IsInjective
<1>4. ASSUME NEW x \in Range(t) PROVE x \in Range(s) \ {s[i]}
  <2>1. PICK j \in 1 .. Len(t) : x = t[j]
    BY DEF Range
  <2>2. PICK k \in 1 .. Len(s) : x = s[k] /\ k # i
    BY <1>1, <2>1
  <2> QED BY <1>2, <2>2 DEF Range
<1>5. ASSUME NEW x \in Range(s) \ {s[i]} PROVE x \in Range(t)
  <2>1. PICK j \in 1 .. Len(s) : x = s[j] /\ j # i
    BY DEF Range
  <2>2. CASE j < i
    <3>1. j \in 1 .. Len(t) /\ t[j] = x
      BY <2>1, <2>2 DEF IsGapped
    <3> QED BY <3>1 DEF Range
  <2>3. CASE j > i
    <3>1. PICK k \in 1 .. Len(t) : k = j - 1 /\ k >= i
      BY <2>3 DEF IsGapped
    <3>2. t[k] = s[k + 1]
      BY <3>1 DEF IsGapped
    <3>3. t[k] = x
      BY <2>1, <3>1, <3>2
    <3> QED BY <3>3 DEF Range
  <2> QED BY <2>1, <2>2, <2>3
<1> QED BY <1>3, <1>4, <1>5

\* A list without one row.
LEMMA ListWithout ==
  ASSUME NEW S, NEW s \in Seq(S), NEW i \in DOMAIN s, IsInjective(s),
         NEW t, t = RemoveAt(s, i)
  PROVE  /\ t \in Seq(S)
         /\ IsInjective(t)
         /\ Range(t) = Range(s) \ {s[i]}
<1>1. i \in 1 .. Len(s)
  OBVIOUS
<1>2. t \in Seq(S) /\ IsGapped(t, s, i)
  BY <1>1, RemovedIsGapped
<1> QED BY <1>1, <1>2, GappedList

-----------------------------------------------------------------------------
(* Maps.                                                                   *)

\* Writing an entry, leaving some out, or none, keeps a map's type.
LEMMA MapAdd ==
  ASSUME NEW D, NEW R, NEW f, IsMap(f, D, R), NEW d \in D, NEW v \in R
  PROVE  IsMap(Put(f, d, v), D, R)
BY DEF IsMap, Put

LEMMA MapCut ==
  ASSUME NEW D, NEW R, NEW f, IsMap(f, D, R), NEW S, S \subseteq DOMAIN f
  PROVE  IsMap(Restrict(f, S), D, R)
BY DEF IsMap, Restrict

LEMMA MapWhole ==
  ASSUME NEW D, NEW R, NEW f, IsMap(f, D, R)
  PROVE  Restrict(f, DOMAIN f) = f
BY DEF IsMap, Restrict

\* Whatever the map says, a list is one of requests.
LEMMA ListType ==
  ASSUME TypeOK, NEW e
  PROVE  List(e) \in Seq(Request)
BY DEF TypeOK, IsMap, List

\* The pruner never asks for more rows than there are.
LEMMA ExcessInList ==
  ASSUME NEW list \in Seq(Request)
  PROVE  /\ ExcessBytes(list) \in 0 .. Len(list)
         /\ ExcessCount(list) \in 0 .. Len(list)
<1>1. ExcessBytes(list) \in 0 .. Len(list)
  <2>1. Len(list) \in Nat /\ OverBudget(list) \in SUBSET (1 .. Len(list))
    BY DEF OverBudget
  <2>2. CASE OverBudget(list) = {}
    BY <2>1, <2>2 DEF ExcessBytes
  <2>3. CASE OverBudget(list) # {}
    <3>1. Max(OverBudget(list)) \in OverBudget(list)
      BY <2>1, <2>3, Greatest
    <3> QED BY <2>1, <2>3, <3>1 DEF ExcessBytes
  <2> QED BY <2>2, <2>3
<1>2. ExcessCount(list) \in 0 .. Len(list)
  BY MemStoreAssumption DEF ExcessCount, MemStoreAssumption
<1> QED BY <1>1, <1>2

-----------------------------------------------------------------------------
(* The inductive invariant.                                                *)

\* A snapshot is as consistent as the maps it was copied from.
Whole(s) ==
  /\ DOMAIN s.requests = DOMAIN s.endpoints
  /\ \A e, f \in DOMAIN s.endpoints : s.endpoints[e].slug = s.endpoints[f].slug => e = f
  /\ \A e \in DOMAIN s.endpoints :
       /\ IsInjective(s.requests[e])
       /\ Range(s.requests[e]) = {r \in DOMAIN s.rows : s.rows[r].endpoint = e}
  /\ \A r \in DOMAIN s.rows : s.rows[r].endpoint \in DOMAIN s.endpoints

FilesWhole == Whole(snap) /\ Whole(disk)

IdsIssued ==
  /\ DOMAIN endpoints \cup DOMAIN byID \subseteq issued
  /\ DOMAIN snap.endpoints \cup DOMAIN snap.rows \subseteq issued
  /\ DOMAIN disk.endpoints \cup DOMAIN disk.rows \subseteq issued

\* Save runs only in a process that was able to load the file.
SaverRuns ==
  /\ saver # "idle" => process \in {"running", "stopping", "flushing"}
  /\ process # "down" => readable

CopyIsCurrent == saver = "copied" /\ ~dirty => snap = Contents

FlushHolds == process = "flushing" /\ ~late /\ saver = "copied" => Holds(snap)

IInv ==
  /\ TypeOK
  /\ SlugsAgree
  /\ RowsAgree
  /\ FilesWhole
  /\ IdsIssued
  /\ SaverRuns
  /\ CopyIsCurrent
  /\ UnsavedIsDirty
  /\ FlushHolds
  /\ CleanCloseLosesNothing

-----------------------------------------------------------------------------
(* Dropping the oldest requests of some endpoints.                         *)

\* What a prune or a deletion may do to memory without Save's knowledge.
Shrinks ==
  /\ endpoints' = endpoints
  /\ interest' = interest
  /\ IsRestriction(byID', byID)
  /\ \A e \in Endpoint : IsNewestOf(List(e)', List(e))

\* dropRequests keeps lists and rows in agreement, only takes away, and raises
\* the flag if it took anything.
LEMMA DropOldest ==
  ASSUME TypeOK, RowsAgree, NEW count, DOMAIN count \subseteq Endpoint,
         \A e \in DOMAIN count : count[e] \in 0 .. Len(List(e)),
         dropRequests(count)
  PROVE  /\ IsMap(requests', Endpoint, Seq(Request))
         /\ IsMap(byID', Request, Row)
         /\ dirty' \in BOOLEAN
         /\ DOMAIN byID' \subseteq DOMAIN byID
         /\ RowsAgree'
         /\ Shrinks
         /\ dirty' \/ (~dirty /\ Contents' = Contents)
<1> DEFINE n(e) == IF e \in DOMAIN count THEN count[e] ELSE 0
           first(e) == {List(e)[i] : i \in 1 .. n(e)}
           dropped == UNION {{List(e)[i] : i \in 1 .. count[e]} : e \in DOMAIN count}
<1>1. /\ requests' = [e \in DOMAIN requests \cup DOMAIN count |-> SubSeq(List(e), n(e) + 1, Len(List(e)))]
      /\ byID' = Restrict(byID, DOMAIN byID \ dropped)
      /\ dirty' = (dirty \/ \E e \in DOMAIN count : count[e] > 0)
      /\ UNCHANGED <<endpoints, interest>>
  BY DEF dropRequests, Forget
<1>2. \A e \in Endpoint : List(e) \in Seq(Request) /\ n(e) \in 0 .. Len(List(e))
  BY ListType
<1>3. \A e \in Endpoint : List(e)' = SubSeq(List(e), n(e) + 1, Len(List(e)))
  <2> TAKE e \in Endpoint
  <2>1. CASE e \in DOMAIN requests \cup DOMAIN count
    BY <1>1, <2>1 DEF List
  <2>2. CASE e \notin DOMAIN requests \cup DOMAIN count
    <3>1. List(e) = <<>> /\ List(e)' = <<>> /\ n(e) = 0
      BY <1>1, <2>2 DEF List
    <3> QED BY <3>1
  <2> QED BY <2>1, <2>2
<1>4. \A e \in Endpoint : /\ IsInjective(List(e)) /\ List(e)' \in Seq(Request)
                          /\ IsInjective(List(e)')
                          /\ Range(List(e)') = Range(List(e)) \ first(e)
  <2> TAKE e \in Endpoint
  <2>1. IsInjective(List(e))
    BY DEF RowsAgree
  <2>2. List(e) \in Seq(Request) /\ n(e) \in 0 .. Len(List(e))
    BY <1>2
  <2>3. PICK s, k : s = List(e) /\ k = n(e)
    OBVIOUS
  <2>4. s \in Seq(Request) /\ k \in 0 .. Len(s) /\ IsInjective(s)
    BY <2>1, <2>2, <2>3
  <2>5. PICK t : t = SubSeq(s, k + 1, Len(s))
    OBVIOUS
  <2>6. t \in Seq(Request) /\ IsInjective(t) /\ Range(t) = Range(s) \ {s[i] : i \in 1 .. k}
    BY <2>4, <2>5, NewestList
  <2>7. List(e)' = t
    BY <1>3, <2>3, <2>5
  <2>8. first(e) = {s[i] : i \in 1 .. k}
    BY <2>3
  <2> HIDE DEF n, first
  <2> QED BY <2>3, <2>4, <2>6, <2>7, <2>8
<1>5. \A e \in Endpoint, r \in DOMAIN byID : byID[r].endpoint = e => (r \in dropped <=> r \in first(e))
  <2> TAKE e \in Endpoint, r \in DOMAIN byID
  <2> HAVE byID[r].endpoint = e
  <2>1. ASSUME r \in dropped PROVE r \in first(e)
    <3>1. PICK f \in DOMAIN count : \E i \in 1 .. count[f] : r = List(f)[i]
      BY <2>1
    <3>2. PICK i \in 1 .. count[f] : r = List(f)[i]
      BY <3>1
    <3>3. r \in Range(List(f))
      <4>1. i \in DOMAIN List(f)
        BY <1>2, <3>2
      <4> QED BY <3>2, <4>1 DEF Range
    <3>4. f = e
      BY <3>3 DEF RowsAgree
    <3> QED BY <3>2, <3>4
  <2>2. ASSUME r \in first(e) PROVE r \in dropped
    BY <2>2
  <2> QED BY <2>1, <2>2
<1>6. IsMap(byID, Request, Row)
  BY DEF TypeOK
<1>7. /\ IsMap(byID', Request, Row)
      /\ DOMAIN byID' = DOMAIN byID \ dropped
      /\ \A r \in DOMAIN byID' : byID'[r] = byID[r]
  <2> HIDE DEF dropped
  <2> QED BY <1>1, <1>6, MapCut DEF Restrict
<1>8. IsMap(requests', Endpoint, Seq(Request))
  <2>1. \A e \in DOMAIN requests \cup DOMAIN count : requests'[e] \in Seq(Request)
    <3> TAKE e \in DOMAIN requests \cup DOMAIN count
    <3>1. e \in Endpoint
      BY DEF TypeOK, IsMap
    <3>2. requests'[e] = List(e)'
      BY <1>1 DEF List
    <3> QED BY <1>4, <3>1, <3>2
  <2>2. DOMAIN requests' = DOMAIN requests \cup DOMAIN count
    BY <1>1
  <2>3. DOMAIN requests' \subseteq Endpoint
    BY <2>2 DEF TypeOK, IsMap
  <2> QED BY <1>1, <2>1, <2>2, <2>3 DEF IsMap
<1>9. dirty' \in BOOLEAN
  BY <1>1 DEF TypeOK
<1>10. RowsAgree'
  <2>1. ASSUME NEW e \in Endpoint
        PROVE  Range(List(e)') = {r \in DOMAIN byID' : byID'[r].endpoint = e}
    <3>1. Range(List(e)) = {r \in DOMAIN byID : byID[r].endpoint = e}
      BY DEF RowsAgree
    <3> HIDE DEF dropped, first
    <3> QED BY <1>4, <1>5, <1>7, <3>1
  <2>2. ASSUME NEW r \in DOMAIN byID' PROVE byID'[r].endpoint \in DOMAIN endpoints'
    BY <1>1, <1>7 DEF RowsAgree
  <2> QED BY <1>4, <2>1, <2>2 DEF RowsAgree
<1>11. Shrinks
  <2>1. IsRestriction(byID', byID)
    BY <1>7 DEF IsRestriction
  <2>2. \A e \in Endpoint : IsNewestOf(List(e)', List(e))
    BY <1>2, <1>3 DEF IsNewestOf
  <2> QED BY <1>1, <2>1, <2>2 DEF Shrinks
<1>12. dirty' \/ (~dirty /\ Contents' = Contents)
  <2> SUFFICES ASSUME ~dirty' PROVE ~dirty /\ Contents' = Contents
    OBVIOUS
  <2>1. ~dirty /\ \A e \in DOMAIN count : count[e] = 0
    <3>1. ~dirty /\ \A e \in DOMAIN count : ~(count[e] > 0)
      BY <1>1 DEF TypeOK
    <3>2. \A e \in DOMAIN count : count[e] \in Nat
      BY <1>2
    <3> QED BY <3>1, <3>2
  <2>2. \A e \in Endpoint : List(e)' = List(e)
    <3> TAKE e \in Endpoint
    <3>1. n(e) = 0
      BY <2>1
    <3>2. List(e)' = SubSeq(List(e), 1, Len(List(e)))
      BY <1>3, <3>1
    <3>3. SubSeq(List(e), 1, Len(List(e))) = List(e)
      BY <1>2, SubSeqFull
    <3> QED BY <3>2, <3>3
  <2>3. dropped = {}
    BY <2>1
  <2>4. byID' = byID
    <3> HIDE DEF dropped
    <3> QED BY <1>1, <1>6, <2>3, MapWhole
  <2>5. DOMAIN endpoints \subseteq Endpoint
    BY DEF TypeOK, IsMap
  <2>6. \A e \in DOMAIN endpoints : List(e)' = List(e)
    BY <2>2, <2>5
  <2> QED BY <1>1, <2>1, <2>4, <2>6 DEF Contents
<1> QED BY <1>7, <1>8, <1>9, <1>10, <1>11, <1>12

-----------------------------------------------------------------------------
(* Every write keeps the maps in agreement.                                *)

DataTypes ==
  /\ IsMap(endpoints, Endpoint, EndpointRecord)
  /\ IsMap(slugs, Slug, Endpoint)
  /\ IsMap(requests, Endpoint, Seq(Request))
  /\ IsMap(byID, Request, Row)
  /\ interest \subseteq Client
  /\ issued \subseteq Endpoint \cup Request

DataInv ==
  /\ DataTypes
  /\ SlugsAgree
  /\ RowsAgree
  /\ DOMAIN endpoints \cup DOMAIN byID \subseteq issued

\* Reading the data's types off TypeOK, and a list's off them.
LEMMA DataOfTypes == ASSUME TypeOK PROVE DataTypes
BY DEF TypeOK, DataTypes

LEMMA ListTyped ==
  ASSUME DataTypes, NEW e
  PROVE  List(e) \in Seq(Request)
BY DEF DataTypes, IsMap, List

\* Rows and lists that stay, while other endpoints come.
LEMMA RowsStay ==
  ASSUME RowsAgree, requests' = requests, byID' = byID, DOMAIN endpoints \subseteq DOMAIN endpoints'
  PROVE  RowsAgree'
BY DEF RowsAgree, List

\* No settings are stored as the default ones.
LEMMA StoredIsConfig ==
  ASSUME NEW c \in Config \cup {NoConfig}
  PROVE  Stored(c) \in Config
BY MemStoreAssumption DEF MemStoreAssumption, Stored

\* Each operation keeps the data's part of the invariant.
LEMMA CreateKeeps ==
  ASSUME DataInv, NEW e \in Endpoint, NEW s \in Slug, NEW c \in Config \cup {NoConfig},
         CreateEndpoint(e, s, c)
  PROVE  DataInv'
<1> DEFINE ep == [slug |-> s, config |-> Stored(c)]
<1>1. /\ e \notin issued /\ s \notin DOMAIN slugs
      /\ endpoints' = Put(endpoints, e, ep) /\ slugs' = Put(slugs, s, e)
      /\ issued' = issued \cup {e}
      /\ UNCHANGED <<requests, byID, interest>>
  BY DEF CreateEndpoint, InMemory
<1>2. ep \in EndpointRecord
  BY StoredIsConfig DEF EndpointRecord
<1>3. /\ IsMap(endpoints', Endpoint, EndpointRecord)
      /\ DOMAIN endpoints' = DOMAIN endpoints \cup {e}
      /\ endpoints'[e] = ep
      /\ \A x \in DOMAIN endpoints \ {e} : endpoints'[x] = endpoints[x]
  <2>1. IsMap(endpoints, Endpoint, EndpointRecord)
    BY DEF DataInv, DataTypes
  <2>2. IsMap(Put(endpoints, e, ep), Endpoint, EndpointRecord)
    BY <1>2, <2>1, MapAdd
  <2> HIDE DEF ep
  <2> QED BY <1>1, <2>2 DEF Put
<1>4. /\ IsMap(slugs', Slug, Endpoint)
      /\ DOMAIN slugs' = DOMAIN slugs \cup {s}
      /\ slugs'[s] = e
      /\ \A x \in DOMAIN slugs \ {s} : slugs'[x] = slugs[x]
  <2>1. IsMap(slugs, Slug, Endpoint)
    BY DEF DataInv, DataTypes
  <2>2. IsMap(Put(slugs, s, e), Slug, Endpoint)
    BY <2>1, MapAdd
  <2> QED BY <1>1, <2>2 DEF Put
<1>5. DataTypes'
  BY <1>1, <1>3, <1>4 DEF DataInv, DataTypes
<1>6. e \notin DOMAIN endpoints
  BY <1>1 DEF DataInv
<1>7. SlugsAgree'
  <2>1. ep.slug = s
    OBVIOUS
  <2> HIDE DEF ep
  <2>2. ASSUME NEW x \in DOMAIN slugs'
        PROVE  slugs'[x] \in DOMAIN endpoints' /\ endpoints'[slugs'[x]].slug = x
    BY <1>1, <1>3, <1>4, <1>6, <2>1 DEF DataInv, SlugsAgree
  <2>3. ASSUME NEW f \in DOMAIN endpoints'
        PROVE  endpoints'[f].slug \in DOMAIN slugs' /\ slugs'[endpoints'[f].slug] = f
    BY <1>1, <1>3, <1>4, <1>6, <2>1 DEF DataInv, SlugsAgree
  <2> QED BY <2>2, <2>3 DEF SlugsAgree
<1>8. RowsAgree'
  BY <1>1, <1>3, RowsStay DEF DataInv
<1> QED BY <1>1, <1>3, <1>5, <1>7, <1>8 DEF DataInv

LEMMA UpdateKeeps ==
  ASSUME DataInv, NEW e \in Endpoint, NEW c \in Config \cup {NoConfig}, UpdateEndpoint(e, c)
  PROVE  DataInv'
<1>1. /\ e \in DOMAIN endpoints
      /\ endpoints' = [endpoints EXCEPT ![e].config = Stored(c)]
      /\ UNCHANGED <<slugs, requests, byID, interest, issued>>
  BY DEF UpdateEndpoint, InMemory
<1>2. /\ DOMAIN endpoints' = DOMAIN endpoints
      /\ \A x \in DOMAIN endpoints : endpoints'[x] \in EndpointRecord /\ endpoints'[x].slug = endpoints[x].slug
      /\ IsMap(endpoints', Endpoint, EndpointRecord)
  BY <1>1, StoredIsConfig DEF DataInv, DataTypes, IsMap, EndpointRecord
<1>3. DataTypes'
  BY <1>1, <1>2 DEF DataInv, DataTypes
<1>4. SlugsAgree'
  BY <1>1, <1>2 DEF DataInv, SlugsAgree
<1>5. RowsAgree'
  BY <1>1, <1>2, RowsStay DEF DataInv
<1> QED BY <1>1, <1>2, <1>3, <1>4, <1>5 DEF DataInv

LEMMA RenameKeeps ==
  ASSUME DataInv, NEW e \in Endpoint, NEW s \in Slug, RenameEndpoint(e, s)
  PROVE  DataInv'
<1> DEFINE old == endpoints[e].slug
           rest == Restrict(slugs, DOMAIN slugs \ {old})
<1>1. /\ e \in DOMAIN endpoints /\ s \notin DOMAIN slugs
      /\ endpoints' = [endpoints EXCEPT ![e].slug = s]
      /\ slugs' = Put(rest, s, e)
      /\ UNCHANGED <<requests, byID, interest, issued>>
  BY DEF RenameEndpoint, InMemory
<1>2. /\ DOMAIN endpoints' = DOMAIN endpoints
      /\ endpoints'[e].slug = s
      /\ \A x \in DOMAIN endpoints \ {e} : endpoints'[x] = endpoints[x]
      /\ IsMap(endpoints', Endpoint, EndpointRecord)
  BY <1>1 DEF DataInv, DataTypes, IsMap, EndpointRecord
<1>3. /\ IsMap(rest, Slug, Endpoint)
      /\ DOMAIN rest = DOMAIN slugs \ {old}
      /\ \A x \in DOMAIN rest : rest[x] = slugs[x]
  <2>1. IsMap(slugs, Slug, Endpoint)
    BY DEF DataInv, DataTypes
  <2> QED BY <2>1, MapCut DEF Restrict
<1>4. /\ IsMap(slugs', Slug, Endpoint)
      /\ DOMAIN slugs' = (DOMAIN slugs \ {old}) \cup {s}
      /\ slugs'[s] = e
      /\ \A x \in DOMAIN slugs \ {old, s} : slugs'[x] = slugs[x]
  <2> HIDE DEF rest
  <2>1. /\ IsMap(slugs', Slug, Endpoint)
        /\ DOMAIN slugs' = DOMAIN rest \cup {s}
        /\ slugs'[s] = e
        /\ \A x \in DOMAIN rest \ {s} : slugs'[x] = rest[x]
    <3>1. IsMap(Put(rest, s, e), Slug, Endpoint)
      BY <1>3, MapAdd
    <3> QED BY <1>1, <3>1 DEF Put
  <2> QED BY <1>3, <2>1
<1>5. DataTypes'
  BY <1>1, <1>2, <1>4 DEF DataInv, DataTypes
<1>6. SlugsAgree'
  <2> HIDE DEF old
  <2>0. old = endpoints[e].slug
    BY DEF old
  <2>1. ASSUME NEW x \in DOMAIN slugs'
        PROVE  slugs'[x] \in DOMAIN endpoints' /\ endpoints'[slugs'[x]].slug = x
    <3>1. CASE x = s
      BY <1>1, <1>2, <1>4, <3>1
    <3>2. CASE x # s
      <4>1. x \in DOMAIN slugs /\ x # old /\ slugs'[x] = slugs[x]
        BY <1>4, <3>2
      <4>2. slugs[x] \in DOMAIN endpoints /\ endpoints[slugs[x]].slug = x /\ slugs[x] # e
        BY <2>0, <4>1 DEF DataInv, SlugsAgree
      <4> QED BY <1>2, <4>1, <4>2
    <3> QED BY <3>1, <3>2
  <2>2. ASSUME NEW f \in DOMAIN endpoints'
        PROVE  endpoints'[f].slug \in DOMAIN slugs' /\ slugs'[endpoints'[f].slug] = f
    <3>1. CASE f = e
      BY <1>2, <1>4, <3>1
    <3>2. CASE f # e
      <4>1. endpoints'[f] = endpoints[f] /\ endpoints[f].slug \in DOMAIN slugs /\ slugs[endpoints[f].slug] = f
        BY <1>2, <3>2 DEF DataInv, SlugsAgree
      <4>2. slugs[old] = e
        BY <1>1, <2>0 DEF DataInv, SlugsAgree
      <4>3. endpoints[f].slug # old /\ endpoints[f].slug # s
        BY <1>1, <3>2, <4>1, <4>2
      <4> QED BY <1>4, <4>1, <4>3
    <3> QED BY <3>1, <3>2
  <2> QED BY <2>1, <2>2 DEF SlugsAgree
<1>7. RowsAgree'
  BY <1>1, <1>2, RowsStay DEF DataInv
<1> QED BY <1>1, <1>2, <1>5, <1>6, <1>7 DEF DataInv

LEMMA DeleteKeeps ==
  ASSUME DataInv, NEW e \in Endpoint, DeleteEndpoint(e)
  PROVE  DataInv'
<1> DEFINE old == endpoints[e].slug
<1>1. /\ e \in DOMAIN endpoints
      /\ endpoints' = Restrict(endpoints, DOMAIN endpoints \ {e})
      /\ slugs' = Restrict(slugs, DOMAIN slugs \ {old})
      /\ requests' = Restrict(requests, DOMAIN requests \ {e})
      /\ byID' = Restrict(byID, DOMAIN byID \ Range(List(e)))
      /\ UNCHANGED <<interest, issued>>
  BY DEF DeleteEndpoint, InMemory, Forget
<1>2. /\ IsMap(endpoints', Endpoint, EndpointRecord)
      /\ IsMap(slugs', Slug, Endpoint)
      /\ IsMap(requests', Endpoint, Seq(Request))
      /\ IsMap(byID', Request, Row)
  BY <1>1, MapCut DEF DataInv, DataTypes
<1>3. DataTypes'
  BY <1>1, <1>2 DEF DataInv, DataTypes
<1>4. /\ DOMAIN endpoints' = DOMAIN endpoints \ {e}
      /\ \A x \in DOMAIN endpoints' : endpoints'[x] = endpoints[x]
  BY <1>1 DEF Restrict
<1>5. /\ DOMAIN slugs' = DOMAIN slugs \ {old}
      /\ \A x \in DOMAIN slugs' : slugs'[x] = slugs[x]
  BY <1>1 DEF Restrict
<1>6. /\ DOMAIN byID' = DOMAIN byID \ Range(List(e))
      /\ \A r \in DOMAIN byID' : byID'[r] = byID[r]
  BY <1>1 DEF Restrict
<1>7. SlugsAgree'
  <2>1. slugs[old] = e
    BY <1>1 DEF DataInv, SlugsAgree
  <2> HIDE DEF old
  <2>2. \A x \in DOMAIN slugs \ {old} : slugs[x] # e
    BY DEF DataInv, SlugsAgree, old
  <2>3. \A f \in DOMAIN endpoints \ {e} : endpoints[f].slug # old
    BY <2>1 DEF DataInv, SlugsAgree
  <2> QED BY <1>4, <1>5, <2>2, <2>3 DEF DataInv, SlugsAgree
<1>8. RowsAgree'
  <2>1. /\ List(e)' = <<>>
        /\ \A f \in Endpoint \ {e} : List(f)' = List(f)
    BY <1>1 DEF List, Restrict
  <2>2. Range(List(e)) = {r \in DOMAIN byID : byID[r].endpoint = e}
    BY DEF DataInv, RowsAgree
  <2>3. \A r \in DOMAIN byID' : byID'[r].endpoint \in DOMAIN endpoints'
    BY <1>4, <1>6, <2>2 DEF DataInv, RowsAgree
  <2>4. IsInjective(List(e)') /\ Range(List(e)') = {r \in DOMAIN byID' : byID'[r].endpoint = e}
    <3>1. {r \in DOMAIN byID' : byID'[r].endpoint = e} = {}
      BY <1>6, <2>2
    <3>2. Range(<<>>) = {} /\ IsInjective(<<>>)
      BY DEF Range, IsInjective
    <3> QED BY <2>1, <3>1, <3>2
  <2>5. ASSUME NEW f \in Endpoint \ {e}
        PROVE  IsInjective(List(f)') /\ Range(List(f)') = {r \in DOMAIN byID' : byID'[r].endpoint = f}
    <3>1. IsInjective(List(f)) /\ Range(List(f)) = {r \in DOMAIN byID : byID[r].endpoint = f}
      BY DEF DataInv, RowsAgree
    <3>2. {r \in DOMAIN byID' : byID'[r].endpoint = f} = {r \in DOMAIN byID : byID[r].endpoint = f}
      BY <1>6, <2>2
    <3> QED BY <2>1, <3>1, <3>2
  <2> QED BY <2>3, <2>4, <2>5 DEF RowsAgree
<1> QED BY <1>1, <1>3, <1>4, <1>6, <1>7, <1>8 DEF DataInv

LEMMA InsertKeeps ==
  ASSUME DataInv, NEW r \in Request, NEW e \in Endpoint, NEW n \in RowSize, InsertRequest(r, e, n)
  PROVE  DataInv'
<1> DEFINE row == [endpoint |-> e, size |-> n, recorded |-> {}]
<1>1. /\ r \notin issued /\ e \in DOMAIN endpoints
      /\ requests' = Put(requests, e, Append(List(e), r))
      /\ byID' = Put(byID, r, row)
      /\ issued' = issued \cup {r}
      /\ UNCHANGED <<endpoints, slugs, interest>>
  BY DEF InsertRequest, InMemory
<1>2. row \in Row
  BY DEF Row
<1>3. IsMap(byID', Request, Row)
  <2>1. IsMap(byID, Request, Row)
    BY DEF DataInv, DataTypes
  <2>2. IsMap(Put(byID, r, row), Request, Row)
    BY <1>2, <2>1, MapAdd
  <2> QED BY <1>1, <2>2
<1>4. r \notin DOMAIN byID
  BY <1>1 DEF DataInv
<1>5. /\ DOMAIN byID' = DOMAIN byID \cup {r}
      /\ byID'[r].endpoint = e
      /\ \A x \in DOMAIN byID : byID'[x] = byID[x]
  BY <1>1, <1>4 DEF Put
<1>6. r \notin Range(List(e))
  BY <1>4 DEF DataInv, RowsAgree
<1>7. /\ Append(List(e), r) \in Seq(Request)
      /\ IsInjective(Append(List(e), r))
      /\ Range(Append(List(e), r)) = Range(List(e)) \cup {r}
  <2>1. List(e) \in Seq(Request)
    BY ListTyped DEF DataInv
  <2>2. IsInjective(List(e))
    BY DEF DataInv, RowsAgree
  <2> QED BY <1>6, <2>1, <2>2, AppendedList
<1>8. IsMap(requests', Endpoint, Seq(Request))
  <2>1. IsMap(requests, Endpoint, Seq(Request))
    BY DEF DataInv, DataTypes
  <2>2. IsMap(Put(requests, e, Append(List(e), r)), Endpoint, Seq(Request))
    BY <1>7, <2>1, MapAdd
  <2> QED BY <1>1, <2>2
<1>9. DataTypes'
  BY <1>1, <1>3, <1>8 DEF DataInv, DataTypes
<1>10. SlugsAgree'
  BY <1>1 DEF DataInv, SlugsAgree
<1>11. RowsAgree'
  <2>1. /\ List(e)' = Append(List(e), r)
        /\ \A f \in Endpoint \ {e} : List(f)' = List(f)
    BY <1>1 DEF List, Put
  <2>2. \A x \in DOMAIN byID' : byID'[x].endpoint \in DOMAIN endpoints'
    BY <1>1, <1>5 DEF DataInv, RowsAgree
  <2>3. Range(List(e)') = {x \in DOMAIN byID' : byID'[x].endpoint = e}
    <3>1. Range(List(e)) = {x \in DOMAIN byID : byID[x].endpoint = e}
      BY DEF DataInv, RowsAgree
    <3> QED BY <1>4, <1>5, <1>7, <2>1, <3>1
  <2>4. ASSUME NEW f \in Endpoint \ {e}
        PROVE  IsInjective(List(f)') /\ Range(List(f)') = {x \in DOMAIN byID' : byID'[x].endpoint = f}
    <3>1. IsInjective(List(f)) /\ Range(List(f)) = {x \in DOMAIN byID : byID[x].endpoint = f}
      BY DEF DataInv, RowsAgree
    <3>2. {x \in DOMAIN byID' : byID'[x].endpoint = f} = {x \in DOMAIN byID : byID[x].endpoint = f}
      BY <1>4, <1>5
    <3> QED BY <2>1, <3>1, <3>2
  <2> QED BY <1>7, <2>1, <2>2, <2>3, <2>4 DEF RowsAgree
<1> QED BY <1>1, <1>5, <1>9, <1>10, <1>11 DEF DataInv

LEMMA RecordKeeps ==
  ASSUME DataInv, NEW r \in Request, NEW what \in {"forward", "response"}, Record(r, what)
  PROVE  DataInv'
<1>1. /\ r \in DOMAIN byID
      /\ byID' = [byID EXCEPT ![r].recorded = @ \cup {what}]
      /\ UNCHANGED <<endpoints, slugs, requests, interest, issued>>
  BY DEF Record, InMemory
<1>2. /\ DOMAIN byID' = DOMAIN byID
      /\ IsMap(byID', Request, Row)
      /\ \A x \in DOMAIN byID : byID'[x].endpoint = byID[x].endpoint
  BY <1>1 DEF DataInv, DataTypes, IsMap, Row
<1>3. DataTypes'
  BY <1>1, <1>2 DEF DataInv, DataTypes
<1>4. SlugsAgree'
  BY <1>1 DEF DataInv, SlugsAgree
<1>5. RowsAgree'
  <2>1. \A f \in Endpoint : List(f)' = List(f)
    BY <1>1 DEF List
  <2>2. \A f \in Endpoint : {x \in DOMAIN byID' : byID'[x].endpoint = f} = {x \in DOMAIN byID : byID[x].endpoint = f}
    BY <1>2
  <2> QED BY <1>1, <1>2, <2>1, <2>2 DEF DataInv, RowsAgree
<1> QED BY <1>1, <1>2, <1>3, <1>4, <1>5 DEF DataInv

LEMMA DeleteRequestKeeps ==
  ASSUME DataInv, NEW r \in Request, DeleteRequest(r)
  PROVE  DataInv'
<1>0. PICK e \in Endpoint : e = byID[r].endpoint
  BY DEF DeleteRequest, DataInv, DataTypes, IsMap, Row
<1>1. /\ r \in DOMAIN byID
      /\ byID' = Restrict(byID, DOMAIN byID \ {r})
      /\ UNCHANGED <<endpoints, slugs, interest, issued>>
  BY DEF DeleteRequest, InMemory
<1>2. PICK i \in DOMAIN List(e) :
        /\ List(e)[i] = r
        /\ requests' = [requests EXCEPT ![e] = RemoveAt(requests[e], i)]
  BY <1>0 DEF DeleteRequest, InMemory
<1>3. e \in DOMAIN requests /\ List(e) = requests[e]
  BY <1>2 DEF List, DataInv, DataTypes, IsMap
<1>a. PICK t : t = RemoveAt(List(e), i)
  OBVIOUS
<1>4. t \in Seq(Request) /\ IsInjective(t) /\ Range(t) = Range(List(e)) \ {r}
  <2>1. List(e) \in Seq(Request)
    BY ListTyped DEF DataInv
  <2>2. IsInjective(List(e))
    BY <1>3 DEF DataInv, RowsAgree
  <2> QED BY <1>2, <1>a, <2>1, <2>2, ListWithout
<1>5. /\ List(e)' = t
      /\ \A f \in Endpoint \ {e} : List(f)' = List(f)
      /\ IsMap(requests', Endpoint, Seq(Request))
  <2>1. requests' = [requests EXCEPT ![e] = t]
    BY <1>2, <1>3, <1>a
  <2>2. IsMap(requests, Endpoint, Seq(Request))
    BY DEF DataInv, DataTypes
  <2>3. IsMap(requests', Endpoint, Seq(Request))
    BY <1>3, <1>4, <2>1, <2>2 DEF IsMap
  <2> QED BY <1>3, <2>1, <2>3 DEF List
<1>6. IsMap(byID', Request, Row)
  BY <1>1, MapCut DEF DataInv, DataTypes
<1>7. /\ DOMAIN byID' = DOMAIN byID \ {r}
      /\ \A x \in DOMAIN byID' : byID'[x] = byID[x]
  BY <1>1 DEF Restrict
<1>8. DataTypes'
  BY <1>1, <1>5, <1>6 DEF DataInv, DataTypes
<1>9. SlugsAgree'
  BY <1>1 DEF DataInv, SlugsAgree
<1>10. RowsAgree'
  <2>1. \A f \in Endpoint : IsInjective(List(f)) /\ Range(List(f)) = {x \in DOMAIN byID : byID[x].endpoint = f}
    BY DEF DataInv, RowsAgree
  <2>2. Range(List(e)') = {x \in DOMAIN byID' : byID'[x].endpoint = e}
    <3>1. Range(List(e)) = {x \in DOMAIN byID : byID[x].endpoint = e}
      BY <1>3, <2>1
    <3> QED BY <1>4, <1>5, <1>7, <3>1
  <2>3. \A f \in Endpoint \ {e} : Range(List(f)') = {x \in DOMAIN byID' : byID'[x].endpoint = f}
    <3> TAKE f \in Endpoint \ {e}
    <3>1. {x \in DOMAIN byID' : byID'[x].endpoint = f} = {x \in DOMAIN byID : byID[x].endpoint = f}
      BY <1>0, <1>7
    <3> QED BY <1>5, <2>1, <3>1
  <2>4. \A x \in DOMAIN byID' : byID'[x].endpoint \in DOMAIN endpoints'
    BY <1>1, <1>7 DEF DataInv, RowsAgree
  <2> QED BY <1>4, <1>5, <2>1, <2>2, <2>3, <2>4 DEF RowsAgree
<1> QED BY <1>1, <1>7, <1>8, <1>9, <1>10 DEF DataInv

LEMMA InterestKeeps ==
  ASSUME DataInv, NEW c \in Client, RecordUpgradeInterest(c)
  PROVE  DataInv'
<1>1. /\ interest' = interest \cup {c}
      /\ UNCHANGED <<endpoints, slugs, requests, byID, issued>>
  BY DEF RecordUpgradeInterest, InMemory
<1> QED BY <1>1, RowsStay DEF DataInv, DataTypes, SlugsAgree

\* So does dropping rows; it changes what Save would copy only with the flag up.
LEMMA DropKeeps ==
  ASSUME TypeOK, DataInv, NEW count, DOMAIN count \subseteq Endpoint,
         \A e \in DOMAIN count : count[e] \in 0 .. Len(List(e)),
         dropRequests(count)
  PROVE  /\ DataInv'
         /\ Shrinks
         /\ dirty' \in BOOLEAN
         /\ dirty' \/ (~dirty /\ Contents' = Contents)
<1>1. RowsAgree
  BY DEF DataInv
<1>2. /\ IsMap(requests', Endpoint, Seq(Request))
      /\ IsMap(byID', Request, Row)
      /\ dirty' \in BOOLEAN
      /\ DOMAIN byID' \subseteq DOMAIN byID
      /\ RowsAgree'
      /\ Shrinks
      /\ dirty' \/ (~dirty /\ Contents' = Contents)
  BY <1>1, DropOldest
<1>3. UNCHANGED <<endpoints, slugs, interest, issued>>
  BY DEF dropRequests
<1>4. DataTypes' /\ SlugsAgree' /\ DOMAIN endpoints' \cup DOMAIN byID' \subseteq issued'
  BY <1>2, <1>3 DEF DataInv, DataTypes, SlugsAgree
<1> QED BY <1>2, <1>4 DEF DataInv

\* Each deletion of old requests is one call of dropRequests within the lists.
Dropping ==
  \E count : /\ DOMAIN count \subseteq Endpoint
             /\ \A e \in DOMAIN count : count[e] \in 0 .. Len(List(e))
             /\ dropRequests(count)

\* Deletions of old requests drop no more than there is.
LEMMA DeletionsDrop ==
  ASSUME TypeOK,
         \/ \E e \in Endpoint : DeleteAllRequests(e)
         \/ PruneByStorageBudget
         \/ PruneExcessRequests
  PROVE  Dropping
<1>1. ASSUME NEW e \in Endpoint, DeleteAllRequests(e) PROVE Dropping
  <2>1. PICK count : count = [x \in {e} |-> Len(List(x))]
    OBVIOUS
  <2>2. dropRequests(count)
    BY <1>1, <2>1 DEF DeleteAllRequests
  <2>3. DOMAIN count = {e} /\ count[e] = Len(List(e))
    BY <2>1
  <2>4. Len(List(e)) \in Nat
    BY ListType
  <2> QED BY <2>2, <2>3, <2>4 DEF Dropping
<1>2. \A e \in DOMAIN requests : e \in Endpoint /\ List(e) = requests[e] /\ requests[e] \in Seq(Request)
  BY DEF TypeOK, IsMap, List
<1>3. CASE PruneByStorageBudget
  <2>1. PICK count : count = [e \in DOMAIN requests |-> ExcessBytes(requests[e])]
    OBVIOUS
  <2>2. dropRequests(count)
    BY <1>3, <2>1 DEF PruneByStorageBudget
  <2>3. DOMAIN count = DOMAIN requests /\ \A e \in DOMAIN count : count[e] = ExcessBytes(requests[e])
    BY <2>1
  <2>4. \A e \in DOMAIN count : count[e] \in 0 .. Len(List(e))
    BY <1>2, <2>3, ExcessInList
  <2> QED BY <1>2, <2>2, <2>3, <2>4 DEF Dropping
<1>4. CASE PruneExcessRequests
  <2>1. PICK count : count = [e \in DOMAIN requests |-> ExcessCount(requests[e])]
    OBVIOUS
  <2>2. dropRequests(count)
    BY <1>4, <2>1 DEF PruneExcessRequests
  <2>3. DOMAIN count = DOMAIN requests /\ \A e \in DOMAIN count : count[e] = ExcessCount(requests[e])
    BY <2>1
  <2>4. \A e \in DOMAIN count : count[e] \in 0 .. Len(List(e))
    BY <1>2, <2>3, ExcessInList
  <2> QED BY <1>2, <2>2, <2>3, <2>4 DEF Dropping
<1> QED BY <1>1, <1>3, <1>4

-----------------------------------------------------------------------------
(* What Save copies, and what New loads, is all of it.                     *)

\* A copy is a snapshot, and holds what memory holds.
LEMMA ContentsTyped ==
  ASSUME DataInv
  PROVE  /\ IsSnapshot(Contents)
         /\ Whole(Contents)
         /\ DOMAIN Contents.endpoints \cup DOMAIN Contents.rows \subseteq issued
         /\ Contents.rows = byID
<1> DEFINE c == Contents
<1>0. /\ c = [endpoints |-> c.endpoints, requests |-> c.requests, rows |-> c.rows, interest |-> c.interest]
      /\ c.endpoints = endpoints
      /\ c.requests = [e \in DOMAIN endpoints |-> List(e)]
      /\ c.rows = Restrict(byID, DOMAIN byID \cap UNION {Range(List(e)) : e \in DOMAIN endpoints})
      /\ c.interest = interest
  BY DEF Contents
<1>1. \A e \in DOMAIN endpoints : /\ e \in Endpoint
                                  /\ IsInjective(List(e))
                                  /\ Range(List(e)) = {r \in DOMAIN byID : byID[r].endpoint = e}
  BY DEF DataInv, DataTypes, IsMap, RowsAgree
<1>2. c.rows = byID
  <2>1. \A r \in DOMAIN byID : byID[r].endpoint \in DOMAIN endpoints
    BY DEF DataInv, RowsAgree
  <2>2. DOMAIN byID \cap UNION {Range(List(e)) : e \in DOMAIN endpoints} = DOMAIN byID
    BY <1>1, <2>1
  <2>3. IsMap(byID, Request, Row)
    BY DEF DataInv, DataTypes
  <2> QED BY <1>0, <2>2, <2>3, MapWhole
<1> HIDE DEF c
<1>3. IsMap(c.requests, Endpoint, Seq(Request))
  <2>1. \A e \in DOMAIN endpoints : List(e) \in Seq(Request)
    BY ListTyped DEF DataInv
  <2> QED BY <1>0, <1>1, <2>1 DEF IsMap
<1>4. IsSnapshot(c)
  BY <1>0, <1>2, <1>3 DEF IsSnapshot, DataInv, DataTypes
<1>5. Whole(c)
  <2>1. \A e, f \in DOMAIN endpoints : endpoints[e].slug = endpoints[f].slug => e = f
    BY DEF DataInv, SlugsAgree
  <2>2. \A r \in DOMAIN byID : byID[r].endpoint \in DOMAIN endpoints
    BY DEF DataInv, RowsAgree
  <2>3. \A e \in DOMAIN endpoints : c.requests[e] = List(e)
    BY <1>0
  <2>4. DOMAIN c.requests = DOMAIN endpoints
    BY <1>0
  <2>5. \A e \in DOMAIN endpoints :
          /\ IsInjective(c.requests[e])
          /\ Range(c.requests[e]) = {r \in DOMAIN byID : byID[r].endpoint = e}
    BY <1>1, <2>3
  <2>6. DOMAIN c.requests = DOMAIN c.endpoints /\ c.endpoints = endpoints /\ c.rows = byID
    BY <1>0, <1>2, <2>4
  <2> QED BY <2>1, <2>2, <2>5, <2>6 DEF Whole
<1> QED BY <1>0, <1>2, <1>4, <1>5 DEF DataInv, c

\* A fresh copy holds what memory holds.
LEMMA ContentsHold ==
  ASSUME DataInv
  PROVE  Holds(Contents)
<1>1. /\ Contents.endpoints = endpoints
      /\ Contents.interest = interest
      /\ \A e \in DOMAIN endpoints : Contents.requests[e] = List(e)
  BY DEF Contents
<1>2. IsRestriction(byID, Contents.rows)
  BY ContentsTyped DEF IsRestriction
<1>3. \A e \in DOMAIN endpoints : IsNewestOf(List(e), List(e))
  <2> TAKE e \in DOMAIN endpoints
  <2>1. List(e) \in Seq(Request) /\ Len(List(e)) \in Nat
    BY ListTyped DEF DataInv
  <2>2. List(e) = SubSeq(List(e), 0 + 1, Len(List(e)))
    BY <2>1, SubSeqFull
  <2> QED BY <2>1, <2>2 DEF IsNewestOf
<1> QED BY <1>1, <1>2, <1>3 DEF Holds

\* The newest rows of the newest rows are the newest rows.
LEMMA NewestOfNewest ==
  ASSUME NEW S, NEW a \in Seq(S), NEW b, NEW c, IsNewestOf(b, a), IsNewestOf(c, b)
  PROVE  IsNewestOf(c, a)
<1>1. PICK m \in 0 .. Len(a) : b = SubSeq(a, m + 1, Len(a))
  BY DEF IsNewestOf
<1>2. b \in Seq(S) /\ Len(b) = Len(a) - m /\ \A i \in 1 .. Len(b) : b[i] = a[m + i]
  BY <1>1
<1>3. PICK n \in 0 .. Len(b) : c = SubSeq(b, n + 1, Len(b))
  BY DEF IsNewestOf
<1>4. PICK k \in 0 .. Len(a) : k = m + n
  BY <1>2
<1>5. /\ c \in Seq(S) /\ Len(c) = Len(a) - k
      /\ \A i \in 1 .. Len(c) : c[i] = a[k + i]
  <2>1. c \in Seq(S) /\ Len(c) = Len(b) - n /\ \A i \in 1 .. Len(c) : c[i] = b[n + i]
    BY <1>2, <1>3
  <2> QED BY <1>2, <1>4, <2>1
<1>6. PICK d : d = SubSeq(a, k + 1, Len(a))
  OBVIOUS
<1>7. d \in Seq(S) /\ Len(d) = Len(a) - k /\ \A i \in 1 .. Len(d) : d[i] = a[k + i]
  BY <1>6
<1>8. c = d
  BY <1>5, <1>7, SeqEqual
<1> QED BY <1>6, <1>8 DEF IsNewestOf

\* What the pruner takes from memory, a snapshot may still hold.
LEMMA ShrinkHolds ==
  ASSUME NEW s, IsSnapshot(s), TypeOK, Holds(s), DOMAIN s.requests = DOMAIN s.endpoints, Shrinks
  PROVE  /\ endpoints' = s.endpoints
         /\ interest' = s.interest
         /\ IsRestriction(byID', s.rows)
         /\ \A e \in DOMAIN endpoints' : IsNewestOf(List(e)', s.requests[e])
<1>1. endpoints' = s.endpoints /\ interest' = s.interest
  BY DEF Holds, Shrinks
<1>2. IsRestriction(byID', s.rows)
  BY DEF Holds, Shrinks, IsRestriction
<1>3. \A e \in DOMAIN endpoints' : IsNewestOf(List(e)', s.requests[e])
  <2> TAKE e \in DOMAIN endpoints'
  <2>1. e \in Endpoint /\ e \in DOMAIN endpoints /\ s.requests[e] \in Seq(Request)
    BY DEF Holds, Shrinks, TypeOK, IsMap, IsSnapshot
  <2>2. IsNewestOf(List(e), s.requests[e]) /\ IsNewestOf(List(e)', List(e))
    BY <2>1 DEF Holds, Shrinks
  <2>3. PICK b, c : b = List(e) /\ c = List(e)'
    OBVIOUS
  <2>4. IsNewestOf(b, s.requests[e]) /\ IsNewestOf(c, b)
    BY <2>2, <2>3
  <2>5. IsNewestOf(c, s.requests[e])
    BY <2>1, <2>4, NewestOfNewest
  <2> QED BY <2>3, <2>5
<1> QED BY <1>1, <1>2, <1>3

\* The same of the state after a step.
LEMMA NextContents ==
  (DataInv => Contents.rows = byID)'
<1>1. DataInv => Contents.rows = byID
  BY ContentsTyped
<1> QED BY <1>1, PTL

\* New restores agreeing maps from a whole snapshot, with the same contents.
LEMMA LoadRestores ==
  ASSUME NEW s, IsSnapshot(s), Whole(s), DOMAIN s.endpoints \cup DOMAIN s.rows \subseteq issued,
         issued \subseteq Endpoint \cup Request, Load(s), issued' = issued
  PROVE  DataInv' /\ Contents' = s
<1> DEFINE known == {e \in DOMAIN s.requests : e \in DOMAIN s.endpoints /\ s.requests[e] # <<>>}
           listed == UNION {Range(s.requests[e]) : e \in known}
<1>1. /\ endpoints' = s.endpoints
      /\ slugs' = [x \in {s.endpoints[e].slug : e \in DOMAIN s.endpoints} |->
                     CHOOSE e \in DOMAIN s.endpoints : s.endpoints[e].slug = x]
      /\ requests' = Restrict(s.requests, known)
      /\ byID' = Restrict(s.rows, listed)
      /\ interest' = s.interest
  BY DEF Load
<1>2. /\ DOMAIN s.endpoints \subseteq Endpoint
      /\ DOMAIN s.requests = DOMAIN s.endpoints
      /\ \A e \in DOMAIN s.endpoints : s.endpoints[e] \in EndpointRecord /\ s.requests[e] \in Seq(Request)
  BY DEF IsSnapshot, Whole, IsMap
<1>3. \A e \in DOMAIN s.endpoints : List(e)' = s.requests[e]
  <2> TAKE e \in DOMAIN s.endpoints
  <2>1. DOMAIN requests' = known
    BY <1>1 DEF Restrict
  <2>2. e \in known => requests'[e] = s.requests[e]
    BY <1>1 DEF Restrict
  <2>3. e \notin known => s.requests[e] = <<>>
    BY <1>2
  <2> QED BY <2>1, <2>2, <2>3 DEF List
<1>4. byID' = s.rows
  <2>1. listed = DOMAIN s.rows
    <3>1. ASSUME NEW r \in listed PROVE r \in DOMAIN s.rows
      BY DEF Whole
    <3>2. ASSUME NEW r \in DOMAIN s.rows PROVE r \in listed
      <4>1. PICK e \in DOMAIN s.endpoints : e = s.rows[r].endpoint
        BY DEF Whole
      <4>2. r \in Range(s.requests[e])
        BY <4>1 DEF Whole
      <4>3. s.requests[e] # <<>>
        BY <4>2 DEF Range
      <4> QED BY <1>2, <4>2, <4>3
    <3> QED BY <3>1, <3>2
  <2>2. IsMap(s.rows, Request, Row)
    BY DEF IsSnapshot
  <2> HIDE DEF listed
  <2> QED BY <1>1, <2>1, <2>2, MapWhole
<1>5. \A e \in DOMAIN s.endpoints : s.endpoints[e].slug \in DOMAIN slugs' /\ slugs'[s.endpoints[e].slug] = e
  <2> TAKE e \in DOMAIN s.endpoints
  <2>1. \A f \in DOMAIN s.endpoints : s.endpoints[f].slug = s.endpoints[e].slug => f = e
    BY DEF Whole
  <2> QED BY <1>1, <2>1
<1>6. \A x \in DOMAIN slugs' : \E e \in DOMAIN s.endpoints : x = s.endpoints[e].slug
  BY <1>1
<1>7. SlugsAgree'
  <2>1. ASSUME NEW x \in DOMAIN slugs'
        PROVE  slugs'[x] \in DOMAIN endpoints' /\ endpoints'[slugs'[x]].slug = x
    <3>1. PICK e \in DOMAIN s.endpoints : x = s.endpoints[e].slug
      BY <1>6
    <3>2. slugs'[x] = e
      BY <1>5, <3>1
    <3> QED BY <1>1, <3>1, <3>2
  <2>2. \A e \in DOMAIN endpoints' : endpoints'[e].slug \in DOMAIN slugs' /\ slugs'[endpoints'[e].slug] = e
    BY <1>1, <1>5
  <2> QED BY <2>1, <2>2 DEF SlugsAgree
<1>8. DataTypes'
  <2>1. IsMap(endpoints', Endpoint, EndpointRecord) /\ interest' \subseteq Client
    BY <1>1 DEF IsSnapshot
  <2>2. IsMap(slugs', Slug, Endpoint)
    <3>1. \A x \in DOMAIN slugs' : x \in Slug /\ slugs'[x] \in Endpoint
      BY <1>2, <1>5, <1>6 DEF EndpointRecord
    <3> QED BY <1>1, <3>1 DEF IsMap
  <2>3. IsMap(requests', Endpoint, Seq(Request))
    <3>1. IsMap(s.requests, Endpoint, Seq(Request)) /\ known \subseteq DOMAIN s.requests
      BY DEF IsSnapshot
    <3> QED BY <1>1, <3>1, MapCut
  <2>4. IsMap(byID', Request, Row)
    BY <1>4 DEF IsSnapshot
  <2> QED BY <2>1, <2>2, <2>3, <2>4 DEF DataTypes
<1>9. RowsAgree'
  <2>1. \A r \in DOMAIN byID' : byID'[r].endpoint \in DOMAIN endpoints'
    BY <1>1, <1>4 DEF Whole
  <2>2. ASSUME NEW e \in DOMAIN s.endpoints
        PROVE  IsInjective(List(e)') /\ Range(List(e)') = {r \in DOMAIN byID' : byID'[r].endpoint = e}
    BY <1>3, <1>4 DEF Whole
  <2>3. ASSUME NEW e \in Endpoint, e \notin DOMAIN s.endpoints
        PROVE  IsInjective(List(e)') /\ Range(List(e)') = {r \in DOMAIN byID' : byID'[r].endpoint = e}
    <3>1. e \notin DOMAIN requests'
      BY <1>1, <2>3 DEF Restrict
    <3>2. List(e)' = <<>>
      BY <3>1 DEF List
    <3>3. {r \in DOMAIN byID' : byID'[r].endpoint = e} = {}
      BY <1>1, <2>1, <2>3
    <3>4. Range(<<>>) = {} /\ IsInjective(<<>>)
      BY DEF Range, IsInjective
    <3> QED BY <3>2, <3>3, <3>4
  <2> QED BY <2>1, <2>2, <2>3 DEF RowsAgree
<1>10. DataInv'
  BY <1>1, <1>4, <1>7, <1>8, <1>9 DEF DataInv
<1>11. Contents' = s
  <2>1. Contents'.rows = byID'
    BY <1>10, NextContents
  <2>2. [e \in DOMAIN endpoints' |-> List(e)'] = s.requests
    BY <1>1, <1>2, <1>3 DEF IsSnapshot, IsMap
  <2>3. Contents' = [endpoints |-> endpoints', requests |-> [e \in DOMAIN endpoints' |-> List(e)'],
                     rows |-> Contents'.rows, interest |-> interest']
    BY DEF Contents
  <2> QED BY <1>1, <1>4, <2>1, <2>2, <2>3 DEF IsSnapshot
<1> QED BY <1>10, <1>11

-----------------------------------------------------------------------------
(* The invariant is inductive: one lemma for each kind of step.            *)

ControlTypes ==
  /\ dirty \in BOOLEAN
  /\ saver \in {"idle", "swapped", "copied"}
  /\ pruner \in {"idle", "excess"}
  /\ process \in {"down", "running", "stopping", "flushing", "closed"}
  /\ late \in BOOLEAN
  /\ saveFailed \in BOOLEAN
  /\ readable \in BOOLEAN
  /\ starts \in 0 .. MaxStarts
  /\ writes \in 0 .. MaxWrites

SnapshotTypes == IsSnapshot(snap) /\ IsSnapshot(disk)

SaveInv ==
  /\ FilesWhole
  /\ DOMAIN snap.endpoints \cup DOMAIN snap.rows \subseteq issued
  /\ DOMAIN disk.endpoints \cup DOMAIN disk.rows \subseteq issued
  /\ SaverRuns
  /\ CopyIsCurrent
  /\ UnsavedIsDirty
  /\ FlushHolds
  /\ CleanCloseLosesNothing

\* The invariant by what the steps touch.
LEMMA Split == IInv <=> DataInv /\ ControlTypes /\ SnapshotTypes /\ SaveInv
BY DEF IInv, TypeOK, DataInv, DataTypes, ControlTypes, SnapshotTypes, IdsIssued, SaveInv

LEMMA SplitNext == IInv' <=> DataInv' /\ ControlTypes' /\ SnapshotTypes' /\ SaveInv'
BY DEF IInv, TypeOK, DataInv, DataTypes, ControlTypes, SnapshotTypes, IdsIssued, SaveInv

\* Every write is preceded by the end of Save's certainty: the flag goes up.
WriteStep ==
  /\ Write
  /\ dirty' = TRUE
  /\ UNCHANGED <<saving, pruner, lifecycle>>
  /\ issued \subseteq issued'

\* A step that writes keeps what concerns Save, for it raises the flag.
LEMMA WritesKeep ==
  ASSUME IInv, WriteStep, DataInv'
  PROVE  IInv'
<1>1. DataInv /\ ControlTypes /\ SnapshotTypes /\ SaveInv
  BY Split
<1>2. UNCHANGED <<saver, snap, saveFailed, disk, readable, pruner, process, late, starts>>
  BY DEF WriteStep, saving, file, lifecycle
<1>3. ControlTypes'
  BY <1>1, <1>2, MemStoreAssumption DEF WriteStep, Write, ControlTypes, MemStoreAssumption
<1>4. SnapshotTypes'
  BY <1>1, <1>2 DEF SnapshotTypes, IsSnapshot
<1>5. FilesWhole'
  BY <1>1, <1>2 DEF SaveInv, FilesWhole, Whole
<1>6. SaverRuns'
  BY <1>1, <1>2 DEF SaveInv, SaverRuns
<1>7. CopyIsCurrent' /\ UnsavedIsDirty'
  BY DEF WriteStep, CopyIsCurrent, UnsavedIsDirty
<1>8. process = "running" \/ (process # "down" /\ late)
  BY DEF WriteStep, Write, Writing
<1>9. FlushHolds' /\ CleanCloseLosesNothing'
  BY <1>2, <1>8 DEF FlushHolds, CleanCloseLosesNothing
<1>10. SaveInv'
  BY <1>1, <1>2, <1>5, <1>6, <1>7, <1>9 DEF SaveInv, WriteStep
<1> QED BY <1>3, <1>4, <1>10, SplitNext

\* The writes.
LEMMA NextWrites ==
  ASSUME IInv,
         \/ \E e \in Endpoint, s \in Slug, c \in Config \cup {NoConfig} : CreateEndpoint(e, s, c)
         \/ \E e \in Endpoint, c \in Config \cup {NoConfig} : UpdateEndpoint(e, c)
         \/ \E e \in Endpoint, s \in Slug : RenameEndpoint(e, s)
         \/ \E e \in Endpoint : DeleteEndpoint(e)
         \/ \E r \in Request, e \in Endpoint, n \in RowSize : InsertRequest(r, e, n)
         \/ \E r \in Request : SetRequestForwardResult(r)
         \/ \E r \in Request : SetRequestResponseInfo(r)
         \/ \E r \in Request : DeleteRequest(r)
         \/ \E c \in Client : RecordUpgradeInterest(c)
  PROVE  IInv'
<1> USE DEF WriteStep, InMemory
<1>0. DataInv
  BY Split
<1>1. ASSUME NEW e \in Endpoint, NEW s \in Slug, NEW c \in Config \cup {NoConfig}, CreateEndpoint(e, s, c)
      PROVE  WriteStep /\ DataInv'
  BY <1>0, <1>1, CreateKeeps DEF CreateEndpoint
<1>2. ASSUME NEW e \in Endpoint, NEW c \in Config \cup {NoConfig}, UpdateEndpoint(e, c)
      PROVE  WriteStep /\ DataInv'
  BY <1>0, <1>2, UpdateKeeps DEF UpdateEndpoint
<1>3. ASSUME NEW e \in Endpoint, NEW s \in Slug, RenameEndpoint(e, s)
      PROVE  WriteStep /\ DataInv'
  BY <1>0, <1>3, RenameKeeps DEF RenameEndpoint
<1>4. ASSUME NEW e \in Endpoint, DeleteEndpoint(e)
      PROVE  WriteStep /\ DataInv'
  BY <1>0, <1>4, DeleteKeeps DEF DeleteEndpoint
<1>5. ASSUME NEW r \in Request, NEW e \in Endpoint, NEW n \in RowSize, InsertRequest(r, e, n)
      PROVE  WriteStep /\ DataInv'
  BY <1>0, <1>5, InsertKeeps DEF InsertRequest
<1>6. ASSUME NEW r \in Request, NEW what \in {"forward", "response"}, Record(r, what)
      PROVE  WriteStep /\ DataInv'
  BY <1>0, <1>6, RecordKeeps DEF Record
<1>7. ASSUME NEW r \in Request, DeleteRequest(r)
      PROVE  WriteStep /\ DataInv'
  BY <1>0, <1>7, DeleteRequestKeeps DEF DeleteRequest
<1>8. ASSUME NEW c \in Client, RecordUpgradeInterest(c)
      PROVE  WriteStep /\ DataInv'
  BY <1>0, <1>8, InterestKeeps DEF RecordUpgradeInterest
<1>9. WriteStep /\ DataInv'
  <2> HIDE DEF WriteStep, InMemory
  <2>1. CASE \E e \in Endpoint, s \in Slug, c \in Config \cup {NoConfig} : CreateEndpoint(e, s, c)
    BY <1>1, <2>1
  <2>2. CASE \E e \in Endpoint, c \in Config \cup {NoConfig} : UpdateEndpoint(e, c)
    BY <1>2, <2>2
  <2>3. CASE \E e \in Endpoint, s \in Slug : RenameEndpoint(e, s)
    BY <1>3, <2>3
  <2>4. CASE \E e \in Endpoint : DeleteEndpoint(e)
    BY <1>4, <2>4
  <2>5. CASE \E r \in Request, e \in Endpoint, n \in RowSize : InsertRequest(r, e, n)
    BY <1>5, <2>5
  <2>6. CASE \E r \in Request : SetRequestForwardResult(r)
    BY <1>6, <2>6 DEF SetRequestForwardResult
  <2>7. CASE \E r \in Request : SetRequestResponseInfo(r)
    BY <1>6, <2>7 DEF SetRequestResponseInfo
  <2>8. CASE \E r \in Request : DeleteRequest(r)
    BY <1>7, <2>8
  <2>9. CASE \E c \in Client : RecordUpgradeInterest(c)
    BY <1>8, <2>9
  <2> QED BY <2>1, <2>2, <2>3, <2>4, <2>5, <2>6, <2>7, <2>8, <2>9
<1> QED BY <1>9, WritesKeep

\* Deletions of old requests, the pruner's among them.
LEMMA NextDeletions ==
  ASSUME IInv,
         \/ \E e \in Endpoint : DeleteAllRequests(e)
         \/ PruneByStorageBudget
         \/ PruneExcessRequests
  PROVE  IInv'
<1>1. TypeOK /\ DataInv /\ ControlTypes /\ SnapshotTypes /\ SaveInv
  BY Split DEF IInv
<1>2. PICK count : /\ DOMAIN count \subseteq Endpoint
                   /\ \A e \in DOMAIN count : count[e] \in 0 .. Len(List(e))
                   /\ dropRequests(count)
  BY <1>1, DeletionsDrop DEF Dropping
<1>3. /\ DataInv'
      /\ Shrinks
      /\ dirty' \in BOOLEAN
      /\ dirty' \/ (~dirty /\ Contents' = Contents)
  BY <1>1, <1>2, DropKeeps
<1>4. UNCHANGED <<saver, snap, saveFailed, disk, readable, process, late, starts, issued>>
  BY <1>2 DEF dropRequests, saving, file, lifecycle
<1>5. pruner' \in {"idle", "excess"} /\ writes' \in 0 .. MaxWrites
  <2>1. pruner \in {"idle", "excess"} /\ writes \in 0 .. MaxWrites
    BY <1>1 DEF ControlTypes
  <2>2. ASSUME NEW e \in Endpoint, DeleteAllRequests(e)
        PROVE  pruner' = pruner /\ writes < MaxWrites /\ writes' = writes + 1
    BY <2>2 DEF DeleteAllRequests, Write
  <2>3. PruneByStorageBudget => pruner' = "excess" /\ writes' = writes
    BY DEF PruneByStorageBudget
  <2>4. PruneExcessRequests => pruner' = "idle" /\ writes' = writes
    BY DEF PruneExcessRequests
  <2>5. MaxWrites \in Nat
    BY MemStoreAssumption DEF MemStoreAssumption
  <2> QED BY <2>1, <2>2, <2>3, <2>4, <2>5
<1>6. ControlTypes'
  BY <1>1, <1>3, <1>4, <1>5 DEF ControlTypes
<1>7. SnapshotTypes' /\ FilesWhole'
  BY <1>1, <1>4 DEF SnapshotTypes, IsSnapshot, SaveInv, FilesWhole, Whole
<1>8. SaverRuns'
  BY <1>1, <1>4 DEF SaveInv, SaverRuns
<1>9. CopyIsCurrent' /\ UnsavedIsDirty'
  BY <1>1, <1>3, <1>4 DEF SaveInv, CopyIsCurrent, UnsavedIsDirty
<1>10. ASSUME NEW s, IsSnapshot(s), Whole(s), Holds(s)
       PROVE  /\ endpoints' = s.endpoints
              /\ interest' = s.interest
              /\ IsRestriction(byID', s.rows)
              /\ \A e \in DOMAIN endpoints' : IsNewestOf(List(e)', s.requests[e])
  BY <1>1, <1>3, <1>10, ShrinkHolds DEF Whole
<1>11. FlushHolds'
  <2> SUFFICES ASSUME process' = "flushing", ~late', saver' = "copied"
               PROVE  Holds(snap)'
    BY DEF FlushHolds
  <2>1. IsSnapshot(snap) /\ Whole(snap) /\ Holds(snap)
    BY <1>1, <1>4 DEF SnapshotTypes, SaveInv, FilesWhole, FlushHolds
  <2> QED BY <1>4, <1>10, <2>1 DEF Holds
<1>12. CleanCloseLosesNothing'
  <2> SUFFICES ASSUME process' = "closed", ~late', ~saveFailed'
               PROVE  Holds(disk)'
    BY DEF CleanCloseLosesNothing
  <2>1. IsSnapshot(disk) /\ Whole(disk) /\ Holds(disk)
    BY <1>1, <1>4 DEF SnapshotTypes, SaveInv, FilesWhole, CleanCloseLosesNothing
  <2> QED BY <1>4, <1>10, <2>1 DEF Holds
<1>13. SaveInv'
  BY <1>1, <1>4, <1>7, <1>8, <1>9, <1>11, <1>12 DEF SaveInv
<1> QED BY <1>3, <1>6, <1>7, <1>13, SplitNext

\* No snapshot at all agrees in itself.
LEMMA EmptyIsWhole ==
  IsSnapshot(Empty) /\ Whole(Empty) /\ DOMAIN Empty.endpoints = {} /\ DOMAIN Empty.rows = {}
BY DEF Empty, IsSnapshot, Whole, IsMap, EndpointRecord, Row

\* Memory stays as it is.
DataStays == UNCHANGED <<endpoints, slugs, requests, byID, interest, issued>>

\* Steps that leave the data alone.
LEMMA DataUnchanged ==
  ASSUME DataStays
  PROVE  /\ DataInv => DataInv'
         /\ Contents' = Contents
         /\ \A e : List(e)' = List(e)
<1>1. \A e : List(e)' = List(e)
  BY DEF DataStays, List
<1>2. Contents' = Contents
  BY <1>1 DEF DataStays, Contents
<1>3. DataTypes => DataTypes'
  BY DEF DataStays, DataTypes
<1>4. SlugsAgree => SlugsAgree'
  BY DEF DataStays, SlugsAgree
<1>5. RowsAgree => RowsAgree'
  BY DEF DataStays, RowsAgree, List
<1> QED BY <1>1, <1>2, <1>3, <1>4, <1>5 DEF DataInv, DataStays

\* While memory stays, what held it holds it still.
LEMMA StillHolds ==
  ASSUME DataStays, NEW s, Holds(s)
  PROVE  /\ endpoints' = s.endpoints
         /\ interest' = s.interest
         /\ IsRestriction(byID', s.rows)
         /\ \A e \in DOMAIN endpoints' : IsNewestOf(List(e)', s.requests[e])
BY DataUnchanged DEF DataStays, Holds

\* The steps of Save.
LEMMA NextSave ==
  ASSUME IInv, NothingToSave \/ SwapDirty \/ Copy \/ Rename \/ SaveFails
  PROVE  IInv'
<1>1. DataInv /\ ControlTypes /\ SnapshotTypes /\ SaveInv
  BY Split
<1>2. DataStays
  BY DEF NothingToSave, SwapDirty, Copy, Rename, SaveFails, Return, data, DataStays
<1>3. /\ DataInv' /\ Contents' = Contents /\ IsSnapshot(Contents) /\ Whole(Contents)
      /\ DOMAIN Contents.endpoints \cup DOMAIN Contents.rows \subseteq issued
      /\ issued' = issued
  BY <1>1, <1>2, DataUnchanged, ContentsTyped DEF DataStays
<1>4. ControlTypes'
  BY <1>1 DEF NothingToSave, SwapDirty, Copy, Rename, SaveFails, Return, RetryLater, file, lifecycle, ControlTypes
<1>5. /\ snap' = Empty \/ snap' = snap \/ snap' = Contents
      /\ disk' = disk \/ disk' = snap
  BY DEF NothingToSave, SwapDirty, Copy, Rename, SaveFails, Return, file
<1>6. SnapshotTypes'
  BY <1>1, <1>3, <1>5, EmptyIsWhole DEF SnapshotTypes
<1>7. FilesWhole'
  BY <1>1, <1>3, <1>5, EmptyIsWhole DEF SaveInv, FilesWhole
<1>8. /\ DOMAIN snap'.endpoints \cup DOMAIN snap'.rows \subseteq issued'
      /\ DOMAIN disk'.endpoints \cup DOMAIN disk'.rows \subseteq issued'
  BY <1>1, <1>3, <1>5, EmptyIsWhole DEF SaveInv
<1>9. SaverRuns'
  BY <1>1 DEF NothingToSave, SwapDirty, Copy, Rename, SaveFails, Return, RetryLater, file, lifecycle, Saving, SaveInv, SaverRuns, ControlTypes
<1>10. CopyIsCurrent'
  <2>1. CASE Copy
    BY <1>3, <2>1 DEF Copy, CopyIsCurrent
  <2>2. CASE ~Copy
    BY <2>2 DEF NothingToSave, SwapDirty, Rename, SaveFails, Return, CopyIsCurrent
  <2> QED BY <2>1, <2>2
<1>11. UnsavedIsDirty'
  <2>1. CASE NothingToSave
    BY <1>1, <1>3, <2>1 DEF NothingToSave, Saving, Return, file, SaveInv, UnsavedIsDirty
  <2>2. CASE SwapDirty \/ Copy
    BY <2>2 DEF SwapDirty, Copy, UnsavedIsDirty
  <2>3. CASE Rename
    BY <1>1, <1>3, <2>3 DEF Rename, Return, SaveInv, CopyIsCurrent, UnsavedIsDirty
  <2>4. CASE SaveFails
    BY <2>4 DEF SaveFails, RetryLater, UnsavedIsDirty
  <2> QED BY <2>1, <2>2, <2>3, <2>4
<1>12. FlushHolds'
  <2>1. CASE Copy
    <3>1. Holds(snap')
      BY <1>1, <2>1, ContentsHold DEF Copy
    <3>2. /\ endpoints' = snap'.endpoints
          /\ interest' = snap'.interest
          /\ IsRestriction(byID', snap'.rows)
          /\ \A e \in DOMAIN endpoints' : IsNewestOf(List(e)', snap'.requests[e])
      BY <1>2, <3>1, StillHolds
    <3> QED BY <3>2 DEF FlushHolds, Holds
  <2>2. CASE ~Copy
    BY <2>2 DEF NothingToSave, SwapDirty, Rename, SaveFails, Return, FlushHolds
  <2> QED BY <2>1, <2>2
<1>13. CleanCloseLosesNothing'
  <2> SUFFICES ASSUME process' = "closed", ~late', ~saveFailed'
               PROVE  Holds(disk)'
    BY DEF CleanCloseLosesNothing
  <2>1. CASE NothingToSave
    <3>1. disk' = disk /\ disk = Contents
      BY <1>1, <2>1 DEF NothingToSave, Saving, file, SaveInv, UnsavedIsDirty
    <3>2. Holds(disk')
      BY <1>1, <3>1, ContentsHold
    <3>3. /\ endpoints' = disk'.endpoints
          /\ interest' = disk'.interest
          /\ IsRestriction(byID', disk'.rows)
          /\ \A e \in DOMAIN endpoints' : IsNewestOf(List(e)', disk'.requests[e])
      BY <1>2, <3>2, StillHolds
    <3> QED BY <3>3 DEF Holds
  <2>2. CASE SwapDirty \/ Copy
    <3>1. process = "closed"
      BY <2>2 DEF SwapDirty, Copy, lifecycle
    <3>2. saver # "idle" \/ SwapDirty
      BY <2>2 DEF Copy
    <3> QED BY <1>1, <2>2, <3>1, <3>2 DEF SwapDirty, Saving, SaveInv, SaverRuns
  <2>3. CASE Rename
    <3>1. process = "flushing" /\ disk' = snap /\ late = late' /\ saver = "copied"
      BY <1>1, <2>3 DEF Rename, Return, SaveInv, SaverRuns, ControlTypes
    <3>2. Holds(disk')
      BY <1>1, <3>1 DEF SaveInv, FlushHolds
    <3>3. /\ endpoints' = disk'.endpoints
          /\ interest' = disk'.interest
          /\ IsRestriction(byID', disk'.rows)
          /\ \A e \in DOMAIN endpoints' : IsNewestOf(List(e)', disk'.requests[e])
      BY <1>2, <3>2, StillHolds
    <3> QED BY <3>3 DEF Holds
  <2>4. CASE SaveFails
    BY <1>1, <2>4 DEF SaveFails, Return, SaveInv, SaverRuns
  <2> QED BY <2>1, <2>2, <2>3, <2>4
<1>14. SaveInv'
  BY <1>7, <1>8, <1>9, <1>10, <1>11, <1>12, <1>13 DEF SaveInv
<1> QED BY <1>3, <1>4, <1>6, <1>14, SplitNext

\* The process starts, stops, crashes; the file is damaged.
LEMMA NextLifecycle ==
  ASSUME IInv, New \/ Close \/ Flush \/ Damage \/ Exit \/ Crash
  PROVE  IInv'
<1>1. DataInv /\ ControlTypes /\ SnapshotTypes /\ SaveInv
  BY Split
<1>2. CASE New
  <2>1. process = "down" /\ Load(disk) /\ issued' = issued /\ snap' = snap /\ disk' = disk /\ readable
    BY <1>2 DEF New, Loadable, saving, file
  <2>2. DataInv' /\ Contents' = disk'
    <3>1. IsSnapshot(disk) /\ Whole(disk) /\ DOMAIN disk.endpoints \cup DOMAIN disk.rows \subseteq issued
      BY <1>1 DEF SnapshotTypes, SaveInv, FilesWhole
    <3>2. issued \subseteq Endpoint \cup Request
      BY <1>1 DEF DataInv, DataTypes
    <3>3. DataInv' /\ Contents' = disk
      BY <2>1, <3>1, <3>2, LoadRestores
    <3> QED BY <2>1, <3>3
  <2>3. saver' = "idle" /\ process' = "running" /\ readable'
    BY <1>1, <1>2, <2>1 DEF New, saving, file, SaveInv, SaverRuns
  <2>4. ControlTypes'
    <3>1. MaxStarts \in Nat
      BY MemStoreAssumption DEF MemStoreAssumption
    <3>2. starts \in 0 .. MaxStarts /\ starts < MaxStarts /\ starts' = starts + 1
      BY <1>1, <1>2 DEF New, ControlTypes
    <3>3. starts' \in 0 .. MaxStarts
      BY <3>1, <3>2
    <3>4. /\ process' = "running" /\ dirty' = FALSE
          /\ UNCHANGED <<saver, saveFailed, readable, pruner, late, writes>>
      BY <1>2 DEF New, saving, file
    <3> QED BY <1>1, <3>3, <3>4 DEF ControlTypes
  <2>5. SnapshotTypes' /\ FilesWhole'
    BY <1>1, <2>1 DEF SnapshotTypes, SaveInv, FilesWhole
  <2>6. SaverRuns' /\ CopyIsCurrent' /\ UnsavedIsDirty' /\ FlushHolds' /\ CleanCloseLosesNothing'
    BY <2>2, <2>3 DEF SaverRuns, CopyIsCurrent, UnsavedIsDirty, FlushHolds, CleanCloseLosesNothing
  <2>7. SaveInv'
    BY <1>1, <2>1, <2>5, <2>6 DEF SaveInv
  <2> QED BY <2>2, <2>4, <2>5, <2>7, SplitNext
<1>3. CASE Close \/ Flush
  <2>1. DataStays /\ UNCHANGED <<dirty, saver, snap, saveFailed, disk, readable, pruner>>
    BY <1>3 DEF Close, Flush, data, saving, file, DataStays
  <2>2. /\ DataInv' /\ Contents' = Contents /\ issued' = issued
    BY <1>1, <2>1, DataUnchanged DEF DataStays
  <2>3. process \in {"running", "stopping"} /\ process' \in {"stopping", "flushing"}
    BY <1>3 DEF Close, Flush
  <2>4. ControlTypes'
    BY <1>1, <1>3, <2>1, <2>3 DEF Close, Flush, ControlTypes
  <2>5. SnapshotTypes' /\ FilesWhole'
    BY <1>1, <2>1 DEF SnapshotTypes, SaveInv, FilesWhole
  <2>6. SaverRuns' /\ CopyIsCurrent' /\ UnsavedIsDirty'
    BY <1>1, <2>1, <2>2, <2>3 DEF SaveInv, SaverRuns, CopyIsCurrent, UnsavedIsDirty
  <2>7. FlushHolds' /\ CleanCloseLosesNothing'
    BY <1>3, <2>1, <2>3 DEF Close, Flush, FlushHolds, CleanCloseLosesNothing
  <2>8. SaveInv'
    BY <1>1, <2>1, <2>2, <2>5, <2>6, <2>7 DEF SaveInv
  <2> QED BY <2>2, <2>4, <2>5, <2>8, SplitNext
<1>4. CASE Damage
  <2>1. DataStays /\ disk' = Empty /\ readable' = FALSE /\ process = "down"
    BY <1>4 DEF Damage, data, DataStays
  <2>2. UNCHANGED <<dirty, saver, snap, saveFailed, pruner, process, late, starts, writes>>
    BY <1>4 DEF Damage, lifecycle
  <2>3. DataInv' /\ Contents' = Contents /\ issued' = issued
    BY <1>1, <2>1, DataUnchanged DEF DataStays
  <2>4. ControlTypes'
    BY <1>1, <2>1, <2>2 DEF ControlTypes
  <2>5. SnapshotTypes' /\ FilesWhole'
    BY <1>1, <2>1, <2>2, EmptyIsWhole DEF SnapshotTypes, SaveInv, FilesWhole
  <2>6. saver = "idle"
    BY <1>1, <2>1 DEF SaveInv, SaverRuns
  <2>7. SaverRuns' /\ CopyIsCurrent' /\ UnsavedIsDirty' /\ FlushHolds' /\ CleanCloseLosesNothing'
    BY <2>1, <2>2, <2>6 DEF SaverRuns, CopyIsCurrent, UnsavedIsDirty, FlushHolds, CleanCloseLosesNothing
  <2>8. SaveInv'
    BY <1>1, <2>1, <2>2, <2>3, <2>5, <2>7, EmptyIsWhole DEF SaveInv
  <2> QED BY <2>3, <2>4, <2>5, <2>8, SplitNext
<1>5. CASE Exit \/ Crash
  <2>1. Gone
    BY <1>5 DEF Exit, Crash
  <2>2. /\ process' = "down"
        /\ endpoints' = <<>> /\ slugs' = <<>> /\ requests' = <<>> /\ byID' = <<>> /\ interest' = {}
        /\ dirty' = FALSE
        /\ saver' = "idle" /\ snap' = Empty /\ saveFailed' = FALSE
        /\ pruner' = "idle"
        /\ late' = FALSE
        /\ UNCHANGED <<disk, readable, issued, starts, writes>>
    BY <2>1 DEF Gone, file
  <2>3. DataInv'
    <3>1. DataTypes'
      BY <1>1, <2>2 DEF DataInv, DataTypes, IsMap
    <3>2. SlugsAgree'
      BY <2>2 DEF SlugsAgree
    <3>3. RowsAgree'
      <4>1. \A e : List(e)' = <<>>
        BY <2>2 DEF List
      <4>2. Range(<<>>) = {} /\ IsInjective(<<>>)
        BY DEF Range, IsInjective
      <4>3. \A e : {r \in DOMAIN byID' : byID'[r].endpoint = e} = {}
        BY <2>2
      <4> QED BY <2>2, <4>1, <4>2, <4>3 DEF RowsAgree
    <3> QED BY <1>1, <2>2, <3>1, <3>2, <3>3 DEF DataInv
  <2>4. ControlTypes'
    BY <1>1, <2>2 DEF ControlTypes
  <2>5. SnapshotTypes' /\ FilesWhole'
    BY <1>1, <2>2, EmptyIsWhole DEF SnapshotTypes, SaveInv, FilesWhole
  <2>6. SaverRuns' /\ CopyIsCurrent' /\ UnsavedIsDirty' /\ FlushHolds' /\ CleanCloseLosesNothing'
    BY <2>2 DEF SaverRuns, CopyIsCurrent, UnsavedIsDirty, FlushHolds, CleanCloseLosesNothing
  <2>7. SaveInv'
    BY <1>1, <2>2, <2>5, <2>6, EmptyIsWhole DEF SaveInv
  <2> QED BY <2>3, <2>4, <2>5, <2>7, SplitNext
<1> QED BY <1>2, <1>3, <1>4, <1>5

-----------------------------------------------------------------------------
(* The theorems.                                                           *)

\* The start, a stutter, and any step.
LEMMA InitHolds == ASSUME Init PROVE IInv
<1>1. Whole(Empty) /\ IsSnapshot(Empty) /\ DOMAIN Empty.endpoints = {} /\ DOMAIN Empty.rows = {}
  BY EmptyIsWhole
<1>2. TypeOK
  <2>1. 0 \in 0 .. MaxStarts /\ 0 \in 0 .. MaxWrites
    BY MemStoreAssumption DEF MemStoreAssumption
  <2>2. \A D, R : IsMap(<<>>, D, R)
    BY DEF IsMap
  <2> QED BY <1>1, <2>1, <2>2 DEF Init, TypeOK
<1>3. SlugsAgree
  BY DEF Init, SlugsAgree
<1>4. RowsAgree
  <2>1. \A e : List(e) = <<>>
    BY DEF Init, List
  <2>2. Range(<<>>) = {} /\ IsInjective(<<>>)
    BY DEF Range, IsInjective
  <2>3. \A e : {r \in DOMAIN byID : byID[r].endpoint = e} = {}
    BY DEF Init
  <2> QED BY <2>1, <2>2, <2>3 DEF Init, RowsAgree
<1>5. FilesWhole /\ IdsIssued
  BY <1>1 DEF Init, FilesWhole, IdsIssued
<1>6. SaverRuns /\ CopyIsCurrent /\ UnsavedIsDirty /\ FlushHolds /\ CleanCloseLosesNothing
  BY DEF Init, SaverRuns, CopyIsCurrent, UnsavedIsDirty, FlushHolds, CleanCloseLosesNothing
<1> QED BY <1>2, <1>3, <1>4, <1>5, <1>6 DEF IInv

LEMMA StutterHolds == ASSUME IInv, UNCHANGED vars PROVE IInv'
<1>1. DataInv /\ ControlTypes /\ SnapshotTypes /\ SaveInv
  BY Split
<1>2. /\ DataStays
      /\ UNCHANGED <<dirty, saver, snap, saveFailed, disk, readable, pruner, process, late, starts, writes>>
  BY DEF vars, data, saving, file, lifecycle, DataStays
<1>3. DataInv' /\ Contents' = Contents /\ issued' = issued
  BY <1>1, <1>2, DataUnchanged DEF DataStays
<1>4. ControlTypes'
  BY <1>1, <1>2 DEF ControlTypes
<1>5. SnapshotTypes' /\ FilesWhole'
  BY <1>1, <1>2 DEF SnapshotTypes, SaveInv, FilesWhole
<1>6. SaverRuns' /\ CopyIsCurrent' /\ UnsavedIsDirty'
  BY <1>1, <1>2, <1>3 DEF SaveInv, SaverRuns, CopyIsCurrent, UnsavedIsDirty
<1>7. ASSUME NEW s, Holds(s)
      PROVE  /\ endpoints' = s.endpoints
             /\ interest' = s.interest
             /\ IsRestriction(byID', s.rows)
             /\ \A e \in DOMAIN endpoints' : IsNewestOf(List(e)', s.requests[e])
  BY <1>2, <1>7, StillHolds
<1>8. FlushHolds' /\ CleanCloseLosesNothing'
  <2>1. (Holds(snap) => Holds(snap)') /\ (Holds(disk) => Holds(disk)')
    BY <1>2, <1>7 DEF Holds
  <2> QED BY <1>1, <1>2, <2>1 DEF SaveInv, FlushHolds, CleanCloseLosesNothing
<1>9. SaveInv'
  BY <1>1, <1>2, <1>3, <1>5, <1>6, <1>8 DEF SaveInv
<1> QED BY <1>3, <1>4, <1>5, <1>9, SplitNext

LEMMA StepHolds == ASSUME IInv, [Next]_vars PROVE IInv'
<1>1. CASE UNCHANGED vars
  BY <1>1, StutterHolds
<1>2. CASE Next
  BY <1>2, NextWrites, NextDeletions, NextSave, NextLifecycle DEF Next
<1> QED BY <1>1, <1>2

\* The invariant holds in every state.
THEOREM Inductive == Spec => []IInv
<1>1. Init => IInv
  BY InitHolds
<1>2. IInv /\ [Next]_vars => IInv'
  BY StepHolds
<1> QED BY <1>1, <1>2, PTL DEF Spec

\* Every variable of the store keeps its type, the lists and maps of memory and
\* of both snapshots among them.
THEOREM TypeCorrect == Spec => []TypeOK
<1>1. IInv => TypeOK
  BY DEF IInv
<1> QED BY <1>1, Inductive, PTL

\* The four maps of memstore.go agree in every state: slugs with endpoints, and
\* an endpoint's list with the rows found by id.
THEOREM MapsAgree == Spec => []IndexesAgree
<1>1. IInv => IndexesAgree
  BY DEF IInv, IndexesAgree
<1> QED BY <1>1, Inductive, PTL

\* Between two Saves with the flag down, the file holds what memory holds: no
\* write is ever left behind, wherever it fell while Save ran.
THEOREM NothingLeftBehind == Spec => []UnsavedIsDirty
<1>1. IInv => UnsavedIsDirty
  BY DEF IInv
<1> QED BY <1>1, Inductive, PTL

\* A clean shutdown whose writers had ended and whose last Save was written
\* leaves a file that holds all of memory.
THEOREM CleanClose == Spec => []CleanCloseLosesNothing
<1>1. IInv => CleanCloseLosesNothing
  BY DEF IInv
<1> QED BY <1>1, Inductive, PTL

\* A running process changes the file only from one readable snapshot to the
\* one that Save copied.
THEOREM WholeFiles == Spec => OnlyWholeSnapshots
<1>1. ASSUME IInv, [Next]_vars
      PROVE  [process # "down" => readable /\ readable' /\ disk' = snap]_file
  <2> SUFFICES ASSUME process # "down", file' # file
               PROVE  readable /\ readable' /\ disk' = snap
    OBVIOUS
  <2>1. Rename
    BY <1>1 DEF Next, vars, saving, InMemory, CreateEndpoint, UpdateEndpoint, RenameEndpoint, DeleteEndpoint,
                InsertRequest, Record, SetRequestForwardResult, SetRequestResponseInfo, DeleteRequest,
                RecordUpgradeInterest, DeleteAllRequests, PruneByStorageBudget, PruneExcessRequests, dropRequests,
                NothingToSave, SwapDirty, Copy, SaveFails, New, Close, Flush, Exit, Crash, Gone, Damage
  <2>2. readable
    BY <1>1 DEF IInv, SaverRuns
  <2> QED BY <2>1, <2>2 DEF Rename
<1> QED BY <1>1, Inductive, PTL DEF Spec, OnlyWholeSnapshots

-----------------------------------------------------------------------------
(* What the pruner deletes.                                                *)

\* The rows over the budget are the oldest: a row's cumulative size counts all
\* newer ones, so that the loop may stop at the first that is over.
LEMMA OverBudgetIsOldest ==
  ASSUME NEW list \in Seq(DOMAIN byID), \A r \in DOMAIN byID : byID[r].size \in Nat
  PROVE  /\ {i \in DOMAIN list : CumulativeSize(list, i) > MaxBytes} = 1 .. ExcessBytes(list)
         /\ ExcessBytes(list) \in 0 .. Len(list)
<1> DEFINE n == Len(list)
           f == [j \in DOMAIN list |-> byID[list[j]].size]
           over == OverBudget(list)
<1>1. n \in Nat /\ DOMAIN list = 1 .. n /\ \A k \in 1 .. n : f[k] \in Nat
  OBVIOUS
<1>2. \A i \in 1 .. n : BytesFrom(list, i) = SumFunctionOnSet(f, i .. n)
  BY DEF BytesFrom
<1>3. \A i \in 1 .. n : CumulativeSize(list, i) = BytesFrom(list, i)
  <2> TAKE i \in 1 .. n
  <2> DEFINE g == [j \in {j \in DOMAIN list : j >= i} |-> byID[list[j]].size]
  <2>1. {j \in DOMAIN list : j >= i} = i .. n
    BY <1>1
  <2>2. CumulativeSize(list, i) = SumFunctionOnSet(g, i .. n)
    BY <2>1 DEF CumulativeSize
  <2>3. IsFiniteSet(i .. n)
    BY <1>1, FS_Interval
  <2>4. \A j \in i .. n : g[j] = f[j]
    BY <1>1, <2>1
  <2> HIDE DEF f, g, n
  <2>5. SumFunctionOnSet(g, i .. n) = SumFunctionOnSet(f, i .. n)
    BY <2>3, <2>4, SameSum
  <2> QED BY <1>2, <2>2, <2>5
<1>4. \A i \in 1 .. n : BytesFrom(list, i) \in Nat
  <2> TAKE i \in 1 .. n
  <2>1. IsFiniteSet(i .. n) /\ \A k \in i .. n : f[k] \in Nat
    BY <1>1, FS_Interval
  <2> HIDE DEF f, n
  <2> QED BY <1>2, <2>1, SumIsNatural
<1>5. \A i \in 1 .. n : \A j \in i .. n : BytesFrom(list, j) <= BytesFrom(list, i)
  <2> TAKE i \in 1 .. n
  <2> TAKE j \in i .. n
  <2> HIDE DEF f, n
  <2>1. j \in 1 .. n
    BY <1>1
  <2> QED BY <1>1, <1>2, <2>1, SumGrows
<1>6. over = {i \in 1 .. n : BytesFrom(list, i) > MaxBytes}
  BY <1>1 DEF OverBudget
<1>7. {i \in DOMAIN list : CumulativeSize(list, i) > MaxBytes} = over
  BY <1>1, <1>3, <1>6
<1> HIDE DEF f, n, over
<1>8. CASE over = {}
  <2>1. ExcessBytes(list) = 0
    BY <1>8 DEF ExcessBytes, over
  <2> QED BY <1>1, <1>7, <1>8, <2>1 DEF n
<1>9. CASE over # {}
  <2>1. over \in SUBSET (1 .. n)
    BY <1>6
  <2>2. PICK k \in over : k = ExcessBytes(list) /\ \A i \in over : k >= i
    <3>1. Max(over) \in over /\ \A i \in over : Max(over) >= i
      BY <1>1, <1>9, <2>1, Greatest
    <3>2. Max(over) = ExcessBytes(list)
      BY <1>9 DEF ExcessBytes, over
    <3> QED BY <3>1, <3>2
  <2>3. ASSUME NEW i \in 1 .. k PROVE i \in over
    <3>1. i \in 1 .. n /\ k \in i .. n
      BY <1>1, <2>1, <2>2
    <3>2. BytesFrom(list, k) > MaxBytes /\ BytesFrom(list, k) <= BytesFrom(list, i)
      <4>1. k \in over
        BY <2>2
      <4> QED BY <1>5, <1>6, <3>1, <4>1
    <3>3. BytesFrom(list, k) \in Nat /\ BytesFrom(list, i) \in Nat
      BY <1>4, <2>1, <2>2, <3>1
    <3>4. BytesFrom(list, i) > MaxBytes
      BY <3>2, <3>3, MemStoreAssumption DEF MemStoreAssumption
    <3> QED BY <1>6, <3>1, <3>4
  <2>4. ASSUME NEW i \in over PROVE i \in 1 .. k
    <3>1. i \in 1 .. n /\ k \in 1 .. n /\ k >= i
      BY <2>1, <2>2
    <3> QED BY <1>1, <3>1
  <2>5. over = 1 .. k
    BY <2>3, <2>4
  <2>6. k \in 1 .. n
    BY <2>1, <2>2
  <2>7. k \in 0 .. n
    BY <1>1, <2>6
  <2> QED BY <1>7, <2>2, <2>5, <2>7 DEF n
<1> QED BY <1>8, <1>9

\* The rows whose rank from the newest is too high are the oldest.
LEMMA OverCountIsOldest ==
  ASSUME NEW S, NEW list \in Seq(S)
  PROVE  /\ {i \in DOMAIN list : RowNumber(list, i) > MaxCount} = 1 .. ExcessCount(list)
         /\ ExcessCount(list) \in 0 .. Len(list)
<1>1. Len(list) \in Nat /\ DOMAIN list = 1 .. Len(list) /\ MaxCount \in Nat
  BY MemStoreAssumption DEF MemStoreAssumption
<1> QED BY <1>1 DEF RowNumber, ExcessCount

\* Dropping the oldest rows deletes them and no other, since no row is listed
\* twice.
LEMMA DropDeletes ==
  ASSUME NEW list \in Seq(Request), IsInjective(list), NEW cut \in 0 .. Len(list)
  PROVE  SubSeq(list, cut + 1, Len(list)) = Without(list, {list[i] : i \in 1 .. cut})
<1> DEFINE X == {list[i] : i \in 1 .. cut}
<1>1. \A k \in 1 .. cut : list[k] \in X
  OBVIOUS
<1>2. \A k \in cut + 1 .. Len(list) : list[k] \notin X
  <2> SUFFICES ASSUME NEW k \in cut + 1 .. Len(list), NEW i \in 1 .. cut, list[k] = list[i]
               PROVE  FALSE
    OBVIOUS
  <2> QED BY DEF IsInjective
<1> HIDE DEF X
<1>3. Without(list, X) = SubSeq(list, cut + 1, Len(list))
  BY <1>1, <1>2, WithoutPrefix
<1> QED BY <1>3 DEF X

\* What is listed in memory.
LEMMA ListedRows ==
  ASSUME IInv, NEW e \in DOMAIN requests
  PROVE  /\ e \in Endpoint /\ List(e) = requests[e]
         /\ requests[e] \in Seq(Request) /\ IsInjective(requests[e])
         /\ requests[e] \in Seq(DOMAIN byID)
         /\ \A r \in DOMAIN byID : byID[r].size \in Nat
<1>1. e \in Endpoint /\ List(e) = requests[e] /\ requests[e] \in Seq(Request)
  BY DEF IInv, TypeOK, IsMap, List
<1>2. IsInjective(requests[e]) /\ Range(requests[e]) \subseteq DOMAIN byID
  BY <1>1 DEF IInv, RowsAgree
<1>3. requests[e] \in Seq(DOMAIN byID)
  BY <1>1, <1>2 DEF Range
<1>4. \A r \in DOMAIN byID : byID[r].size \in Nat
  BY MemStoreAssumption DEF IInv, TypeOK, IsMap, Row, MemStoreAssumption
<1> QED BY <1>1, <1>2, <1>3, <1>4

\* So each pass deletes what the queries delete.
LEMMA PruneDeletes ==
  ASSUME IInv, NEW e \in DOMAIN requests
  PROVE  /\ PruneByStorageBudget =>
              Deletes(e, {i \in DOMAIN requests[e] : CumulativeSize(requests[e], i) > MaxBytes})
         /\ PruneExcessRequests =>
              Deletes(e, {i \in DOMAIN requests[e] : RowNumber(requests[e], i) > MaxCount})
<1> DEFINE list == requests[e]
<1>1. /\ list \in Seq(Request) /\ IsInjective(list) /\ list \in Seq(DOMAIN byID) /\ List(e) = list
      /\ \A r \in DOMAIN byID : byID[r].size \in Nat
  BY ListedRows
<1>2. ASSUME PruneByStorageBudget
      PROVE  Deletes(e, {i \in DOMAIN list : CumulativeSize(list, i) > MaxBytes})
  <2>1. requests'[e] = SubSeq(list, ExcessBytes(list) + 1, Len(list))
    BY <1>1, <1>2 DEF PruneByStorageBudget, dropRequests
  <2> HIDE DEF list
  <2>2. /\ {i \in DOMAIN list : CumulativeSize(list, i) > MaxBytes} = 1 .. ExcessBytes(list)
        /\ ExcessBytes(list) \in 0 .. Len(list)
    BY <1>1, OverBudgetIsOldest
  <2>3. requests'[e] = Without(list, {list[i] : i \in 1 .. ExcessBytes(list)})
    BY <1>1, <2>1, <2>2, DropDeletes
  <2> QED BY <2>2, <2>3 DEF Deletes, list
<1>3. ASSUME PruneExcessRequests
      PROVE  Deletes(e, {i \in DOMAIN list : RowNumber(list, i) > MaxCount})
  <2>1. requests'[e] = SubSeq(list, ExcessCount(list) + 1, Len(list))
    BY <1>1, <1>3 DEF PruneExcessRequests, dropRequests
  <2> HIDE DEF list
  <2>2. /\ {i \in DOMAIN list : RowNumber(list, i) > MaxCount} = 1 .. ExcessCount(list)
        /\ ExcessCount(list) \in 0 .. Len(list)
    BY <1>1, OverCountIsOldest
  <2>3. requests'[e] = Without(list, {list[i] : i \in 1 .. ExcessCount(list)})
    BY <1>1, <2>1, <2>2, DropDeletes
  <2> QED BY <2>2, <2>3 DEF Deletes, list
<1> QED BY <1>2, <1>3

\* Each pass of the pruner deletes exactly the rows that the PostgreSQL queries
\* delete: those over the budget together with all newer rows of their endpoint,
\* and those whose rank from the newest is too high.
THEOREM DeletesWhatPostgresDoes == Spec => PrunesLikePostgres
<1> DEFINE Prunes(e) ==
             /\ PruneByStorageBudget =>
                  Deletes(e, {i \in DOMAIN requests[e] : CumulativeSize(requests[e], i) > MaxBytes})
             /\ PruneExcessRequests =>
                  Deletes(e, {i \in DOMAIN requests[e] : RowNumber(requests[e], i) > MaxCount})
<1>1. IInv => [\A e \in DOMAIN requests : Prunes(e)]_vars
  BY PruneDeletes
<1> QED BY <1>1, Inductive, PTL DEF PrunesLikePostgres
=============================================================================
