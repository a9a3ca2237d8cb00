--------------------------- MODULE AdminApiProofs ---------------------------
(***************************************************************************)
(* Invariants of AdminApi for every set of connections, logins, texts,     *)
(* apps and davs, and that it implements AtomicConfig.  The predicates     *)
(* that carry the proof are each inductive given the ones before it:       *)
(* Progress (what a request has gathered at each pc), Contents (what a     *)
(* copy of the configuration is good for), Authority (cookies, copies and  *)
(* saves are covered by admins), Rest (the file parses when no save has it *)
(* open), and, while changes come one after another, Sequence (a copy is   *)
(* current) and Kept (acknowledged items are in the file and the copies).  *)
(***************************************************************************)
EXTENDS AdminApi, SequenceTheorems, WellFoundedInduction, TLAPS

----------------------------------------------------------------------------
(* The tables: where Position points, and that Upsert and Delete keep a    *)
(* table's type and its keys unique.                                       *)

\* Every non-empty set of naturals has the minimum that Min chooses.
LEMMA MinOfNaturals ==
    ASSUME NEW S \in SUBSET Nat, S # {}
    PROVE  Min(S) \in S /\ \A y \in S : Min(S) <= y
<1>1. PICK x \in S : \A y \in S : ~(<<y, x>> \in OpToRel(<, Nat))
  BY NatLessThanWellFounded, WFMin
<1>2. \A y \in S : x <= y
  <2> SUFFICES ASSUME NEW y \in S PROVE x <= y
    OBVIOUS
  <2>1. <<y, x>> \in Nat \X Nat
    OBVIOUS
  <2>2. ~(y < x)
    BY <1>1, <2>1 DEF OpToRel
  <2> QED BY <2>2
<1> QED BY <1>2 DEF Min

\* Position is the index of an item with the key, or 0 when there is none.
LEMMA PositionProperties ==
    ASSUME NEW S, NEW table \in Seq(S), NEW k
    PROVE  /\ Position(table, k) \in 0..Len(table)
           /\ HasKey(table, k) => /\ Position(table, k) \in DOMAIN table
                                  /\ table[Position(table, k)].key = k
           /\ ~HasKey(table, k) => \A i \in DOMAIN table : table[i].key # k
<1> DEFINE I == {i \in 1..Len(table) : table[i].key = k}
<1>1. Len(table) \in Nat /\ DOMAIN table = 1..Len(table)
  BY LenProperties
<1>2. Position(table, k) = IF I # {} THEN Min(I) ELSE 0
  BY DEF Position, SelectInSeq
<1>3. CASE I = {}
  BY <1>1, <1>2, <1>3 DEF HasKey
<1>4. CASE I # {}
  <2>1. Min(I) \in I
    <3>1. I \in SUBSET Nat
      BY <1>1
    <3> HIDE DEF I
    <3> QED BY <1>4, <3>1, MinOfNaturals
  <2> QED BY <1>1, <1>2, <1>4, <2>1 DEF HasKey
<1> QED BY <1>3, <1>4

\* Upsert keeps the type of a table and its keys unique.
LEMMA UpsertProperties ==
    ASSUME NEW S, NEW table \in Seq(S), NEW item \in S
    PROVE  /\ Upsert(table, item) \in Seq(S)
           /\ \A i \in DOMAIN Upsert(table, item) :
                 \/ Upsert(table, item)[i] = item
                 \/ \E j \in DOMAIN table : Upsert(table, item)[i] = table[j]
           /\ KeysUnique(table) => KeysUnique(Upsert(table, item))
<1>1. Len(table) \in Nat /\ DOMAIN table = 1..Len(table)
  BY LenProperties
<1>2. CASE HasKey(table, item.key)
  <2> DEFINE p == Position(table, item.key)
             t == [table EXCEPT ![p] = item]
  <2>1. p \in 1..Len(table) /\ table[p].key = item.key
    BY <1>1, <1>2, PositionProperties
  <2>2. Upsert(table, item) = t
    BY <1>2 DEF Upsert, ReplaceAt
  <2>3. /\ t \in Seq(S) /\ Len(t) = Len(table)
        /\ \A j \in 1..Len(table) : t[j] = IF j = p THEN item ELSE table[j]
    BY <2>1, ExceptSeq
  <2>4. DOMAIN t = 1..Len(table)
    BY <2>3, LenProperties
  <2>5. \A j \in 1..Len(table) : t[j].key = table[j].key
    BY <2>1, <2>3
  <2> QED BY <1>1, <2>2, <2>3, <2>4, <2>5 DEF KeysUnique
<1>3. CASE ~HasKey(table, item.key)
  <2> DEFINE t == Append(table, item)
             n == Len(table) + 1
  <2>1. Upsert(table, item) = t
    BY <1>3 DEF Upsert
  <2>2. /\ t \in Seq(S) /\ Len(t) = n
        /\ \A j \in 1..Len(table) : t[j] = table[j]
        /\ t[n] = item
    BY AppendProperties
  <2>3. DOMAIN t = 1..n /\ \A j \in 1..n : j = n \/ j \in 1..Len(table)
    BY <1>1, <2>2, LenProperties
  <2>4. \A j \in 1..Len(table) : t[j].key # t[n].key
    BY <1>1, <1>3, <2>2, PositionProperties
  <2>5. KeysUnique(table) => KeysUnique(t)
    BY <1>1, <2>2, <2>3, <2>4 DEF KeysUnique
  <2> QED BY <1>1, <2>1, <2>2, <2>3, <2>5
<1> QED BY <1>2, <1>3

\* What Upsert stores is found again.
LEMMA UpsertHasKey ==
    ASSUME NEW S, NEW table \in Seq(S), NEW item \in S
    PROVE  HasKey(Upsert(table, item), item.key)
<1> DEFINE t == Upsert(table, item)
<1>1. Len(table) \in Nat /\ DOMAIN table = 1..Len(table)
  BY LenProperties
<1>2. t \in Seq(S)
  BY UpsertProperties
<1>3. \E i \in DOMAIN t : t[i] = item
  <2>1. CASE HasKey(table, item.key)
    <3>1. Position(table, item.key) \in 1..Len(table)
      BY <1>1, <2>1, PositionProperties
    <3> QED BY <1>1, <2>1, <3>1 DEF Upsert, ReplaceAt
  <2>2. CASE ~HasKey(table, item.key)
    BY <1>1, <2>2, AppendProperties, LenProperties DEF Upsert
  <2> QED BY <2>1, <2>2
<1> HIDE DEF t
<1>4. HasKey(t, item.key)
  BY <1>2, <1>3, PositionProperties
<1> QED BY <1>4 DEF t

\* Upsert loses no key.
LEMMA UpsertKeepsKeys ==
    ASSUME NEW S, NEW table \in Seq(S), NEW item \in S, NEW k, HasKey(table, k)
    PROVE  HasKey(Upsert(table, item), k)
<1> DEFINE t == Upsert(table, item)
<1>1. Len(table) \in Nat /\ DOMAIN table = 1..Len(table)
  BY LenProperties
<1>2. t \in Seq(S)
  BY UpsertProperties
<1>3. PICK i \in DOMAIN table : table[i].key = k
  BY PositionProperties
<1>4. \E j \in DOMAIN t : t[j].key = k
  <2>1. CASE HasKey(table, item.key)
    <3>1. Position(table, item.key) \in 1..Len(table)
          /\ table[Position(table, item.key)].key = item.key
      BY <1>1, <2>1, PositionProperties
    <3>2. t = [table EXCEPT ![Position(table, item.key)] = item]
      BY <2>1 DEF Upsert, ReplaceAt
    <3> QED BY <1>1, <1>3, <3>1, <3>2
  <2>2. CASE ~HasKey(table, item.key)
    BY <1>1, <1>3, <2>2, AppendProperties, LenProperties DEF Upsert
  <2> QED BY <2>1, <2>2
<1> HIDE DEF t
<1>5. HasKey(t, k)
  BY <1>2, <1>4, PositionProperties
<1> QED BY <1>5 DEF t

\* Delete of a key that is there keeps the type of a table, its keys unique and the
\* other items.
LEMMA DeleteProperties ==
    ASSUME NEW S, NEW table \in Seq(S), NEW k, HasKey(table, k)
    PROVE  /\ Delete(table, k) \in Seq(S)
           /\ \A i \in DOMAIN Delete(table, k) :
                 \E j \in DOMAIN table : Delete(table, k)[i] = table[j]
           /\ KeysUnique(table) => KeysUnique(Delete(table, k))
           /\ \A j \in DOMAIN table : table[j].key # k =>
                 \E i \in DOMAIN Delete(table, k) : Delete(table, k)[i] = table[j]
<1> DEFINE p == Position(table, k)
           n == Len(table) - 1
           t == RemoveAt(table, p)
<1>1. Len(table) \in Nat /\ DOMAIN table = 1..Len(table)
  BY LenProperties
<1>2. p \in 1..Len(table)
  BY <1>1, PositionProperties
<1>3. /\ t \in Seq(S) /\ Len(t) = n
      /\ \A j \in 1..n : t[j] = IF j < p THEN table[j] ELSE table[j + 1]
  <2> DEFINE a == SubSeq(table, 1, p - 1)
             b == SubSeq(table, p + 1, Len(table))
  <2>1. a \in Seq(S) /\ Len(a) = p - 1 /\ \A j \in 1..(p - 1) : a[j] = table[j]
    BY <1>1, <1>2, SubSeqProperties
  <2>2. /\ b \in Seq(S) /\ Len(b) = Len(table) - p
        /\ \A j \in 1..(Len(table) - p) : b[j] = table[p + j]
    BY <1>1, <1>2, SubSeqProperties
  <2>3. t = a \o b
    BY DEF RemoveAt
  <2>4. p \in Nat /\ Len(table) \in Nat
    BY <1>1, <1>2
  <2> HIDE DEF a, b, t, p
  <2>5. /\ t \in Seq(S) /\ Len(t) = Len(a) + Len(b)
        /\ \A i \in 1..(Len(a) + Len(b)) : t[i] = IF i <= Len(a) THEN a[i] ELSE b[i - Len(a)]
    BY <2>1, <2>2, <2>3, ConcatProperties
  <2>6. \A j \in 1..n : t[j] = IF j < p THEN table[j] ELSE table[j + 1]
    <3> SUFFICES ASSUME NEW j \in 1..n PROVE t[j] = IF j < p THEN table[j] ELSE table[j + 1]
      OBVIOUS
    <3>1. t[j] = IF j <= p - 1 THEN a[j] ELSE b[j - (p - 1)]
      BY <1>2, <2>1, <2>2, <2>4, <2>5
    <3>2. CASE j < p
      BY <2>1, <2>4, <3>1, <3>2
    <3>3. CASE ~(j < p)
      <4>1. j - (p - 1) \in 1..(Len(table) - p) /\ p + (j - (p - 1)) = j + 1
        BY <1>2, <2>4, <3>3
      <4>2. t[j] = b[j - (p - 1)]
        <5>1. ~(j <= p - 1)
          BY <2>4, <3>3
        <5> QED BY <3>1, <5>1
      <4>3. b[j - (p - 1)] = table[j + 1]
        BY <2>2, <4>1
      <4> QED BY <3>3, <4>2, <4>3
    <3> QED BY <3>2, <3>3
  <2> QED BY <1>2, <2>1, <2>2, <2>4, <2>5, <2>6
<1>4. DOMAIN t = 1..n
  BY <1>3, LenProperties
<1> DEFINE old(j) == IF j < p THEN j ELSE j + 1
<1>5. \A j \in 1..n : old(j) \in DOMAIN table /\ t[j] = table[old(j)]
  BY <1>1, <1>2, <1>3
<1>6. \A i, j \in 1..n : old(i) = old(j) => i = j
  BY <1>1, <1>2
<1>7. KeysUnique(table) => KeysUnique(t)
  <2> SUFFICES ASSUME KeysUnique(table), NEW i \in 1..n, NEW j \in 1..n, t[i].key = t[j].key
               PROVE  i = j
    BY <1>4 DEF KeysUnique
  <2>1. table[old(i)].key = table[old(j)].key
    BY <1>5
  <2>2. old(i) = old(j)
    BY <1>5, <2>1 DEF KeysUnique
  <2> QED BY <1>6, <2>2
<1>8. \A j \in DOMAIN table : table[j].key # k => \E i \in DOMAIN t : t[i] = table[j]
  <2> SUFFICES ASSUME NEW j \in 1..Len(table), j # p PROVE \E i \in 1..n : t[i] = table[j]
    BY <1>1, <1>4, PositionProperties
  <2>1. CASE j < p
    BY <1>1, <1>2, <1>3, <2>1
  <2>2. CASE p < j
    <3>1. j - 1 \in 1..n /\ ~(j - 1 < p) /\ (j - 1) + 1 = j
      BY <1>1, <1>2, <2>2
    <3> QED BY <1>3, <3>1
  <2> QED BY <1>1, <1>2, <2>1, <2>2
<1> QED BY <1>3, <1>4, <1>5, <1>7, <1>8 DEF Delete

\* Delete loses no other key.
LEMMA DeleteKeepsKeys ==
    ASSUME NEW S, NEW table \in Seq(S), NEW k, HasKey(table, k), NEW other,
           HasKey(table, other), other # k
    PROVE  HasKey(Delete(table, k), other)
<1> DEFINE t == Delete(table, k)
<1>1. PICK j \in DOMAIN table : table[j].key = other
  BY PositionProperties
<1>2. t \in Seq(S) /\ \E i \in DOMAIN t : t[i].key = other
  BY <1>1, DeleteProperties
<1> HIDE DEF t
<1>3. HasKey(t, other)
  BY <1>2, PositionProperties
<1> QED BY <1>3 DEF t

-----------------------------------------------------------------------------
(* The same for a whole configuration.                                     *)

LEMMA ItemTypes == /\ Item("users") = StoredUser
                   /\ Item("apps") = Apps
                   /\ Item("davs") = Davs
BY DEF Item

\* A table of a configuration is a sequence of its own items.
LEMMA ConfigTable ==
    ASSUME NEW f \in Config, NEW t \in Tables
    PROVE  f[t] \in Seq(Item(t))
BY DEF Config

\* A configuration whose table t is replaced by a table of the same type.
LEMMA ConfigExcept ==
    ASSUME NEW f \in Config, NEW t \in Tables, NEW table \in Seq(Item(t))
    PROVE  /\ [f EXCEPT ![t] = table] \in Config
           /\ \A u \in Tables : [f EXCEPT ![t] = table][u] = IF u = t THEN table ELSE f[u]
<1> DEFINE All == StoredUser \cup Apps \cup Davs
           g == [f EXCEPT ![t] = table]
<1>1. f \in [Tables -> Seq(All)] /\ \A u \in Tables : f[u] \in Seq(Item(u))
  BY DEF Config
<1>2. Item(t) \subseteq All
  BY ItemTypes DEF Tables
<1>3. table \in Seq(All)
  <2> HIDE DEF All
  <2> QED BY <1>2, SeqMonotonic
<1> HIDE DEF All
<1>4. g \in [Tables -> Seq(All)] /\ \A u \in Tables : g[u] = IF u = t THEN table ELSE f[u]
  BY <1>1, <1>3
<1> QED BY <1>1, <1>4 DEF Config, All

\* A good table put into a configuration leaves it as good as it was.
LEMMA GoodExcept ==
    ASSUME NEW f \in Config, NEW t \in Tables, NEW table \in Seq(Item(t)),
           t = "users" => \A i \in DOMAIN table : table[i].pw # Empty
    PROVE  /\ UsersHaveHash(f) => UsersHaveHash([f EXCEPT ![t] = table])
           /\ WellFormed(f) /\ KeysUnique(table) => WellFormed([f EXCEPT ![t] = table])
<1> DEFINE g == [f EXCEPT ![t] = table]
<1>1. \A u \in Tables : g[u] = IF u = t THEN table ELSE f[u]
  BY DEF Config
<1> HIDE DEF g
<1>2. UsersHaveHash(f) => UsersHaveHash(g)
  <2>1. g["users"] = IF t = "users" THEN table ELSE f["users"]
    BY <1>1 DEF Tables
  <2> QED BY <2>1 DEF UsersHaveHash
<1>3. WellFormed(f) /\ KeysUnique(table) => WellFormed(g)
  BY <1>1, <1>2 DEF WellFormed
<1> QED BY <1>2, <1>3 DEF g

\* delete_user, delete_app and delete_dav.
LEMMA DeleteKeepsConfig ==
    ASSUME NEW f \in Config, NEW t \in Tables, NEW k, HasKey(f[t], k), UsersHaveHash(f)
    PROVE  /\ [f EXCEPT ![t] = Delete(@, k)] \in Config
           /\ UsersHaveHash([f EXCEPT ![t] = Delete(@, k)])
           /\ WellFormed(f) => WellFormed([f EXCEPT ![t] = Delete(@, k)])
<1> DEFINE table == Delete(f[t], k)
<1>1. f[t] \in Seq(Item(t))
  BY ConfigTable
<1>2. /\ table \in Seq(Item(t))
      /\ \A i \in DOMAIN table : \E j \in DOMAIN f[t] : table[i] = f[t][j]
      /\ KeysUnique(f[t]) => KeysUnique(table)
  BY <1>1, DeleteProperties
<1>3. [f EXCEPT ![t] = Delete(@, k)] = [f EXCEPT ![t] = table]
  OBVIOUS
<1> HIDE DEF table
<1>4. t = "users" => \A i \in DOMAIN table : table[i].pw # Empty
  BY <1>2 DEF UsersHaveHash
<1>5. WellFormed(f) => KeysUnique(table)
  BY <1>2 DEF WellFormed
<1> QED BY <1>2, <1>3, <1>4, <1>5, ConfigExcept, GoodExcept

\* add_user, add_app and add_dav, once the item to store is known.
LEMMA UpsertKeepsConfig ==
    ASSUME NEW f \in Config, NEW t \in Tables, NEW item \in Item(t), UsersHaveHash(f),
           t = "users" => item.pw # Empty
    PROVE  /\ [f EXCEPT ![t] = Upsert(@, item)] \in Config
           /\ UsersHaveHash([f EXCEPT ![t] = Upsert(@, item)])
           /\ WellFormed(f) => WellFormed([f EXCEPT ![t] = Upsert(@, item)])
<1> DEFINE table == Upsert(f[t], item)
<1>1. f[t] \in Seq(Item(t))
  BY ConfigTable
<1>2. /\ table \in Seq(Item(t))
      /\ \A i \in DOMAIN table :
            table[i] = item \/ \E j \in DOMAIN f[t] : table[i] = f[t][j]
      /\ KeysUnique(f[t]) => KeysUnique(table)
  BY <1>1, UpsertProperties
<1>3. [f EXCEPT ![t] = Upsert(@, item)] = [f EXCEPT ![t] = table]
  OBVIOUS
<1> HIDE DEF table
<1>4. t = "users" => \A i \in DOMAIN table : table[i].pw # Empty
  BY <1>2 DEF UsersHaveHash
<1>5. WellFormed(f) => KeysUnique(table)
  BY <1>2 DEF WellFormed
<1> QED BY <1>2, <1>3, <1>4, <1>5, ConfigExcept, GoodExcept

\* Lookup of a key that is there is an item of the table with that key.
LEMMA LookupProperties ==
    ASSUME NEW S, NEW table \in Seq(S), NEW k, HasKey(table, k)
    PROVE  /\ Lookup(table, k) \in S
           /\ Lookup(table, k).key = k
           /\ \E i \in DOMAIN table : Lookup(table, k) = table[i]
<1>1. Position(table, k) \in DOMAIN table /\ table[Position(table, k)].key = k
  BY PositionProperties
<1> QED BY <1>1, LenProperties, ElementOfSeq DEF Lookup

\* The user add_user stores is a stored user; it has a hash if those it may take
\* one from have theirs.
LEMMA UserToStoreProperties ==
    ASSUME NEW f \in Config, NEW u \in Users, u.pw = Empty => HasKey(f["users"], u.key)
    PROVE  /\ UserToStore(f["users"], u) \in StoredUser
           /\ UserToStore(f["users"], u).key = u.key
           /\ UsersHaveHash(f) => UserToStore(f["users"], u).pw # Empty
<1> DEFINE stored == UserToStore(f["users"], u)
<1>1. f["users"] \in Seq(StoredUser)
  BY ConfigTable, ItemTypes DEF Tables
<1>2. u \in [key : Logins, pw : Texts, admin : BOOLEAN]
  BY ItemsAssumption
<1>3. CASE u.pw # Empty
  <2>1. stored = [u EXCEPT !.pw = [hash |-> Trim[u.pw]]]
    BY <1>3 DEF UserToStore, HashPassword
  <2>2. [hash |-> Trim[u.pw]] \in [hash : Texts]
    BY <1>2, TextsAssumption
  <2> QED BY <1>2, <2>1, <2>2, EmptyAssumption DEF StoredUser
<1>4. CASE u.pw = Empty
  <2> DEFINE old == Lookup(f["users"], u.key)
  <2>1. stored = [u EXCEPT !.pw = old.pw]
    BY <1>4 DEF UserToStore
  <2>2. old \in StoredUser /\ \E i \in DOMAIN f["users"] : old = f["users"][i]
    BY <1>1, <1>4, LookupProperties
  <2>3. old.pw \in {Empty} \cup [hash : Texts]
    BY <2>2 DEF StoredUser
  <2>4. UsersHaveHash(f) => old.pw # Empty
    BY <2>2 DEF UsersHaveHash
  <2> HIDE DEF old
  <2>5. stored \in StoredUser /\ stored.pw = old.pw /\ stored.key = u.key
    BY <1>2, <2>1, <2>3 DEF StoredUser
  <2> QED BY <2>4, <2>5
<1> QED BY <1>3, <1>4

-----------------------------------------------------------------------------
(* What two saves may mix is still made of stored items.                   *)

Hashed == {f \in Config : UsersHaveHash(f)}

\* The first k items of s, and those of r from the l-th one on.
Joint(s, k, r, l) == SubSeq(s, 1, k) \o SubSeq(r, l, Len(r))

LEMMA JoinedTable ==
    ASSUME NEW S, NEW s \in Seq(S), NEW r \in Seq(S),
           NEW k \in Nat, k <= Len(s), NEW l \in 1 .. Len(r) + 1
    PROVE  /\ Joint(s, k, r, l) \in Seq(S)
           /\ k <= Len(Joint(s, k, r, l))
           /\ \A i \in DOMAIN Joint(s, k, r, l) :
                 \/ \E j \in DOMAIN s : Joint(s, k, r, l)[i] = s[j]
                 \/ \E j \in DOMAIN r : Joint(s, k, r, l)[i] = r[j]
<1> DEFINE a == SubSeq(s, 1, k)
           b == SubSeq(r, l, Len(r))
           t == a \o b
<1>1. /\ Len(s) \in Nat /\ DOMAIN s = 1..Len(s)
      /\ Len(r) \in Nat /\ DOMAIN r = 1..Len(r)
  BY LenProperties
<1>2. a \in Seq(S) /\ Len(a) = k /\ \A i \in 1..k : a[i] = s[i]
  BY <1>1, SubSeqProperties
<1>3. /\ b \in Seq(S) /\ Len(b) = Len(r) - l + 1
      /\ \A i \in 1..(Len(r) - l + 1) : b[i] = r[l + i - 1]
  BY <1>1, SubSeqProperties
<1> HIDE DEF a, b
<1>4. /\ t \in Seq(S) /\ Len(t) = Len(a) + Len(b)
      /\ \A i \in 1..(Len(a) + Len(b)) : t[i] = IF i <= Len(a) THEN a[i] ELSE b[i - Len(a)]
  <2>1. a \in Seq(S) /\ b \in Seq(S)
    BY <1>2, <1>3
  <2> QED BY <2>1, ConcatProperties
<1>5. DOMAIN t = 1..(Len(a) + Len(b))
  BY <1>4, LenProperties
<1> HIDE DEF t
<1>6. ASSUME NEW i \in 1..(Len(a) + Len(b))
      PROVE  (\E j \in DOMAIN s : t[i] = s[j]) \/ (\E j \in DOMAIN r : t[i] = r[j])
  <2>1. CASE i <= Len(a)
    <3>1. i \in 1..k /\ i \in 1..Len(s)
      BY <1>1, <1>2, <2>1
    <3>2. t[i] = s[i]
      BY <1>2, <1>4, <2>1, <3>1
    <3> QED BY <1>1, <3>1, <3>2
  <2>2. CASE ~(i <= Len(a))
    <3>1. i - k \in 1..(Len(r) - l + 1) /\ l + (i - k) - 1 \in 1..Len(r)
      BY <1>1, <1>2, <1>3, <2>2
    <3> QED BY <1>1, <1>2, <1>3, <1>4, <2>2, <3>1
  <2> QED BY <2>1, <2>2
<1>7. k <= Len(t)
  BY <1>1, <1>2, <1>3, <1>4
<1>8. Joint(s, k, r, l) = t
  BY DEF Joint, a, b, t
<1> QED BY <1>4, <1>5, <1>6, <1>7, <1>8

LEMMA SplicedIsHashed ==
    ASSUME NEW a \in Hashed, NEW b \in Hashed, NEW u \in Tables,
           NEW m \in Nat, m <= Len(a[u]), NEW n \in 1 .. Len(b[u]) + 1
    PROVE  /\ Spliced(a, b, u, m, n) \in Hashed
           /\ u = "users" => m <= Len(Spliced(a, b, u, m, n)["users"])
<1> DEFINE All == StoredUser \cup Apps \cup Davs
           joined == Joint(a[u], m, b[u], n)
           f == Spliced(a, b, u, m, n)
<1>1. /\ a \in Config /\ b \in Config /\ UsersHaveHash(a) /\ UsersHaveHash(b)
  BY DEF Hashed
<1>2. \A t \in Tables : a[t] \in Seq(Item(t)) /\ b[t] \in Seq(Item(t))
  BY <1>1, ConfigTable
<1>3. /\ joined \in Seq(Item(u))
      /\ m <= Len(joined)
      /\ \A i \in DOMAIN joined : \/ \E j \in DOMAIN a[u] : joined[i] = a[u][j]
                                  \/ \E j \in DOMAIN b[u] : joined[i] = b[u][j]
  <2>1. a[u] \in Seq(Item(u)) /\ b[u] \in Seq(Item(u))
    BY <1>2
  <2> DEFINE A == a[u]
             B == b[u]
             I == Item(u)
  <2>2. A \in Seq(I) /\ B \in Seq(I) /\ m \in Nat /\ m <= Len(A) /\ n \in 1 .. Len(B) + 1
    BY <2>1
  <2>3. joined = Joint(A, m, B, n)
    OBVIOUS
  <2> HIDE DEF A, B, I, joined
  <2>4. /\ joined \in Seq(I) /\ m <= Len(joined)
        /\ \A i \in DOMAIN joined : \/ \E j \in DOMAIN A : joined[i] = A[j]
                                    \/ \E j \in DOMAIN B : joined[i] = B[j]
    BY <2>2, <2>3, JoinedTable
  <2> QED BY <2>4 DEF A, B, I
<1> HIDE DEF joined
<1>4. f = [t \in Tables |-> IF t = u THEN joined ELSE IF Above(t, u) THEN a[t] ELSE b[t]]
  BY DEF Spliced, joined, Joint
<1> HIDE DEF f
<1>5. \A t \in Tables : (f[t] = joined /\ t = u) \/ f[t] = a[t] \/ f[t] = b[t]
  BY <1>4
<1>6. \A t \in Tables : f[t] \in Seq(Item(t))
  BY <1>2, <1>3, <1>5
<1>7. f \in Config
  <2>1. \A t \in Tables : Item(t) \subseteq All
    BY ItemTypes DEF Tables
  <2> HIDE DEF All
  <2>2. \A t \in Tables : f[t] \in Seq(All)
    BY <1>6, <2>1, SeqMonotonic
  <2>3. f \in [Tables -> Seq(All)]
    BY <1>4, <2>2
  <2> QED BY <1>6, <2>3 DEF Config, All
<1>8. UsersHaveHash(f)
  <2>1. "users" \in Tables
    BY DEF Tables
  <2>2. CASE f["users"] = a["users"] \/ f["users"] = b["users"]
    BY <1>1, <2>2 DEF UsersHaveHash
  <2>3. CASE f["users"] = joined /\ u = "users"
    BY <1>1, <1>3, <2>3 DEF UsersHaveHash
  <2> QED BY <1>5, <2>1, <2>2, <2>3
<1>9. u = "users" => f["users"] = joined
  BY <1>4 DEF Tables
<1> QED BY <1>3, <1>7, <1>8, <1>9 DEF Hashed, f

\* A role more or less for a user that is there.
LEMMA RoleKeepsHashed ==
    ASSUME NEW f \in Hashed, NEW i \in 1 .. Len(f["users"])
    PROVE  /\ Cut(f, i) \in Hashed /\ (WellFormed(f) => WellFormed(Cut(f, i)))
           /\ Grown(f, i) \in Hashed
<1>1. f \in Config /\ UsersHaveHash(f) /\ f["users"] \in Seq(StoredUser)
  BY ConfigTable, ItemTypes DEF Hashed, Tables
<1>2. f["users"][i] \in StoredUser /\ f["users"][i].pw # Empty /\ DOMAIN f["users"] = 1..Len(f["users"])
  BY <1>1, LenProperties, ElementOfSeq DEF UsersHaveHash
<1>3. ASSUME NEW admin \in BOOLEAN
      PROVE  LET g == [f EXCEPT !["users"][i].admin = admin]
             IN  g \in Hashed /\ (WellFormed(f) => WellFormed(g))
  <2> DEFINE user == [f["users"][i] EXCEPT !.admin = admin]
             table == [f["users"] EXCEPT ![i] = user]
             g == [f EXCEPT !["users"][i].admin = admin]
  <2>1. user \in StoredUser /\ user.pw # Empty /\ user.key = f["users"][i].key
    BY <1>2 DEF StoredUser
  <2> HIDE DEF user
  <2>2. /\ table \in Seq(StoredUser) /\ Len(table) = Len(f["users"])
        /\ \A j \in 1..Len(f["users"]) : table[j] = IF j = i THEN user ELSE f["users"][j]
    BY <1>1, <2>1, ExceptSeq
  <2>3. DOMAIN table = 1..Len(f["users"])
    BY <2>2, LenProperties
  <2>4. g = [f EXCEPT !["users"] = table]
    BY DEF user
  <2> HIDE DEF table, g
  <2>5. \A j \in DOMAIN table : table[j].pw # Empty /\ table[j].key = f["users"][j].key
    BY <1>1, <1>2, <2>1, <2>2, <2>3 DEF UsersHaveHash
  <2>6. WellFormed(f) => KeysUnique(table)
    BY <1>2, <2>3, <2>5 DEF WellFormed, KeysUnique, Tables
  <2>7. "users" \in Tables /\ table \in Seq(Item("users"))
    BY <2>2, ItemTypes DEF Tables
  <2> QED BY <1>1, <2>4, <2>5, <2>6, <2>7, ConfigExcept, GoodExcept DEF Hashed, g
<1> QED BY <1>3 DEF Cut, Grown

LEMMA JoinedIsHashed ==
    ASSUME NEW a \in Hashed, NEW b \in Hashed, NEW u \in Tables, NEW m \in Nat,
           NEW f \in Joined(a, b, u, m)
    PROVE  f \in Hashed /\ (u = "users" => m <= Len(f["users"]))
BY SplicedIsHashed DEF Joined

\* What parses of a save over another one, whole or in part.
LEMMA OverlaysAreHashed ==
    ASSUME NEW a \in Hashed, NEW b \in Hashed
    PROVE  Overlays(a, b) \subseteq Hashed /\ PartOverlays(a, b) \subseteq Hashed
<1>1. ASSUME NEW m \in Nat, m # 0, NEW f \in Joined(a, b, "users", m)
      PROVE  Cut(f, m) \in Hashed /\ Grown(f, m) \in Hashed
  <2>1. f \in Hashed /\ m <= Len(f["users"])
    BY JoinedIsHashed DEF Tables
  <2>2. f["users"] \in Seq(StoredUser)
    BY <2>1, ConfigTable, ItemTypes DEF Hashed, Tables
  <2>3. m \in 1 .. Len(f["users"])
    BY <1>1, <2>1, <2>2, LenProperties
  <2> QED BY <2>1, <2>3, RoleKeepsHashed
<1>2. Overlays(a, b) \subseteq Hashed
  <2> DEFINE last == Len(a["users"])
  <2>1. last \in Nat
    BY ConfigTable, LenProperties DEF Hashed, Tables
  <2> HIDE DEF last
  <2>2. Joined(a, b, "users", last) \subseteq Hashed
    BY <2>1, JoinedIsHashed DEF Tables
  <2> QED BY <1>1, <2>1, <2>2 DEF Overlays, last
<1>3. PartOverlays(a, b) \subseteq Hashed
  <2>1. \A m \in 0 .. MaxUsers : m \in Nat /\ (m \in 1 .. MaxUsers => m # 0)
    BY BoundAssumption
  <2>2. \A m \in 1 .. MaxUsers : m \in 0 .. MaxUsers
    BY BoundAssumption
  <2>3. ASSUME NEW u \in Tables, NEW m \in 0 .. MaxUsers
        PROVE  Joined(a, b, u, m) \subseteq Hashed
    BY <2>1, JoinedIsHashed
  <2>4. ASSUME NEW m \in 1 .. MaxUsers, NEW f \in Joined(a, b, "users", m)
        PROVE  Cut(f, m) \in Hashed /\ Grown(f, m) \in Hashed
    BY <1>1, <2>1, <2>2
  <2> DEFINE whole == UNION {Joined(a, b, u, m) : u \in Tables, m \in 0 .. MaxUsers}
             cut == UNION {{Cut(f, m) : f \in Joined(a, b, "users", m)} : m \in 1 .. MaxUsers}
             grown == UNION {{Grown(f, m) : f \in Joined(a, b, "users", m)} : m \in 1 .. MaxUsers}
  <2>5. whole \subseteq Hashed
    BY <2>3
  <2>6. cut \subseteq Hashed
    BY <2>4
  <2>7. grown \subseteq Hashed
    BY <2>4
  <2>8. PartOverlays(a, b) = whole \cup cut \cup grown
    BY DEF PartOverlays
  <2> HIDE DEF whole, cut, grown
  <2> QED BY <2>5, <2>6, <2>7, <2>8
<1> QED BY <1>2, <1>3

\* What parses of a part of a save.
LEMMA PartsAreGood ==
    ASSUME NEW a \in Hashed, NEW f \in Parts(a)
    PROVE  f \in Hashed /\ (WellFormed(a) => WellFormed(f))
<1>1. a \in Config /\ UsersHaveHash(a) /\ a["users"] \in Seq(StoredUser)
  BY ConfigTable, ItemTypes DEF Hashed, Tables
<1>2. ASSUME NEW m \in 1 .. MaxUsers, m <= Len(a["users"])
      PROVE  /\ Upto(a, m) \in Hashed /\ (WellFormed(a) => WellFormed(Upto(a, m)))
             /\ m \in 1 .. Len(Upto(a, m)["users"])
  <2> DEFINE table == SubSeq(a["users"], 1, m)
  <2>1. m \in Nat /\ Len(a["users"]) \in Nat /\ DOMAIN a["users"] = 1..Len(a["users"])
    BY <1>1, LenProperties, BoundAssumption
  <2>2. /\ table \in Seq(StoredUser) /\ Len(table) = m
        /\ \A i \in 1..m : table[i] = a["users"][i]
    BY <1>1, <1>2, <2>1, SubSeqProperties
  <2>3. DOMAIN table = 1..m
    BY <2>2, LenProperties
  <2> HIDE DEF table
  <2>4. \A i \in DOMAIN table : table[i].pw # Empty
    BY <1>1, <1>2, <2>1, <2>2, <2>3 DEF UsersHaveHash
  <2>5. WellFormed(a) => KeysUnique(table)
    BY <1>2, <2>1, <2>2, <2>3 DEF WellFormed, KeysUnique, Tables
  <2>6. Upto(a, m) = [a EXCEPT !["users"] = table]
    BY DEF Upto, table
  <2>7. "users" \in Tables /\ table \in Seq(Item("users"))
    BY <2>2, ItemTypes DEF Tables
  <2>8. Upto(a, m) \in Config /\ Upto(a, m)["users"] = table
    <3>1. [a EXCEPT !["users"] = table] \in Config
          /\ \A u \in Tables : [a EXCEPT !["users"] = table][u] = IF u = "users" THEN table ELSE a[u]
      BY <1>1, <2>7, ConfigExcept
    <3> QED BY <2>6, <2>7, <3>1
  <2>9. UsersHaveHash(Upto(a, m)) /\ (WellFormed(a) => WellFormed(Upto(a, m)))
    BY <1>1, <2>4, <2>5, <2>6, <2>7, GoodExcept
  <2> QED BY <2>1, <2>2, <2>8, <2>9 DEF Hashed
<1> QED BY <1>2, RoleKeepsHashed DEF Parts

-----------------------------------------------------------------------------
(* The inductive predicates, each on top of the ones before it.            *)

Progress ==
    \A c \in Connections :
        /\ pc[c] # "idle" => snap[c] \in Config
        /\ pc[c] = "ready" => op[c] = "add"
        /\ pc[c] \in {"saving", "writing"} => target[c] \in Target
        /\ gone[c] => pc[c] \in {"saving", "writing"}

Contents ==
    /\ file \in Config => UsersHaveHash(file)
    /\ \A f \in written : UsersHaveHash(f)
    /\ \A c \in Connections : pc[c] # "idle" => UsersHaveHash(snap[c])
    /\ "mixes" \notin upset =>
          /\ file \in Config => WellFormed(file)
          /\ \A c \in Connections : pc[c] # "idle" => WellFormed(snap[c])

Authority ==
    /\ AdminsIn(file) \subseteq admins
    /\ \A c \in Connections :
        /\ jar[c] # None => /\ jar[c].key <= builds
                            /\ IsAdmin(jar[c]) => jar[c].login \in admins
        /\ pc[c] # "idle" /\ ~gone[c] => IsAdmin(jar[c])

-----------------------------------------------------------------------------
(* What the definitions of requests and configurations amount to.          *)

\* The table and the key of a payload or of a stored item.
LEMMA TargetProperties ==
    ASSUME NEW t \in Tables
    PROVE  /\ \A k \in Keys(t) : <<t, k>> \in Target
           /\ \A payload \in Payloads(t) : <<t, payload.key>> \in Target
<1>1. \A k \in Keys(t) : <<t, k>> \in Target
  BY DEF Target
<1>2. \A payload \in Payloads(t) : payload.key \in Keys(t)
  <2>1. t = "users" => Payloads(t) = Users
    BY DEF Payloads
  <2> QED BY <2>1, ItemsAssumption DEF Keys
<1> QED BY <1>1, <1>2

LEMMA PayloadTypes == /\ Payloads("users") = Users
                      /\ \A t \in Tables : t # "users" => Payloads(t) = Item(t)
BY ItemTypes DEF Payloads, Tables

LEMMA AdminsAreLogins ==
    ASSUME NEW f \in Config
    PROVE  AdminsOf(f) \subseteq Logins
<1>1. f["users"] \in Seq(StoredUser)
  BY ConfigTable, ItemTypes DEF Tables
<1>2. \A i \in DOMAIN f["users"] : f["users"][i] \in StoredUser
  BY <1>1, LenProperties, ElementOfSeq
<1> QED BY <1>2 DEF AdminsOf, StoredUser

LEMMA AdminsInAreLogins ==
    ASSUME NEW f
    PROVE  AdminsIn(f) \subseteq Logins
BY AdminsAreLogins DEF AdminsIn

\* local_auth signs a cookie of a stored user, for an admin only if it is one of the admins.
LEMMA LoginUserProperties ==
    ASSUME NEW f \in Config, NEW k, HasKey(f["users"], k)
    PROVE  /\ Lookup(f["users"], k) \in StoredUser
           /\ Lookup(f["users"], k).admin => Lookup(f["users"], k).key \in AdminsOf(f)
<1>1. f["users"] \in Seq(StoredUser)
  BY ConfigTable, ItemTypes DEF Tables
<1>2. /\ Lookup(f["users"], k) \in StoredUser
      /\ \E i \in DOMAIN f["users"] : Lookup(f["users"], k) = f["users"][i]
  BY <1>1, LookupProperties
<1> QED BY <1>2 DEF AdminsOf

\* What one request may make of the configuration f, and what it changes.
Stored(f, t, item) == [f EXCEPT ![t] = Upsert(@, item)]

Removed(f, t, k) == [f EXCEPT ![t] = Delete(@, k)]

\* The item add_* stores of a payload it does not refuse.
StoredItem(f, t, payload) == IF t = "users" THEN UserToStore(f["users"], payload) ELSE payload

Storable(f, t, payload) ==
    t = "users" => (payload.pw = Empty => HasKey(f["users"], payload.key))

LEMMA StoredItemProperties ==
    ASSUME NEW f \in Config, NEW t \in Tables, NEW payload \in Payloads(t),
           Storable(f, t, payload), UsersHaveHash(f)
    PROVE  /\ StoredItem(f, t, payload) \in Item(t)
           /\ StoredItem(f, t, payload).key = payload.key
           /\ t = "users" => StoredItem(f, t, payload).pw # Empty
<1>1. CASE t = "users"
  <2>1. payload \in Users /\ (payload.pw = Empty => HasKey(f["users"], payload.key))
    BY <1>1, PayloadTypes DEF Storable
  <2>2. StoredItem(f, t, payload) = UserToStore(f["users"], payload)
    BY <1>1 DEF StoredItem
  <2> QED BY <1>1, <2>1, <2>2, UserToStoreProperties, ItemTypes
<1>2. CASE t # "users"
  BY <1>2, PayloadTypes DEF StoredItem
<1> QED BY <1>1, <1>2

\* AddItem: the copy gets the item of some payload.
LEMMA AddItemIs ==
    ASSUME TypeOK, Progress, NEW c \in Connections, AddItem(c)
    PROVE  \E t \in Tables : \E payload \in Payloads(t) :
              /\ Storable(snap[c], t, payload)
              /\ snap' = [snap EXCEPT ![c] =
                            Stored(snap[c], t, StoredItem(snap[c], t, payload))]
              /\ target' = [target EXCEPT ![c] = <<t, payload.key>>]
<1>0. PICK t \in Tables : \E payload \in Payloads(t) :
         /\ t = "users" => ~PasswordMissing(c, payload)
         /\ snap' = [snap EXCEPT ![c][t] = Upsert(@, ItemToStore(c, t, payload))]
         /\ target' = [target EXCEPT ![c] = <<t, payload.key>>]
  BY DEF AddItem
<1>1. PICK payload \in Payloads(t) :
         /\ t = "users" => ~PasswordMissing(c, payload)
         /\ snap' = [snap EXCEPT ![c][t] = Upsert(@, ItemToStore(c, t, payload))]
         /\ target' = [target EXCEPT ![c] = <<t, payload.key>>]
  BY <1>0
<1>2. ItemToStore(c, t, payload) = StoredItem(snap[c], t, payload)
  BY DEF ItemToStore, StoredItem
<1>3. Storable(snap[c], t, payload)
  BY <1>1 DEF PasswordMissing, Storable
<1>4. snap' = [snap EXCEPT ![c] = Stored(snap[c], t, StoredItem(snap[c], t, payload))]
  BY <1>1, <1>2 DEF Stored
<1> QED BY <1>1, <1>3, <1>4

LEMMA AddItemProperties ==
    ASSUME TypeOK, Progress, Contents, NEW c \in Connections, AddItem(c)
    PROVE  /\ snap' \in [Connections -> Config \cup {None}]
           /\ target' \in [Connections -> Target \cup {None}]
           /\ snap'[c] \in Config /\ target'[c] \in Target
           /\ \A d \in Connections \ {c} : snap'[d] = snap[d] /\ target'[d] = target[d]
           /\ UsersHaveHash(snap'[c])
           /\ WellFormed(snap[c]) => WellFormed(snap'[c])
<1>0. PICK t \in Tables : \E payload \in Payloads(t) :
         /\ Storable(snap[c], t, payload)
         /\ snap' = [snap EXCEPT ![c] = Stored(snap[c], t, StoredItem(snap[c], t, payload))]
         /\ target' = [target EXCEPT ![c] = <<t, payload.key>>]
  BY AddItemIs
<1>1. PICK payload \in Payloads(t) :
         /\ Storable(snap[c], t, payload)
         /\ snap' = [snap EXCEPT ![c] = Stored(snap[c], t, StoredItem(snap[c], t, payload))]
         /\ target' = [target EXCEPT ![c] = <<t, payload.key>>]
  BY <1>0
<1> DEFINE item == StoredItem(snap[c], t, payload)
           new == Stored(snap[c], t, item)
<1>2. snap[c] \in Config /\ UsersHaveHash(snap[c])
  BY DEF AddItem, Progress, Contents
<1>3. item \in Item(t) /\ (t = "users" => item.pw # Empty)
  BY <1>1, <1>2, StoredItemProperties
<1> HIDE DEF item
<1>4. new \in Config /\ UsersHaveHash(new) /\ (WellFormed(snap[c]) => WellFormed(new))
  BY <1>2, <1>3, UpsertKeepsConfig DEF Stored
<1>5. snap' = [snap EXCEPT ![c] = new]
  BY <1>1 DEF item
<1> HIDE DEF new
<1>6. <<t, payload.key>> \in Target
  BY TargetProperties
<1> QED BY <1>1, <1>4, <1>5, <1>6 DEF TypeOK

\* DeleteItem: the copy is the file without the item.
LEMMA DeleteItemProperties ==
    ASSUME TypeOK, Contents, NEW c \in Connections, DeleteItem(c)
    PROVE  /\ snap' \in [Connections -> Config \cup {None}]
           /\ target' \in [Connections -> Target \cup {None}]
           /\ snap'[c] \in Config /\ target'[c] \in Target
           /\ \A d \in Connections \ {c} : snap'[d] = snap[d] /\ target'[d] = target[d]
           /\ UsersHaveHash(snap'[c])
           /\ WellFormed(file) => WellFormed(snap'[c])
<1>0. PICK t \in Tables : \E k \in Keys(t) :
         /\ HasKey(file[t], k)
         /\ snap' = [snap EXCEPT ![c] = Removed(file, t, k)]
         /\ target' = [target EXCEPT ![c] = <<t, k>>]
  BY DEF DeleteItem, Removed
<1>1. PICK k \in Keys(t) :
         /\ HasKey(file[t], k)
         /\ snap' = [snap EXCEPT ![c] = Removed(file, t, k)]
         /\ target' = [target EXCEPT ![c] = <<t, k>>]
  BY <1>0
<1>2. file \in Config /\ UsersHaveHash(file)
  BY DEF DeleteItem, Extracts, Contents
<1> DEFINE new == Removed(file, t, k)
<1>3. new \in Config /\ UsersHaveHash(new) /\ (WellFormed(file) => WellFormed(new))
  BY <1>1, <1>2, DeleteKeepsConfig DEF Removed
<1> HIDE DEF new
<1>4. <<t, k>> \in Target
  BY TargetProperties
<1> QED BY <1>1, <1>3, <1>4 DEF TypeOK, new

\* The cookie a request is sent with is one that some connection had.
LEMMA SentCookie ==
    ASSUME TypeOK, NEW c \in Connections,
           \E cookie \in Cookies : Extracts(cookie) /\ jar' = [jar EXCEPT ![c] = cookie]
    PROVE  /\ file \in Config
           /\ jar' \in [Connections -> Cookie \cup {None}]
           /\ IsAdmin(jar'[c])
           /\ \E d \in Connections : jar'[c] = jar[d]
           /\ \A d \in Connections \ {c} : jar'[d] = jar[d]
BY DEF TypeOK, Cookies, Extracts

-----------------------------------------------------------------------------
(* Types.  What a save writes may depend on all that was stored before it, *)
(* so the hashes of what is stored go along.                               *)

\* The end of a request keeps the types and the progress of the others.
LEMMA EndsTypes ==
    ASSUME TypeOK, Progress, NEW c \in Connections, Ends(c)
    PROVE  /\ pc' \in [Connections -> {"idle", "ready", "saving", "writing"}]
           /\ op' \in [Connections -> {"none", "add", "delete"}]
           /\ target' \in [Connections -> Target \cup {None}]
           /\ gone' \in [Connections -> BOOLEAN]
           /\ snap' \in [Connections -> Config \cup {None}]
           /\ Progress'
BY DEF Ends, TypeOK, Progress

\* What a save leaves in the file, whether it ends well or breaks off.
LEMMA SaveLeaves ==
    ASSUME TypeOK, Progress, Contents, NEW c \in Connections,
           WriteContents(c) \/ WriteFails(c)
    PROVE  /\ file' \in Hashed \cup {Blank, Torn}
           /\ written' \in SUBSET Hashed
           /\ admins' \in SUBSET Logins
           /\ acked' \in SUBSET Target
           /\ upset' \in SUBSET Upsets /\ upset \subseteq upset'
           /\ "mixes" \notin upset' => (file' \in Config => WellFormed(file'))
<1> USE DEF TypeOK
<1>1. pc[c] = "writing" /\ snap[c] \in Hashed /\ target[c] \in Target
  BY DEF WriteContents, WriteFails, Progress, Contents, Hashed
<1>2. written \in SUBSET Hashed /\ file \in Hashed \cup {Blank, Torn}
  BY DEF Contents, Hashed
<1>3. \A b \in written : Overlays(snap[c], b) \subseteq Hashed
                         /\ PartOverlays(snap[c], b) \subseteq Hashed
  BY <1>1, <1>2, OverlaysAreHashed
<1>4. /\ Bounded(UNION {Overlays(snap[c], b) : b \in written}) \subseteq Hashed
      /\ Bounded(UNION {PartOverlays(snap[c], b) : b \in written}) \subseteq Hashed
  BY <1>3 DEF Bounded
<1>5. Parts(snap[c]) \subseteq Hashed
  BY <1>1, PartsAreGood
<1>6. file' \in Hashed \cup {Blank, Torn}
  <2>1. CASE WriteContents(c)
    BY <1>1, <1>4, <2>1 DEF WriteContents, SetFile, Outcomes
  <2>2. CASE WriteFails(c)
    BY <1>2, <1>4, <1>5, <2>2 DEF WriteFails, SetFile
  <2> QED BY <2>1, <2>2
<1>7. written' \in SUBSET Hashed
  <2>1. Written(c)
    BY DEF WriteContents, WriteFails
  <2>2. file' \in Config => file' \in Hashed
    BY <1>6, FileAssumption
  <2> QED BY <1>1, <1>2, <2>1, <2>2 DEF Written
<1>8. admins' \in SUBSET Logins
  BY AdminsInAreLogins DEF WriteContents, WriteFails, SetFile
<1>9. acked' \in SUBSET Target
  BY <1>1 DEF WriteContents, WriteFails
<1>10. /\ upset' \in SUBSET Upsets /\ upset \subseteq upset'
       /\ "mixes" \notin upset' => file = Blank /\ "mixes" \notin upset
  BY DEF WriteContents, WriteFails, Mixes, Upsets
<1>11. ASSUME "mixes" \notin upset', file' \in Config
       PROVE  WellFormed(file')
  <2>1. file = Blank /\ WellFormed(snap[c])
    BY <1>1, <1>10, <1>11 DEF Contents
  <2>2. file' = snap[c] \/ file' \in Parts(snap[c])
    BY <1>11, <2>1, FileAssumption DEF WriteContents, WriteFails, SetFile, Outcomes
  <2> QED BY <1>1, <2>1, <2>2, PartsAreGood
<1> QED BY <1>6, <1>7, <1>8, <1>9, <1>10, <1>11

LEMMA TypeStep ==
    ASSUME TypeOK, Progress, Contents, [Next]_vars
    PROVE  TypeOK' /\ Progress'
<1> USE DEF TypeOK
<1>1. ASSUME NEW c \in Connections, Ends(c), UNCHANGED <<fileVars, up, builds, jar, history>>
      PROVE  TypeOK' /\ Progress'
  BY <1>1, EndsTypes DEF fileVars, history
<1>2. ASSUME NEW c \in Connections, DisconnectDuringSave(c)
      PROVE  TypeOK' /\ Progress'
  BY <1>2 DEF DisconnectDuringSave, Progress, fileVars, history
<1>3. ASSUME NEW c \in Connections, DeleteItem(c)
      PROVE  TypeOK' /\ Progress'
  <2>1. /\ snap' \in [Connections -> Config \cup {None}] /\ snap'[c] \in Config
        /\ target' \in [Connections -> Target \cup {None}] /\ target'[c] \in Target
        /\ \A d \in Connections \ {c} : snap'[d] = snap[d] /\ target'[d] = target[d]
    BY <1>3, DeleteItemProperties
  <2>2. jar' \in [Connections -> Cookie \cup {None}]
    BY <1>3, SentCookie DEF DeleteItem
  <2>3. /\ pc' = [pc EXCEPT ![c] = "saving"] /\ op' = [op EXCEPT ![c] = "delete"]
        /\ UNCHANGED <<file, written, up, builds, gone, acked, admins>>
        /\ upset' \in SUBSET Upsets
    BY <1>3 DEF DeleteItem, Begins, fileVars, Upsets
  <2> QED BY <2>1, <2>2, <2>3 DEF Progress
<1>4. ASSUME NEW c \in Connections, ReadToAdd(c)
      PROVE  TypeOK' /\ Progress'
  <2>1. jar' \in [Connections -> Cookie \cup {None}] /\ file \in Config
    BY <1>4, SentCookie DEF ReadToAdd
  <2>2. /\ pc' = [pc EXCEPT ![c] = "ready"] /\ op' = [op EXCEPT ![c] = "add"]
        /\ snap' = [snap EXCEPT ![c] = file] /\ pc[c] = "idle"
        /\ UNCHANGED <<file, written, up, builds, target, gone, acked, admins>>
        /\ upset' \in SUBSET Upsets
    BY <1>4 DEF ReadToAdd, Begins, fileVars, Upsets
  <2> QED BY <2>1, <2>2 DEF Progress
<1>5. ASSUME NEW c \in Connections, AddItem(c)
      PROVE  TypeOK' /\ Progress'
  <2>1. /\ snap' \in [Connections -> Config \cup {None}] /\ snap'[c] \in Config
        /\ target' \in [Connections -> Target \cup {None}] /\ target'[c] \in Target
        /\ \A d \in Connections \ {c} : snap'[d] = snap[d] /\ target'[d] = target[d]
    BY <1>5, AddItemProperties
  <2>2. /\ pc' = [pc EXCEPT ![c] = "saving"]
        /\ UNCHANGED <<file, written, up, builds, jar, op, gone, acked, admins, upset>>
    BY <1>5 DEF AddItem, fileVars, history
  <2> QED BY <2>1, <2>2 DEF Progress
<1>6. ASSUME NEW c \in Connections, LocalAuth(c)
      PROVE  TypeOK' /\ Progress'
  <2>1. PICK login \in Logins :
           /\ HasKey(file["users"], login)
           /\ jar' = [jar EXCEPT ![c] = [login |-> LoginUser(login).key,
                                         admin |-> LoginUser(login).admin, key |-> builds]]
    BY <1>6 DEF LocalAuth
  <2>2. LoginUser(login) \in StoredUser
    BY <1>6, <2>1, LoginUserProperties DEF LocalAuth, LoginUser
  <2>3. [login |-> LoginUser(login).key, admin |-> LoginUser(login).admin, key |-> builds] \in Cookie
    BY <2>2 DEF Cookie, StoredUser
  <2>4. jar' \in [Connections -> Cookie \cup {None}]
    BY <2>1, <2>3
  <2>5. UNCHANGED <<file, written, up, builds, pc, op, target, gone, snap, acked, admins, upset>>
    BY <1>6 DEF LocalAuth, fileVars, history
  <2> QED BY <2>4, <2>5 DEF Progress
<1>7. ASSUME NEW c \in Connections, OpenToWrite(c)
      PROVE  TypeOK' /\ Progress'
  <2>1. admins' \in SUBSET Logins
    BY <1>7, AdminsInAreLogins DEF OpenToWrite, SetFile
  <2> QED BY <1>7, <2>1 DEF OpenToWrite, SetFile, Progress
<1>8. ASSUME NEW c \in Connections, WriteContents(c) \/ WriteFails(c)
      PROVE  TypeOK' /\ Progress'
  <2>1. /\ file' \in Config \cup {Blank, Torn} /\ written' \in SUBSET Config
        /\ admins' \in SUBSET Logins /\ acked' \in SUBSET Target /\ upset' \in SUBSET Upsets
    BY <1>8, SaveLeaves DEF Hashed
  <2>2. Ends(c) /\ UNCHANGED <<up, builds, jar>>
    BY <1>8 DEF WriteContents, WriteFails
  <2> QED BY <2>1, <2>2, EndsTypes
<1>9. ASSUME Build, up' \in BOOLEAN
      PROVE  TypeOK' /\ Progress'
  <2>1. admins' \in SUBSET Logins
    BY <1>9, AdminsInAreLogins DEF Build
  <2>2. builds' \in 1..MaxBuilds
    BY <1>9, BoundAssumption DEF Build
  <2> QED BY <1>9, <2>1, <2>2 DEF Build, fileVars, clientVars, Progress
<1>10. ASSUME ReloadFails
       PROVE  TypeOK' /\ Progress'
  BY <1>10 DEF ReloadFails, Progress, fileVars, history
<1>11. ASSUME Crash
       PROVE  TypeOK' /\ Progress'
  BY <1>11 DEF Crash, Progress, Upsets
<1>12. ASSUME UNCHANGED vars
       PROVE  TypeOK' /\ Progress'
  BY <1>12 DEF vars, fileVars, clientVars, history, Progress
<1>13. ASSUME NEW c \in Connections, ClientStep(c)
       PROVE  TypeOK' /\ Progress'
  <2>1. CASE Arrive(c)
    BY <2>1, <1>3, <1>4, <1>6, <1>12 DEF Arrive, Reject, List, DeleteMissing, LocalAuthFails
  <2>2. CASE Handle(c)
    BY <2>2, <1>1, <1>5 DEF Handle, BadBody, AddUserRefused
  <2>3. CASE Save(c)
    BY <2>3, <1>1, <1>7, <1>8 DEF Save, OpenFails
  <2>4. CASE Disconnect(c) \/ DisconnectDuringSave(c)
    BY <2>4, <1>1, <1>2 DEF Disconnect
  <2> QED BY <1>13, <2>1, <2>2, <2>3, <2>4 DEF ClientStep
<1>14. CASE Server
  BY <1>14, <1>9, <1>10, <1>11 DEF Server, Reload, Restart
<1> QED BY <1>12, <1>13, <1>14 DEF Next

-----------------------------------------------------------------------------
(* What is stored is well formed.                                          *)

\* A request that ends leaves the copies of the others as they are.
LEMMA EndsContents ==
    ASSUME TypeOK, Contents, NEW c \in Connections, Ends(c)
    PROVE  \A d \in Connections : pc'[d] # "idle" =>
              UsersHaveHash(snap'[d]) /\ ("mixes" \notin upset => WellFormed(snap'[d]))
BY DEF Ends, TypeOK, Contents

LEMMA ContentsStep ==
    ASSUME TypeOK, Progress, Contents, [Next]_vars
    PROVE  Contents'
<1> USE DEF TypeOK
<1>1. ASSUME NEW c \in Connections, Ends(c), UNCHANGED <<fileVars, history>>
      PROVE  Contents'
  BY <1>1, EndsContents DEF Contents, fileVars, history
<1>2. ASSUME UNCHANGED <<file, written, pc, snap, upset>>
      PROVE  Contents'
  BY <1>2 DEF Contents
<1>3. ASSUME NEW c \in Connections, DeleteItem(c)
      PROVE  Contents'
  <2>1. /\ UsersHaveHash(snap'[c]) /\ \A d \in Connections \ {c} : snap'[d] = snap[d]
        /\ WellFormed(file) => WellFormed(snap'[c])
    BY <1>3, DeleteItemProperties
  <2>2. /\ file \in Config /\ pc' = [pc EXCEPT ![c] = "saving"]
        /\ UNCHANGED <<file, written>> /\ upset \subseteq upset'
    BY <1>3 DEF DeleteItem, Extracts, Begins, fileVars
  <2> QED BY <2>1, <2>2 DEF Contents
<1>4. ASSUME NEW c \in Connections, ReadToAdd(c)
      PROVE  Contents'
  <2>1. /\ file \in Config /\ pc' = [pc EXCEPT ![c] = "ready"]
        /\ snap' = [snap EXCEPT ![c] = file]
        /\ UNCHANGED <<file, written>> /\ upset \subseteq upset'
    BY <1>4 DEF ReadToAdd, Extracts, Begins, fileVars
  <2> QED BY <2>1 DEF Contents
<1>5. ASSUME NEW c \in Connections, AddItem(c)
      PROVE  Contents'
  <2>1. /\ UsersHaveHash(snap'[c]) /\ \A d \in Connections \ {c} : snap'[d] = snap[d]
        /\ WellFormed(snap[c]) => WellFormed(snap'[c])
    BY <1>5, AddItemProperties
  <2>2. pc[c] = "ready" /\ pc' = [pc EXCEPT ![c] = "saving"] /\ UNCHANGED <<file, written, upset>>
    BY <1>5 DEF AddItem, fileVars, history
  <2> QED BY <2>1, <2>2 DEF Contents
<1>6. ASSUME NEW c \in Connections, OpenToWrite(c)
      PROVE  Contents'
  BY <1>6, FileAssumption DEF OpenToWrite, SetFile, Contents
<1>7. ASSUME NEW c \in Connections, WriteContents(c) \/ WriteFails(c)
      PROVE  Contents'
  <2>1. /\ file' \in Hashed \cup {Blank, Torn} /\ written' \in SUBSET Hashed
        /\ upset \subseteq upset'
        /\ "mixes" \notin upset' => (file' \in Config => WellFormed(file'))
    BY <1>7, SaveLeaves
  <2>2. Ends(c)
    BY <1>7 DEF WriteContents, WriteFails
  <2>3. file' \in Config => UsersHaveHash(file')
    BY <2>1, FileAssumption DEF Hashed
  <2>4. \A f \in written' : UsersHaveHash(f)
    BY <2>1 DEF Hashed
  <2> QED BY <2>1, <2>2, <2>3, <2>4, EndsContents DEF Contents
<1>8. ASSUME ReloadFails
      PROVE  Contents'
  BY <1>8 DEF ReloadFails, Contents, fileVars, history
<1>9. ASSUME Crash
      PROVE  Contents'
  BY <1>9 DEF Crash, Contents
<1>10. ASSUME NEW c \in Connections, ClientStep(c)
       PROVE  Contents'
  <2>1. CASE Arrive(c)
    BY <2>1, <1>2, <1>3, <1>4
       DEF Arrive, Reject, List, DeleteMissing, LocalAuth, LocalAuthFails,
           vars, fileVars, clientVars, history
  <2>2. CASE Handle(c)
    BY <2>2, <1>1, <1>5 DEF Handle, BadBody, AddUserRefused
  <2>3. CASE Save(c)
    BY <2>3, <1>1, <1>6, <1>7 DEF Save, OpenFails
  <2>4. CASE Disconnect(c) \/ DisconnectDuringSave(c)
    BY <2>4, <1>1, <1>2 DEF Disconnect, DisconnectDuringSave, fileVars, history
  <2> QED BY <1>10, <2>1, <2>2, <2>3, <2>4 DEF ClientStep
<1>11. CASE Server
  BY <1>11, <1>2, <1>8, <1>9 DEF Server, Reload, Restart, Build, fileVars, clientVars
<1> QED BY <1>2, <1>10, <1>11 DEF Next, vars, fileVars, clientVars, history

LEMMA BaseInit ==
    ASSUME Init
    PROVE  TypeOK /\ Progress /\ Contents
<1>1. file \in Config /\ WellFormed(file)
  BY InitialAssumption DEF Init
<1>2. admins \in SUBSET Logins
  BY AdminsInAreLogins DEF Init
<1>3. TypeOK /\ Progress
  BY <1>1, <1>2, BoundAssumption DEF Init, TypeOK, Progress
<1>4. Contents
  BY <1>1 DEF Init, Contents, WellFormed
<1> QED BY <1>3, <1>4

\* The invariant all the others stand on.
LEMMA Base == Spec => [](TypeOK /\ Progress /\ Contents)
<1>1. TypeOK /\ Progress /\ Contents /\ [Next]_vars => TypeOK' /\ Progress' /\ Contents'
  BY TypeStep, ContentsStep
<1> QED BY <1>1, BaseInit, PTL DEF Spec

\* Every variable keeps its type, for any number of connections, users and builds.
THEOREM TypeCorrect == Spec => []TypeOK
BY Base, PTL

\* For any number of connections, users and faults: if what the operator wrote is well
\* formed, every configuration that parses ever after has a hash for each user, and one
\* item per key unless a save wrote into what another one had written.
THEOREM StoredConfigStaysWellFormed == Spec => []StoredConfigWellFormed
<1>1. Contents => StoredConfigWellFormed
  BY DEF Contents, StoredConfigWellFormed
<1> QED BY <1>1, Base, PTL

-----------------------------------------------------------------------------
(* Who stores it.                                                          *)

\* A request that ends takes nothing from the authority of the others, as long as
\* admins only grows and the key stays.
LEMMA EndsAuthority ==
    ASSUME TypeOK, Authority, NEW c \in Connections, Ends(c), builds' = builds,
           admins \subseteq admins', AdminsIn(file') \subseteq admins', jar' = jar
    PROVE  Authority'
BY DEF Ends, TypeOK, Authority, IsAdmin

LEMMA AuthorityStep ==
    ASSUME TypeOK, Progress, Contents, Authority, [Next]_vars
    PROVE  Authority'
<1> USE DEF TypeOK
<1>1. ASSUME NEW c \in Connections, Ends(c), UNCHANGED <<fileVars, up, builds, jar, history>>
      PROVE  Authority'
  <2>1. AdminsIn(file') \subseteq admins' /\ admins' = admins
    BY <1>1 DEF Authority, fileVars, history
  <2> QED BY <1>1, <2>1, EndsAuthority
<1>2. ASSUME NEW c \in Connections, DisconnectDuringSave(c)
      PROVE  Authority'
  BY <1>2 DEF DisconnectDuringSave, Authority, IsAdmin, fileVars, history
<1>3. ASSUME NEW c \in Connections, DeleteItem(c) \/ ReadToAdd(c)
      PROVE  Authority'
  <2>1. \E cookie \in Cookies : Extracts(cookie) /\ jar' = [jar EXCEPT ![c] = cookie]
    BY <1>3 DEF DeleteItem, ReadToAdd
  <2>2. PICK d \in Connections : jar'[c] = jar[d]
    BY <2>1, SentCookie
  <2>3. IsAdmin(jar'[c]) /\ \A e \in Connections \ {c} : jar'[e] = jar[e]
    BY <2>1, SentCookie
  <2>4. /\ \A e \in Connections \ {c} : pc'[e] = pc[e]
        /\ UNCHANGED <<file, builds, gone, admins>>
    BY <1>3 DEF DeleteItem, ReadToAdd, Begins, fileVars
  <2> QED BY <2>2, <2>3, <2>4 DEF Authority, IsAdmin
<1>4. ASSUME NEW c \in Connections, AddItem(c)
      PROVE  Authority'
  <2>1. /\ pc[c] = "ready" /\ pc' = [pc EXCEPT ![c] = "saving"]
        /\ UNCHANGED <<file, builds, jar, gone, admins>>
    BY <1>4 DEF AddItem, fileVars, history
  <2> QED BY <2>1 DEF Authority, IsAdmin
<1>5. ASSUME NEW c \in Connections, LocalAuth(c)
      PROVE  Authority'
  <2>1. PICK login \in Logins :
           /\ HasKey(file["users"], login)
           /\ jar' = [jar EXCEPT ![c] = [login |-> LoginUser(login).key,
                                         admin |-> LoginUser(login).admin, key |-> builds]]
    BY <1>5 DEF LocalAuth
  <2> DEFINE u == LoginUser(login)
             new == [login |-> u.key, admin |-> u.admin, key |-> builds]
  <2>2. u.admin => u.key \in admins
    <3>1. file \in Config
      BY <1>5 DEF LocalAuth
    <3>2. u.admin => u.key \in AdminsOf(file)
      BY <2>1, <3>1, LoginUserProperties DEF LoginUser
    <3> QED BY <3>1, <3>2 DEF Authority, AdminsIn
  <2>3. /\ jar'[c] = new /\ \A d \in Connections \ {c} : jar'[d] = jar[d]
        /\ new.key = builds /\ new.admin = u.admin /\ new.login = u.key
    BY <2>1
  <2>4. pc[c] = "idle" /\ UNCHANGED <<file, builds, pc, gone, admins>>
    BY <1>5 DEF LocalAuth, fileVars, history
  <2> HIDE DEF u, new
  <2> QED BY <2>2, <2>3, <2>4 DEF Authority, IsAdmin
<1>6. ASSUME NEW c \in Connections, OpenToWrite(c)
      PROVE  Authority'
  BY <1>6 DEF OpenToWrite, SetFile, Authority, IsAdmin
<1>7. ASSUME NEW c \in Connections, WriteContents(c) \/ WriteFails(c)
      PROVE  Authority'
  <2>1. admins \subseteq admins' /\ AdminsIn(file') \subseteq admins'
    BY <1>7 DEF WriteContents, WriteFails, SetFile
  <2> QED BY <1>7, <2>1, EndsAuthority DEF WriteContents, WriteFails
<1>8. ASSUME Build, \A c \in Connections : pc[c] = "idle" \/ gone[c]
      PROVE  Authority'
  <2>1. \A c \in Connections : jar[c] # None => jar[c] \in Cookie /\ jar[c].key < builds'
    BY <1>8 DEF Build, Authority, Cookie
  <2>2. \A c \in Connections : jar'[c] # None => jar'[c].key < builds' /\ ~IsAdmin(jar[c])'
    BY <1>8, <2>1 DEF clientVars, IsAdmin, Cookie, Build
  <2>3. \A c \in Connections : pc'[c] = "idle" \/ gone'[c]
    BY <1>8 DEF Build, clientVars
  <2>4. AdminsIn(file)' \subseteq admins'
    BY <1>8 DEF Build, fileVars
  <2>5. \A c \in Connections : jar'[c] # None => jar'[c].key <= builds'
    BY <1>8, <2>1 DEF clientVars, Cookie, Build
  <2> QED BY <2>2, <2>3, <2>4, <2>5 DEF Authority
<1>9. ASSUME ReloadFails
      PROVE  Authority'
  BY <1>9 DEF ReloadFails, Drained, Progress, Authority, IsAdmin, fileVars, history
<1>10. ASSUME Crash
       PROVE  Authority'
  BY <1>10 DEF Crash, Authority, IsAdmin
<1>11. ASSUME UNCHANGED vars
       PROVE  Authority'
  BY <1>11 DEF vars, fileVars, clientVars, history, Authority, IsAdmin
<1>12. ASSUME NEW c \in Connections, ClientStep(c)
       PROVE  Authority'
  <2>1. CASE Arrive(c)
    BY <2>1, <1>3, <1>5, <1>11 DEF Arrive, Reject, List, DeleteMissing, LocalAuthFails
  <2>2. CASE Handle(c)
    BY <2>2, <1>1, <1>4 DEF Handle, BadBody, AddUserRefused
  <2>3. CASE Save(c)
    BY <2>3, <1>1, <1>6, <1>7 DEF Save, OpenFails
  <2>4. CASE Disconnect(c) \/ DisconnectDuringSave(c)
    BY <2>4, <1>1, <1>2 DEF Disconnect
  <2> QED BY <1>12, <2>1, <2>2, <2>3, <2>4 DEF ClientStep
<1>13. CASE Server
  BY <1>13, <1>8, <1>9, <1>10 DEF Server, Reload, Restart, Drained
<1> QED BY <1>11, <1>12, <1>13 DEF Next

\* For any number of connections and reloads: only who logged in to the running
\* generation, as a user stored as an admin since it was built, saves.
THEOREM SaversAreCurrentAdmins == Spec => []SaverIsCurrentAdmin
<1>1. Init => Authority
  BY DEF Init, Authority
<1>2. TypeOK /\ Progress /\ Contents /\ Authority /\ [Next]_vars => Authority'
  BY AuthorityStep
<1>3. Authority => SaverIsCurrentAdmin
  BY DEF Authority, SaverIsCurrentAdmin, IsAdmin
<1> QED BY <1>1, <1>2, <1>3, Base, PTL DEF Spec

-----------------------------------------------------------------------------
(* The file at rest.                                                       *)

\* Until two saves have the file open at once or one breaks off, the file parses or it
\* is truncated and some save will write it.
Rest == upset \subseteq {"spans"} =>
          \/ file \in Config
          \/ file = Blank /\ \E c \in Connections : pc[c] = "writing"

LEMMA RestStep ==
    ASSUME TypeOK, Progress, Contents, Rest, [Next]_vars
    PROVE  Rest'
<1> USE DEF TypeOK
<1>1. ASSUME file' = file, upset \subseteq upset',
             \A c \in Connections : pc[c] = "writing" => pc'[c] = "writing"
      PROVE  Rest'
  BY <1>1 DEF Rest
<1>2. ASSUME NEW c \in Connections, Ends(c), UNCHANGED <<fileVars, history>>, pc[c] # "writing"
      PROVE  Rest'
  BY <1>1, <1>2 DEF Ends, fileVars, history
<1>3. ASSUME NEW c \in Connections, DeleteItem(c) \/ ReadToAdd(c)
      PROVE  Rest'
  BY <1>1, <1>3 DEF DeleteItem, ReadToAdd, Begins, fileVars
<1>4. ASSUME NEW c \in Connections, OpenToWrite(c)
      PROVE  Rest'
  BY <1>4 DEF OpenToWrite, SetFile, Rest
<1>5. ASSUME NEW c \in Connections, WriteContents(c)
      PROVE  Rest'
  <2>1. CASE file = Blank
    BY <1>5, <2>1 DEF WriteContents, Outcomes, SetFile, Progress, Rest
  <2>2. CASE file # Blank
    BY <1>5, <2>2 DEF WriteContents, Mixes, Rest
  <2> QED BY <2>1, <2>2
<1>6. ASSUME NEW c \in Connections, WriteFails(c)
      PROVE  Rest'
  BY <1>6 DEF WriteFails, Rest
<1>7. ASSUME Crash
      PROVE  Rest'
  BY <1>7 DEF Crash, Rest
<1>8. ASSUME UNCHANGED <<file, pc, upset>>
      PROVE  Rest'
  BY <1>1, <1>8
<1>9. ASSUME NEW c \in Connections, ClientStep(c)
      PROVE  Rest'
  <2>1. CASE Arrive(c)
    BY <2>1, <1>3, <1>8
       DEF Arrive, Reject, List, DeleteMissing, LocalAuth, LocalAuthFails,
           vars, fileVars, clientVars, history
  <2>2. CASE Handle(c)
    BY <2>2, <1>1, <1>2 DEF Handle, BadBody, AddUserRefused, AddItem, fileVars, history
  <2>3. CASE Save(c)
    BY <2>3, <1>2, <1>4, <1>5, <1>6 DEF Save, OpenFails
  <2>4. CASE Disconnect(c) \/ DisconnectDuringSave(c)
    BY <2>4, <1>2, <1>8 DEF Disconnect, DisconnectDuringSave, fileVars, history
  <2> QED BY <1>9, <2>1, <2>2, <2>3, <2>4 DEF ClientStep
<1>10. CASE Server
  <2>1. CASE ReloadFails
    BY <1>1, <2>1 DEF ReloadFails, fileVars, history
  <2> QED BY <1>10, <1>7, <1>8, <2>1
          DEF Server, Reload, Restart, Build, fileVars, clientVars
<1> QED BY <1>8, <1>9, <1>10 DEF Next, vars, fileVars, clientVars, history

\* For any number of connections: stale copies and closed connections leave a file that
\* parses, until two saves have it open at once or one breaks off.
THEOREM QuietFileStaysReadable == Spec => []QuietFileIsReadable
<1>1. Init => Rest
  BY InitialAssumption DEF Init, Rest
<1>2. TypeOK /\ Progress /\ Contents /\ Rest /\ [Next]_vars => Rest'
  BY RestStep
<1>3. Rest => QuietFileIsReadable
  BY DEF Rest, QuietFileIsReadable
<1> QED BY <1>1, <1>2, <1>3, Base, PTL DEF Spec

-----------------------------------------------------------------------------
(* One change after another: the API is atomic.                            *)

Change(f, g) ==
    \/ \E t \in Tables : \E payload \in Payloads(t) :
          Storable(f, t, payload) /\ g = Stored(f, t, StoredItem(f, t, payload))
    \/ \E t \in Tables : \E k \in Keys(t) :
          HasKey(f[t], k) /\ g = Removed(f, t, k)

\* While changes come one after another there is one at a time, the copy a handler
\* holds is the file, and the copy it saves is one change away from it.
Sequence ==
    upset = {} =>
        /\ \A c, d \in Connections : pc[c] # "idle" /\ pc[d] # "idle" => c = d
        /\ \A c \in Connections :
              /\ pc[c] = "ready" => file \in Config /\ snap[c] = file
              /\ pc[c] = "saving" => file \in Config /\ Change(file, snap[c])
              /\ pc[c] = "writing" => file = Blank
        /\ (\A c \in Connections : pc[c] # "writing") => file \in Config

LEMMA DeleteItemChanges ==
    ASSUME TypeOK, NEW c \in Connections, DeleteItem(c)
    PROVE  Change(file, snap'[c])
BY DEF DeleteItem, Change, Removed, TypeOK

LEMMA AddItemChanges ==
    ASSUME TypeOK, Progress, NEW c \in Connections, AddItem(c)
    PROVE  Change(snap[c], snap'[c])
BY AddItemIs DEF Change, TypeOK

\* A connection whose request ends before its save opened the file goes back to idle.
Quits(c) == \/ pc'[c] = "idle" /\ pc[c] # "writing"
            \/ pc'[c] = pc[c] /\ snap'[c] = snap[c]

LEMMA EndsQuits ==
    ASSUME pc \in [Connections -> {"idle", "ready", "saving", "writing"}],
           snap \in [Connections -> Config \cup {None}],
           NEW c \in Connections, Ends(c), pc[c] # "writing",
           NEW d \in Connections
    PROVE  Quits(d)
<1>1. pc'[d] = IF d = c THEN "idle" ELSE pc[d]
  BY DEF Ends
<1>2. snap'[d] = IF d = c THEN None ELSE snap[d]
  BY DEF Ends
<1> QED BY <1>1, <1>2 DEF Quits

LEMMA ReloadFailsQuits ==
    ASSUME ReloadFails, NEW d \in Connections
    PROVE  Quits(d)
<1>1. pc'[d] = IF pc[d] # "writing" THEN "idle" ELSE pc[d]
  BY DEF ReloadFails
<1>2. snap'[d] = IF pc[d] # "writing" THEN None ELSE snap[d]
  BY DEF ReloadFails
<1> QED BY <1>1, <1>2 DEF Quits

LEMMA SequenceStep ==
    ASSUME TypeOK, Progress, Contents, Sequence, [Next]_vars
    PROVE  Sequence'
<1> USE DEF TypeOK
<1>1. ASSUME file' = file, upset \subseteq upset', \A c \in Connections : Quits(c)
      PROVE  Sequence'
  BY <1>1 DEF Sequence, Quits
<1>2. ASSUME NEW c \in Connections, Ends(c), UNCHANGED <<fileVars, history>>, pc[c] # "writing"
      PROVE  Sequence'
  <2>1. file' = file /\ upset' = upset
    BY <1>2 DEF fileVars, history
  <2>2. \A d \in Connections : Quits(d)
    BY <1>2, EndsQuits
  <2> QED BY <1>1, <2>1, <2>2
<1>3. ASSUME NEW c \in Connections, DeleteItem(c)
      PROVE  Sequence'
  <2> SUFFICES ASSUME upset' = {} PROVE Sequence'
    BY DEF Sequence
  <2>1. upset = {} /\ \A d \in Connections : pc[d] = "idle"
    BY <1>3 DEF DeleteItem, Begins, Changing
  <2>2. Change(file, snap'[c])
    BY <1>3, DeleteItemChanges
  <2>3. file \in Config /\ file' = file /\ pc' = [pc EXCEPT ![c] = "saving"]
    BY <1>3 DEF DeleteItem, Extracts, fileVars
  <2> QED BY <2>1, <2>2, <2>3 DEF Sequence
<1>4. ASSUME NEW c \in Connections, ReadToAdd(c)
      PROVE  Sequence'
  <2> SUFFICES ASSUME upset' = {} PROVE Sequence'
    BY DEF Sequence
  <2>1. upset = {} /\ \A d \in Connections : pc[d] = "idle"
    BY <1>4 DEF ReadToAdd, Begins, Changing
  <2>2. file \in Config /\ file' = file /\ pc' = [pc EXCEPT ![c] = "ready"]
        /\ snap' = [snap EXCEPT ![c] = file]
    BY <1>4 DEF ReadToAdd, Extracts, fileVars
  <2> QED BY <2>1, <2>2 DEF Sequence
<1>5. ASSUME NEW c \in Connections, AddItem(c)
      PROVE  Sequence'
  <2> SUFFICES ASSUME upset' = {} PROVE Sequence'
    BY DEF Sequence
  <2>1. upset = {} /\ pc[c] = "ready" /\ file' = file /\ pc' = [pc EXCEPT ![c] = "saving"]
    BY <1>5 DEF AddItem, fileVars, history
  <2>2. file \in Config /\ snap[c] = file /\ \A d \in Connections \ {c} : pc[d] = "idle"
    BY <2>1 DEF Sequence
  <2>3. Change(file, snap'[c])
    BY <1>5, <2>2, AddItemChanges
  <2> QED BY <2>1, <2>2, <2>3 DEF Sequence
<1>6. ASSUME NEW c \in Connections, OpenToWrite(c)
      PROVE  Sequence'
  BY <1>6 DEF OpenToWrite, SetFile, Sequence
<1>7. ASSUME NEW c \in Connections, WriteContents(c)
      PROVE  Sequence'
  <2> SUFFICES ASSUME upset' = {} PROVE Sequence'
    BY DEF Sequence
  <2>1. upset = {} /\ file = Blank /\ pc[c] = "writing"
    BY <1>7 DEF WriteContents, Mixes
  <2>2. file' = snap[c] /\ snap[c] \in Config
    BY <1>7, <2>1 DEF WriteContents, Outcomes, SetFile, Progress
  <2>3. \A d \in Connections : pc'[d] = "idle"
    BY <1>7, <2>1 DEF WriteContents, Ends, Sequence
  <2> QED BY <2>2, <2>3 DEF Sequence
<1>8. ASSUME NEW c \in Connections, WriteFails(c)
      PROVE  Sequence'
  BY <1>8 DEF WriteFails, Sequence
<1>9. ASSUME Crash
      PROVE  Sequence'
  BY <1>9 DEF Crash, Sequence
<1>10. ASSUME UNCHANGED <<file, pc, snap, upset>>
       PROVE  Sequence'
  BY <1>10 DEF Sequence
<1>11. ASSUME NEW c \in Connections, ClientStep(c)
       PROVE  Sequence'
  <2>1. CASE Arrive(c)
    BY <2>1, <1>3, <1>4, <1>10
       DEF Arrive, Reject, List, DeleteMissing, LocalAuth, LocalAuthFails,
           vars, fileVars, clientVars, history
  <2>2. CASE Handle(c)
    BY <2>2, <1>2, <1>5 DEF Handle, BadBody, AddUserRefused
  <2>3. CASE Save(c)
    BY <2>3, <1>2, <1>6, <1>7, <1>8 DEF Save, OpenFails
  <2>4. CASE Disconnect(c) \/ DisconnectDuringSave(c)
    BY <2>4, <1>2, <1>10 DEF Disconnect, DisconnectDuringSave, fileVars, history
  <2> QED BY <1>11, <2>1, <2>2, <2>3, <2>4 DEF ClientStep
<1>12. CASE Server
  <2>1. CASE ReloadFails
    <3>1. file' = file /\ upset' = upset
      BY <2>1 DEF ReloadFails, fileVars, history
    <3>2. \A d \in Connections : Quits(d)
      BY <2>1, ReloadFailsQuits
    <3> QED BY <1>1, <3>1, <3>2
  <2> QED BY <1>12, <1>9, <1>10, <2>1
          DEF Server, Reload, Restart, Build, fileVars, clientVars
<1> QED BY <1>10, <1>11, <1>12 DEF Next, vars, fileVars, clientVars, history

LEMMA Sequential == Spec => []Sequence
<1>1. Init => Sequence
  BY InitialAssumption DEF Init, Sequence
<1>2. TypeOK /\ Progress /\ Contents /\ Sequence /\ [Next]_vars => Sequence'
  BY SequenceStep
<1> QED BY <1>1, <1>2, Base, PTL DEF Spec

\* The operators of the tables are those of AtomicConfig, which is about the same tables.
LEMMA SameTables ==
    /\ Tables = Atomic!Tables
    /\ \A table, k : Atomic!HasKey(table, k) = HasKey(table, k)
    /\ \A table, item : Atomic!Upsert(table, item) = Upsert(table, item)
    /\ \A table, k : Atomic!Delete(table, k) = Delete(table, k)
    /\ \A table, u : Atomic!UserToStore(table, u) = UserToStore(table, u)
<1>1. \A table, k : Atomic!Position(table, k) = Position(table, k)
  BY DEF Atomic!Position, Position, Atomic!SelectInSeq, SelectInSeq, Atomic!Min, Min
<1>2. \A table, k : Atomic!HasKey(table, k) = HasKey(table, k)
  BY <1>1 DEF Atomic!HasKey, HasKey
<1>3. \A table, item : Atomic!Upsert(table, item) = Upsert(table, item)
  BY <1>1, <1>2 DEF Atomic!Upsert, Upsert, Atomic!ReplaceAt, ReplaceAt
<1>4. \A table, k : Atomic!Delete(table, k) = Delete(table, k)
  BY <1>1 DEF Atomic!Delete, Delete, Atomic!RemoveAt, RemoveAt
<1>5. \A table, u : Atomic!UserToStore(table, u) = UserToStore(table, u)
  BY <1>1 DEF Atomic!UserToStore, UserToStore, Atomic!HashPassword, HashPassword,
              Atomic!Lookup, Lookup
<1>6. Tables = Atomic!Tables
  BY DEF Tables, Atomic!Tables
<1> QED BY <1>2, <1>3, <1>4, <1>5, <1>6

\* A change of the configuration is one step of AtomicConfig.
LEMMA ChangeIsAtomicStep ==
    ASSUME Promised \in Config, Change(Promised, Promised')
    PROVE  Atomic!Change
<1> DEFINE f == Promised
           g == Promised'
<1>1. ASSUME NEW t \in Tables, NEW payload \in Payloads(t), Storable(f, t, payload),
             g = Stored(f, t, StoredItem(f, t, payload))
      PROVE  Atomic!Change
  <2>1. CASE t = "users"
    <3>1. payload \in Users /\ (payload.pw = Empty => HasKey(f["users"], payload.key))
      BY <1>1, <2>1, PayloadTypes DEF Storable
    <3>2. g = Stored(f, "users", UserToStore(f["users"], payload))
      BY <1>1, <2>1 DEF StoredItem
    <3>3. Atomic!PutUser(payload)
      BY <3>1, <3>2, SameTables DEF Atomic!PutUser, Atomic!Put, Stored
    <3> QED BY <3>1, <3>3 DEF Atomic!Change
  <2>2. CASE t # "users"
    <3>1. (t = "apps" /\ payload \in Apps) \/ (t = "davs" /\ payload \in Davs)
      BY <1>1, <2>2, PayloadTypes, ItemTypes DEF Tables
    <3>2. g = Stored(f, t, payload)
      BY <1>1, <2>2 DEF StoredItem
    <3>3. Atomic!Put(t, payload)
      BY <3>2, SameTables DEF Atomic!Put, Stored
    <3> QED BY <3>1, <3>3 DEF Atomic!Change
  <2> QED BY <2>1, <2>2
<1>2. ASSUME NEW t \in Tables, NEW k \in Keys(t), HasKey(f[t], k), g = Removed(f, t, k)
      PROVE  Atomic!Change
  <2>1. f[t] \in Seq(Item(t))
    BY ConfigTable
  <2>2. PICK i \in DOMAIN f[t] : f[t][i].key = k
    BY <1>2, <2>1, PositionProperties
  <2>3. Atomic!DeleteKey(t, f[t][i].key)
    BY <1>2, <2>2, SameTables DEF Atomic!DeleteKey, Removed
  <2> QED BY <2>3, SameTables DEF Atomic!Change
<1> QED BY <1>1, <1>2 DEF Change

\* The connection that is found writing is the one that does.
LEMMA OneWriter ==
    ASSUME NEW p, NEW c \in Connections, p[c] = "writing",
           \A d \in Connections : p[d] = "writing" => d = c
    PROVE  (CHOOSE d \in Connections : p[d] = "writing") = c
OBVIOUS

\* The step that opens the file is the change; every other step changes nothing stored,
\* or ends the promise.
LEMMA AtomicStep ==
    ASSUME TypeOK, Progress, Contents, Sequence, Sequence', [Next]_vars
    PROVE  [Atomic!Next]_Promised
<1> USE DEF TypeOK
<1>1. upset \subseteq upset'
  BY DEF Next, ClientStep, Arrive, Reject, List, DeleteMissing, DeleteItem, ReadToAdd, LocalAuth,
         LocalAuthFails, Handle, BadBody, AddUserRefused, AddItem, Save, OpenToWrite, OpenFails,
         WriteContents, WriteFails, Disconnect, DisconnectDuringSave, Server, Reload,
         ReloadFails, Crash, Restart, Build, Begins, vars, history
<1>2. ASSUME NEW c \in Connections, pc[c] = "writing", upset = {}
      PROVE  StoredConfig = snap[c]
  <2>1. \A d \in Connections : pc[d] = "writing" => d = c
    BY <1>2 DEF Sequence
  <2> QED BY <1>2, <2>1, OneWriter DEF StoredConfig
<1>3. ASSUME NEW c \in Connections, pc'[c] = "writing", upset' = {}
      PROVE  StoredConfig' = snap'[c]
  <2>1. \A d \in Connections : pc'[d] = "writing" => d = c
    BY <1>3 DEF Sequence
  <2> QED BY <1>3, <2>1, OneWriter DEF StoredConfig
<1>4. CASE upset # {}
  BY <1>1, <1>4 DEF Promised
<1>5. ASSUME upset = {}
      PROVE  StoredConfig \in Config
  <2>1. CASE \E c \in Connections : pc[c] = "writing"
    BY <1>2, <1>5, <2>1 DEF Progress
  <2>2. CASE \A c \in Connections : pc[c] # "writing"
    BY <1>5, <2>2 DEF StoredConfig, Sequence
  <2> QED BY <2>1, <2>2
<1>6. CASE upset = {} /\ upset' # {}
  <2>1. Promised # None /\ Promised' = None
    BY <1>5, <1>6, FileAssumption DEF Promised
  <2> QED BY <2>1 DEF Atomic!Next
<1>7. CASE upset = {} /\ upset' = {}
  <2>0. Promised = StoredConfig /\ Promised' = StoredConfig'
    BY <1>7 DEF Promised
  <2>1. ASSUME file' = file,
               \A c \in Connections : /\ pc[c] = "writing" <=> pc'[c] = "writing"
                                      /\ pc[c] = "writing" => snap'[c] = snap[c]
        PROVE  UNCHANGED Promised
    <3>1. CASE \E c \in Connections : pc[c] = "writing"
      BY <1>2, <1>3, <1>7, <2>0, <2>1, <3>1
    <3>2. CASE \A c \in Connections : pc[c] # "writing"
      BY <2>0, <2>1, <3>2 DEF StoredConfig
    <3> QED BY <3>1, <3>2
  <2>2. ASSUME NEW c \in Connections, Ends(c), UNCHANGED fileVars, pc[c] # "writing"
        PROVE  UNCHANGED Promised
    BY <2>1, <2>2 DEF Ends, fileVars
  <2>3. ASSUME NEW c \in Connections, DeleteItem(c) \/ ReadToAdd(c) \/ AddItem(c)
        PROVE  UNCHANGED Promised
    BY <2>1, <2>3, DeleteItemProperties, AddItemProperties
       DEF DeleteItem, ReadToAdd, AddItem, fileVars
  <2>4. ASSUME NEW c \in Connections, OpenToWrite(c)
        PROVE  Atomic!Next
    <3>1. pc[c] = "saving" /\ pc'[c] = "writing" /\ snap' = snap
      BY <2>4 DEF OpenToWrite
    <3>2. StoredConfig' = snap[c]
      BY <1>3, <1>7, <3>1
    <3>3. \A d \in Connections : pc[d] # "writing"
      BY <1>7, <3>1 DEF Sequence
    <3>4. StoredConfig = file
      BY <3>3 DEF StoredConfig
    <3>5. file \in Config /\ Change(file, snap[c])
      BY <1>7, <3>1 DEF Sequence
    <3>6. Atomic!Change
      BY <2>0, <3>2, <3>4, <3>5, ChangeIsAtomicStep
    <3> QED BY <2>0, <3>4, <3>5, <3>6, FileAssumption DEF Atomic!Next
  <2>5. ASSUME NEW c \in Connections, WriteContents(c)
        PROVE  UNCHANGED Promised
    <3>1. pc[c] = "writing" /\ file = Blank
      BY <1>7, <2>5 DEF WriteContents, Sequence
    <3>2. file' = snap[c]
      BY <2>5, <3>1 DEF WriteContents, Outcomes, SetFile
    <3>3. \A d \in Connections : pc'[d] # "writing"
      BY <1>7, <2>5, <3>1 DEF WriteContents, Ends, Sequence
    <3>4. StoredConfig' = file'
      BY <3>3 DEF StoredConfig
    <3>5. StoredConfig = snap[c]
      BY <1>2, <1>7, <3>1
    <3> QED BY <2>0, <3>2, <3>4, <3>5
  <2>6. ASSUME NEW c \in Connections, WriteFails(c)
        PROVE  FALSE
    BY <1>7, <2>6 DEF WriteFails
  <2>7. ASSUME Crash
        PROVE  UNCHANGED Promised
    <3>1. \A c \in Connections : pc[c] # "writing"
      BY <1>7, <2>7 DEF Crash
    <3> QED BY <2>1, <2>7, <3>1 DEF Crash
  <2>8. ASSUME UNCHANGED <<file, pc, snap>>
        PROVE  UNCHANGED Promised
    BY <2>1, <2>8
  <2>9. CASE ReloadFails
    BY <2>1, <2>9 DEF ReloadFails, fileVars
  <2>10. ASSUME NEW c \in Connections, ClientStep(c)
         PROVE  Atomic!Next \/ UNCHANGED Promised
    <3>1. CASE Arrive(c)
      BY <3>1, <2>3, <2>8
         DEF Arrive, Reject, List, DeleteMissing, LocalAuth, LocalAuthFails,
             vars, fileVars, clientVars
    <3>2. CASE Handle(c)
      BY <3>2, <2>2, <2>3 DEF Handle, BadBody, AddUserRefused
    <3>3. CASE Save(c)
      BY <3>3, <2>2, <2>4, <2>5, <2>6 DEF Save, OpenFails
    <3>4. CASE Disconnect(c) \/ DisconnectDuringSave(c)
      BY <3>4, <2>2, <2>8 DEF Disconnect, DisconnectDuringSave, fileVars
    <3> QED BY <2>10, <3>1, <3>2, <3>3, <3>4 DEF ClientStep
  <2>11. CASE Server
    BY <2>11, <2>7, <2>8, <2>9 DEF Server, Reload, Restart, Build, fileVars, clientVars
  <2> QED BY <2>8, <2>10, <2>11 DEF Next, vars, fileVars, clientVars
<1> QED BY <1>4, <1>6, <1>7

\* For any number of connections, AdminApi implements AtomicConfig: until a change
\* begins before the one before it is saved, or a save breaks off, every save makes the
\* change of its request to what the requests before it left, whatever reloads, kills
\* and closed connections come in between.
THEOREM RequestsAreAtomic == Spec => ChangesAreAtomic
<1>1. Init => Atomic!Init
  <2>1. ASSUME Init PROVE Promised = file
    BY <2>1 DEF Init, StoredConfig, Promised
  <2> QED BY <2>1 DEF Init, Atomic!Init
<1>2. TypeOK /\ Progress /\ Contents /\ Sequence /\ Sequence' /\ [Next]_vars
        => [Atomic!Next]_Promised
  BY AtomicStep
<1> QED BY <1>1, <1>2, Base, Sequential, PTL DEF Spec, ChangesAreAtomic, Atomic!Spec

-----------------------------------------------------------------------------
(* Acknowledged items.                                                     *)

Holds(f, items) == \A item \in items : HasKey(f[item[1]], item[2])

\* While changes come one after another, the acknowledged items are in the file and in
\* the copy that is to replace it, but for the one it deletes; and an added one is there.
Kept ==
    upset = {} =>
        /\ file \in Config => Holds(file, acked)
        /\ \A c \in Connections : pc[c] \in {"saving", "writing"} =>
              Holds(snap[c], IF op[c] = "delete" THEN acked \ {target[c]}
                             ELSE acked \cup {target[c]})

LEMMA StoredHolds ==
    ASSUME NEW f \in Config, NEW t \in Tables, NEW item \in Item(t),
           NEW items \in SUBSET Target, Holds(f, items)
    PROVE  Holds(Stored(f, t, item), items \cup {<<t, item.key>>})
<1>1. \A u \in Tables : Stored(f, t, item)[u] = IF u = t THEN Upsert(f[t], item) ELSE f[u]
  BY DEF Stored, Config
<1>2. f[t] \in Seq(Item(t))
  BY ConfigTable
<1>3. HasKey(Upsert(f[t], item), item.key)
  BY <1>2, UpsertHasKey
<1>4. \A k : HasKey(f[t], k) => HasKey(Upsert(f[t], item), k)
  BY <1>2, UpsertKeepsKeys
<1>5. \A i \in items : i[1] \in Tables /\ HasKey(f[i[1]], i[2])
  BY DEF Holds, Target
<1> QED BY <1>1, <1>3, <1>4, <1>5 DEF Holds

LEMMA RemovedHolds ==
    ASSUME NEW f \in Config, NEW t \in Tables, NEW k, HasKey(f[t], k),
           NEW items \in SUBSET Target, Holds(f, items)
    PROVE  Holds(Removed(f, t, k), items \ {<<t, k>>})
<1>1. \A u \in Tables : Removed(f, t, k)[u] = IF u = t THEN Delete(f[t], k) ELSE f[u]
  BY DEF Removed, Config
<1>2. f[t] \in Seq(Item(t))
  BY ConfigTable
<1>3. \A other : HasKey(f[t], other) /\ other # k => HasKey(Delete(f[t], k), other)
  BY <1>2, DeleteKeepsKeys
<1>4. \A i \in items : i = <<i[1], i[2]>> /\ i[1] \in Tables /\ HasKey(f[i[1]], i[2])
  BY DEF Holds, Target
<1> QED BY <1>1, <1>3, <1>4 DEF Holds

LEMMA KeptStep ==
    ASSUME TypeOK, Progress, Contents, Sequence, Kept, [Next]_vars
    PROVE  Kept'
<1> USE DEF TypeOK
<1>1. ASSUME file' = file, upset \subseteq upset', acked' = acked,
             \A c \in Connections : pc'[c] = "idle" \/ UNCHANGED <<pc[c], op[c], target[c], snap[c]>>
      PROVE  Kept'
  BY <1>1 DEF Kept
<1>2. ASSUME NEW c \in Connections, Ends(c), UNCHANGED <<fileVars, history>>
      PROVE  Kept'
  BY <1>1, <1>2 DEF Ends, fileVars, history
<1>3. ASSUME NEW c \in Connections, DeleteItem(c)
      PROVE  Kept'
  <2> SUFFICES ASSUME upset' = {} PROVE Kept'
    BY DEF Kept
  <2>1. /\ upset = {} /\ file \in Config /\ UNCHANGED <<file, acked>>
        /\ \A d \in Connections : pc[d] = "idle"
    BY <1>3 DEF DeleteItem, Extracts, Begins, Changing, fileVars
  <2>2. Holds(file, acked)
    BY <2>1 DEF Kept
  <2>3. PICK t \in Tables : \E k \in Keys(t) :
           /\ HasKey(file[t], k)
           /\ snap' = [snap EXCEPT ![c] = Removed(file, t, k)]
           /\ target' = [target EXCEPT ![c] = <<t, k>>]
    BY <1>3 DEF DeleteItem, Removed
  <2>4. PICK k \in Keys(t) :
           /\ HasKey(file[t], k)
           /\ snap' = [snap EXCEPT ![c] = Removed(file, t, k)]
           /\ target' = [target EXCEPT ![c] = <<t, k>>]
    BY <2>3
  <2>5. Holds(Removed(file, t, k), acked \ {<<t, k>>})
    BY <2>1, <2>2, <2>4, RemovedHolds
  <2>6. snap'[c] = Removed(file, t, k) /\ target'[c] = <<t, k>>
    BY <2>4
  <2>7. op'[c] = "delete" /\ pc' = [pc EXCEPT ![c] = "saving"]
    BY <1>3 DEF DeleteItem
  <2>8. Holds(file', acked') /\ Holds(snap'[c], acked' \ {target'[c]})
    BY <2>1, <2>2, <2>5, <2>6
  <2>9. \A d \in Connections : pc'[d] \in {"saving", "writing"} => d = c
    BY <2>1, <2>7
  <2> QED BY <2>7, <2>8, <2>9 DEF Kept
<1>4. ASSUME NEW c \in Connections, ReadToAdd(c)
      PROVE  Kept'
  <2>1. /\ file' = file /\ acked' = acked /\ upset \subseteq upset'
        /\ pc' = [pc EXCEPT ![c] = "ready"]
        /\ \A d \in Connections \ {c} : UNCHANGED <<pc[d], op[d], target[d], snap[d]>>
    BY <1>4 DEF ReadToAdd, Begins, fileVars
  <2> QED BY <2>1 DEF Kept
<1>5. ASSUME NEW c \in Connections, AddItem(c)
      PROVE  Kept'
  <2> SUFFICES ASSUME upset' = {} PROVE Kept'
    BY DEF Kept
  <2>1. /\ upset = {} /\ pc[c] = "ready" /\ UNCHANGED <<file, acked, op>>
        /\ pc' = [pc EXCEPT ![c] = "saving"] /\ op[c] = "add"
    BY <1>5 DEF AddItem, fileVars, history
  <2>2. file \in Config /\ snap[c] = file /\ \A d \in Connections \ {c} : pc[d] = "idle"
    BY <2>1 DEF Sequence
  <2>3. Holds(file, acked) /\ UsersHaveHash(file)
    BY <2>1, <2>2 DEF Kept, Contents
  <2>4. PICK t \in Tables : \E payload \in Payloads(t) :
           /\ Storable(snap[c], t, payload)
           /\ snap' = [snap EXCEPT ![c] = Stored(snap[c], t, StoredItem(snap[c], t, payload))]
           /\ target' = [target EXCEPT ![c] = <<t, payload.key>>]
    BY <1>5, AddItemIs
  <2>5. PICK payload \in Payloads(t) :
           /\ Storable(snap[c], t, payload)
           /\ snap' = [snap EXCEPT ![c] = Stored(snap[c], t, StoredItem(snap[c], t, payload))]
           /\ target' = [target EXCEPT ![c] = <<t, payload.key>>]
    BY <2>4
  <2> DEFINE item == StoredItem(file, t, payload)
  <2>6. item \in Item(t) /\ item.key = payload.key
    BY <2>2, <2>3, <2>5, StoredItemProperties
  <2>7. snap'[c] = Stored(file, t, item) /\ target'[c] = <<t, payload.key>>
    BY <2>2, <2>5
  <2> HIDE DEF item
  <2>8. Holds(Stored(file, t, item), acked \cup {<<t, item.key>>})
    BY <2>2, <2>3, <2>6, StoredHolds
  <2>9. Holds(snap'[c], acked \cup {target'[c]})
    BY <2>6, <2>7, <2>8
  <2> QED BY <2>1, <2>2, <2>3, <2>9 DEF Kept
<1>6. ASSUME NEW c \in Connections, OpenToWrite(c)
      PROVE  Kept'
  BY <1>6, FileAssumption DEF OpenToWrite, SetFile, Kept
<1>7. ASSUME NEW c \in Connections, WriteContents(c)
      PROVE  Kept'
  <2> SUFFICES ASSUME upset' = {} PROVE Kept'
    BY DEF Kept
  <2>1. upset = {} /\ file = Blank /\ pc[c] = "writing"
    BY <1>7 DEF WriteContents, Mixes
  <2>2. file' = snap[c]
    BY <1>7, <2>1 DEF WriteContents, Outcomes, SetFile
  <2>3. Holds(snap[c], acked')
    BY <1>7, <2>1 DEF WriteContents, Kept, Holds
  <2>4. \A d \in Connections : pc'[d] = "idle"
    BY <1>7, <2>1 DEF WriteContents, Ends, Sequence
  <2> QED BY <2>2, <2>3, <2>4 DEF Kept
<1>8. ASSUME NEW c \in Connections, WriteFails(c)
      PROVE  Kept'
  BY <1>8 DEF WriteFails, Kept
<1>9. ASSUME Crash
      PROVE  Kept'
  BY <1>1, <1>9 DEF Crash
<1>10. ASSUME UNCHANGED <<file, pc, op, target, snap, acked, upset>>
       PROVE  Kept'
  BY <1>1, <1>10
<1>11. ASSUME NEW c \in Connections, ClientStep(c)
       PROVE  Kept'
  <2>1. CASE Arrive(c)
    BY <2>1, <1>3, <1>4, <1>10
       DEF Arrive, Reject, List, DeleteMissing, LocalAuth, LocalAuthFails,
           vars, fileVars, clientVars, history
  <2>2. CASE Handle(c)
    BY <2>2, <1>2, <1>5 DEF Handle, BadBody, AddUserRefused
  <2>3. CASE Save(c)
    BY <2>3, <1>2, <1>6, <1>7, <1>8 DEF Save, OpenFails
  <2>4. CASE Disconnect(c) \/ DisconnectDuringSave(c)
    BY <2>4, <1>2, <1>10 DEF Disconnect, DisconnectDuringSave, fileVars, history
  <2> QED BY <1>11, <2>1, <2>2, <2>3, <2>4 DEF ClientStep
<1>12. CASE Server
  <2>1. CASE ReloadFails
    BY <1>1, <2>1 DEF ReloadFails, fileVars, history
  <2> QED BY <1>12, <1>9, <1>10, <2>1
          DEF Server, Reload, Restart, Build, fileVars, clientVars
<1> QED BY <1>10, <1>11, <1>12 DEF Next, vars, fileVars, clientVars, history

\* What overlapping changes can lose (run admin_lost_update) a sequence of them cannot,
\* for any number of connections: an item whose add was acknowledged is in the file
\* until it is deleted.
THEOREM SequentialAckedIsStoredAlways == Spec => []SequentialAckedIsStored
<1>1. Init => Kept
  BY DEF Init, Kept, Holds
<1>2. TypeOK /\ Progress /\ Contents /\ Sequence /\ Kept /\ [Next]_vars => Kept'
  BY KeptStep
<1>3. Kept => SequentialAckedIsStored
  BY DEF Kept, Holds, SequentialAckedIsStored, AckedIsStored
<1> QED BY <1>1, <1>2, <1>3, Base, Sequential, PTL DEF Spec
=============================================================================
