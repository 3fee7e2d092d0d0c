------------------------ MODULE SettingsSnapshotProofs ------------------------
(***************************************************************************)
(* A process never reads behind a write of its own, and a prime is never   *)
(* older than its bound, for any number of tenants, callers and changes    *)
(* and any cache, as long as no tenant is forgotten while something of it  *)
(* is under way.                                                           *)
(*                                                                         *)
(* The reads of a tenant are kept in the order they began, so what they    *)
(* have seen grows along it and those overtaken are a prefix; a read that  *)
(* is not overtaken has seen every write that is resolved, and one that is *)
(* has nothing to add to what is held.                                     *)
(***************************************************************************)
EXTENDS SettingsSnapshot, TLAPS

ReadRec == [kind : {"load", "reload", "stray", "set"}, seen : Nat, overtaken : BOOLEAN]

Typed ==
    /\ now \in Nat /\ torn \in Nat
    /\ log \in Seq([tenant : Tenant, at : Nat])
    /\ snap \in [Tenant -> Nat \cup {None}]
    /\ reads \in [Tenant -> Seq(ReadRec)]
    /\ saved \in [Tenant -> Nat] /\ wrote \in [Tenant -> Nat]

\* The newest change of a tenant exists: it is kept by every commit.
NewestExists == \A t \in Tenant :
    \E r \in Of(t) \cup {0} : \A q \in Of(t) : q <= r

\* Of the reads rs of one tenant, with the value held, the unresolved set(), the
\* last resolved one and the newest change.
Ordered(rs) == \A i, j \in 1 .. Len(rs) : i < j =>
    rs[i].seen <= rs[j].seen /\ (rs[j].overtaken => rs[i].overtaken)
OneSet(rs, sv) ==
    /\ \A i, j \in 1 .. Len(rs) : rs[i].kind = "set" /\ rs[j].kind = "set" => i = j
    /\ \A i \in 1 .. Len(rs) : rs[i].kind = "set" => sv # 0 /\ sv <= rs[i].seen
Current(rs, sn, wr) == \A i \in 1 .. Len(rs) :
    /\ ~rs[i].overtaken => wr <= rs[i].seen
    /\ rs[i].overtaken => sn # None /\ rs[i].seen <= sn
Past(rs, sv, wr, n) == (\A i \in 1 .. Len(rs) : rs[i].seen <= n) /\ sv <= n /\ wr <= n

Sound(rs, sn, sv, wr, n) ==
    /\ Ordered(rs) /\ OneSet(rs, sv) /\ Current(rs, sn, wr) /\ Past(rs, sv, wr, n)
    /\ sn # None => wr <= sn

IInv == Typed /\ NewestExists
        /\ \A t \in Tenant : Sound(reads[t], snap[t], saved[t], wrote[t], Newest(t))

-----------------------------------------------------------------------------
(***************************************************************************)
(* The reads of one tenant.                                                *)
(***************************************************************************)
Drop(rs, i) == [j \in 1 .. (Len(rs) - 1) |-> rs[IF j < i THEN j ELSE j + 1]]
Marked(rs, i) == [j \in DOMAIN rs |-> [rs[j] EXCEPT !.overtaken = j < i]]
IsSet(r) == r.kind = "set"

LEMMA Fields ==
    ASSUME NEW rs \in Seq(ReadRec), NEW i \in 1 .. Len(rs)
    PROVE  rs[i] \in ReadRec /\ rs[i].seen \in Nat
<1>1. rs[i] \in ReadRec
    OBVIOUS
<1> QED BY <1>1 DEF ReadRec

LEMMA AppendIsSound ==
    ASSUME NEW rs \in Seq(ReadRec), NEW sn \in Nat \cup {None}, NEW sv \in Nat, NEW wr \in Nat,
           NEW n \in Nat, NEW kind \in {"load", "reload", "set"}, Sound(rs, sn, sv, wr, n),
           kind = "set" => sv # 0 /\ \A i \in 1 .. Len(rs) : rs[i].kind # "set"
    PROVE  /\ Append(rs, Read(kind, n)) \in Seq(ReadRec)
           /\ Sound(Append(rs, Read(kind, n)), sn, sv, wr, n)
<1> DEFINE r == Read(kind, n)
           ss == Append(rs, r)
<1>1. r \in ReadRec /\ r.kind = kind /\ r.seen = n /\ r.overtaken = FALSE
    BY DEF Read, ReadRec
<1>2. /\ ss \in Seq(ReadRec) /\ Len(ss) = Len(rs) + 1 /\ Len(rs) \in Nat
      /\ \A i \in 1 .. Len(rs) : ss[i] = rs[i] /\ rs[i] \in ReadRec
      /\ ss[Len(rs) + 1] = r
    BY <1>1
<1> HIDE DEF r, ss
<1>3. Ordered(ss)
  <2> SUFFICES ASSUME NEW i \in 1 .. Len(ss), NEW j \in 1 .. Len(ss), i < j
               PROVE  ss[i].seen <= ss[j].seen /\ (ss[j].overtaken => ss[i].overtaken)
      BY DEF Ordered
  <2>1. i \in 1 .. Len(rs) /\ ss[i] = rs[i]
      BY <1>2
  <2>2. CASE j = Len(rs) + 1
      BY <1>1, <1>2, <2>1, <2>2 DEF Sound, Past
  <2>3. CASE j # Len(rs) + 1
    <3>1. j \in 1 .. Len(rs) /\ ss[j] = rs[j]
        BY <1>2, <2>3
    <3> QED BY <2>1, <3>1 DEF Sound, Ordered
  <2> QED BY <2>2, <2>3
<1>4. OneSet(ss, sv)
  <2>1. ASSUME NEW i \in 1 .. Len(ss), ss[i].kind = "set"
        PROVE  /\ sv # 0 /\ sv <= ss[i].seen
               /\ i = Len(rs) + 1 <=> kind = "set"
    <3>1. CASE i = Len(rs) + 1
        BY <1>1, <1>2, <2>1, <3>1 DEF Sound, Past
    <3>2. CASE i # Len(rs) + 1
      <4>1. i \in 1 .. Len(rs) /\ ss[i] = rs[i]
          BY <1>2, <3>2
      <4> QED BY <2>1, <3>2, <4>1 DEF Sound, OneSet
    <3> QED BY <3>1, <3>2
  <2>2. ASSUME NEW i \in 1 .. Len(ss), NEW j \in 1 .. Len(ss), ss[i].kind = "set", ss[j].kind = "set"
        PROVE  i = j
    <3>1. CASE kind = "set"
        BY <2>1, <2>2, <3>1
    <3>2. CASE kind # "set"
      <4>1. i # Len(rs) + 1 /\ j # Len(rs) + 1
          BY <2>1, <2>2, <3>2
      <4>2. i \in 1 .. Len(rs) /\ j \in 1 .. Len(rs) /\ ss[i] = rs[i] /\ ss[j] = rs[j]
          BY <1>2, <4>1
      <4> QED BY <2>2, <4>2 DEF Sound, OneSet
    <3> QED BY <3>1, <3>2
  <2> QED BY <2>1, <2>2 DEF OneSet
<1>5. Current(ss, sn, wr)
  <2> SUFFICES ASSUME NEW i \in 1 .. Len(ss)
               PROVE  /\ ~ss[i].overtaken => wr <= ss[i].seen
                      /\ ss[i].overtaken => sn # None /\ ss[i].seen <= sn
      BY DEF Current
  <2>1. CASE i = Len(rs) + 1
      BY <1>1, <1>2, <2>1 DEF Sound, Past
  <2>2. CASE i # Len(rs) + 1
    <3>1. i \in 1 .. Len(rs) /\ ss[i] = rs[i]
        BY <1>2, <2>2
    <3> QED BY <3>1 DEF Sound, Current
  <2> QED BY <2>1, <2>2
<1>6. Past(ss, sv, wr, n)
  <2>1. ASSUME NEW i \in 1 .. Len(ss) PROVE ss[i].seen <= n
    <3>1. CASE i = Len(rs) + 1
        BY <1>1, <1>2, <3>1
    <3>2. CASE i # Len(rs) + 1
      <4>1. i \in 1 .. Len(rs) /\ ss[i] = rs[i]
          BY <1>2, <3>2
      <4> QED BY <4>1 DEF Sound, Past
    <3> QED BY <3>1, <3>2
  <2> QED BY <2>1 DEF Sound, Past
<1> QED BY <1>2, <1>3, <1>4, <1>5, <1>6 DEF Sound, ss, r

\* A change is committed.
LEMMA GrowthIsSound ==
    ASSUME NEW rs \in Seq(ReadRec), NEW sn, NEW sv \in Nat, NEW wr \in Nat, NEW n \in Nat,
           NEW m \in Nat, n <= m, Sound(rs, sn, sv, wr, n)
    PROVE  Sound(rs, sn, sv, wr, m)
<1>1. \A i \in 1 .. Len(rs) : rs[i].seen \in Nat
    BY Fields
<1> QED BY <1>1 DEF Sound, Past

\* set() commits.
LEMMA SaveIsSound ==
    ASSUME NEW rs, NEW sn, NEW wr, NEW n \in Nat, NEW v \in Nat, v <= n, Sound(rs, sn, 0, wr, n)
    PROVE  Sound(rs, sn, v, wr, n)
    BY DEF Sound, OneSet, Past

\* Where the j-th read stood before the i-th was dropped.
From(i, j) == IF j < i THEN j ELSE j + 1

LEMMA DropIsShort ==
    ASSUME NEW rs \in Seq(ReadRec), NEW i \in 1 .. Len(rs)
    PROVE  Drop(rs, i) \in Seq(ReadRec) /\ Len(Drop(rs, i)) = Len(rs) - 1
<1>1. Len(rs) - 1 \in Nat /\ Len(rs) \in Nat
    OBVIOUS
<1>2. \A j \in 1 .. (Len(rs) - 1) : rs[IF j < i THEN j ELSE j + 1] \in ReadRec
    BY <1>1
<1>3. Drop(rs, i) \in [1 .. (Len(rs) - 1) -> ReadRec]
    BY <1>2 DEF Drop
<1> QED BY <1>1, <1>3

LEMMA Dropped ==
    ASSUME NEW rs \in Seq(ReadRec), NEW i \in 1 .. Len(rs), NEW j \in 1 .. Len(Drop(rs, i))
    PROVE  /\ From(i, j) \in 1 .. Len(rs) /\ From(i, j) # i /\ (From(i, j) < i <=> j < i)
           /\ Drop(rs, i)[j] = rs[From(i, j)]
           /\ Drop(rs, i)[j] \in ReadRec /\ Drop(rs, i)[j].seen \in Nat
<1>1. Len(Drop(rs, i)) = Len(rs) - 1 /\ Len(rs) \in Nat /\ Drop(rs, i) \in Seq(ReadRec)
    BY DropIsShort
<1>2. From(i, j) \in 1 .. Len(rs) /\ From(i, j) # i /\ (From(i, j) < i <=> j < i)
    BY <1>1 DEF From
<1>3. Drop(rs, i)[j] = rs[From(i, j)]
    BY <1>1 DEF Drop, From
<1> QED BY <1>1, <1>2, <1>3, Fields

LEMMA DroppedInOrder ==
    ASSUME NEW rs \in Seq(ReadRec), NEW i \in 1 .. Len(rs),
           NEW j \in 1 .. Len(Drop(rs, i)), NEW k \in 1 .. Len(Drop(rs, i))
    PROVE  (j < k => From(i, j) < From(i, k)) /\ (From(i, j) = From(i, k) => j = k)
<1>1. Len(Drop(rs, i)) = Len(rs) - 1 /\ Len(rs) \in Nat
    BY DropIsShort
<1> QED BY <1>1 DEF From

\* A read raises, or an overtaken one lands and is dropped.
LEMMA DropIsSound ==
    ASSUME NEW rs \in Seq(ReadRec), NEW sn \in Nat \cup {None}, NEW sv \in Nat, NEW wr \in Nat,
           NEW n \in Nat, NEW i \in 1 .. Len(rs), Sound(rs, sn, sv, wr, n)
    PROVE  Sound(Drop(rs, i), sn, IF IsSet(rs[i]) THEN 0 ELSE sv, wr, n)
<1> DEFINE v == IF IsSet(rs[i]) THEN 0 ELSE sv
<1>1. Ordered(Drop(rs, i))
  <2> SUFFICES ASSUME NEW j \in 1 .. Len(Drop(rs, i)), NEW k \in 1 .. Len(Drop(rs, i)), j < k
               PROVE  /\ Drop(rs, i)[j].seen <= Drop(rs, i)[k].seen
                      /\ Drop(rs, i)[k].overtaken => Drop(rs, i)[j].overtaken
      BY DEF Ordered
  <2>1. /\ From(i, j) \in 1 .. Len(rs) /\ Drop(rs, i)[j] = rs[From(i, j)]
        /\ From(i, k) \in 1 .. Len(rs) /\ Drop(rs, i)[k] = rs[From(i, k)]
      BY Dropped
  <2>2. From(i, j) < From(i, k)
      BY DroppedInOrder
  <2> QED BY <2>1, <2>2 DEF Sound, Ordered
<1>2. OneSet(Drop(rs, i), v)
  <2>1. ASSUME NEW j \in 1 .. Len(Drop(rs, i)), Drop(rs, i)[j].kind = "set"
        PROVE  v # 0 /\ v <= Drop(rs, i)[j].seen
    <3>1. From(i, j) \in 1 .. Len(rs) /\ From(i, j) # i /\ rs[From(i, j)].kind = "set"
          /\ Drop(rs, i)[j] = rs[From(i, j)]
        BY <2>1, Dropped
    <3>2. ~IsSet(rs[i]) /\ sv # 0 /\ sv <= rs[From(i, j)].seen
        BY <3>1 DEF Sound, OneSet, IsSet
    <3> QED BY <3>1, <3>2
  <2>2. ASSUME NEW j \in 1 .. Len(Drop(rs, i)), NEW k \in 1 .. Len(Drop(rs, i)),
               Drop(rs, i)[j].kind = "set", Drop(rs, i)[k].kind = "set"
        PROVE  j = k
    <3>1. /\ From(i, j) \in 1 .. Len(rs) /\ rs[From(i, j)].kind = "set"
          /\ From(i, k) \in 1 .. Len(rs) /\ rs[From(i, k)].kind = "set"
        BY <2>2, Dropped
    <3>2. From(i, j) = From(i, k)
        BY <3>1 DEF Sound, OneSet
    <3> QED BY <3>2, DroppedInOrder
  <2> QED BY <2>1, <2>2 DEF OneSet
<1>3. Current(Drop(rs, i), sn, wr)
  <2> SUFFICES ASSUME NEW j \in 1 .. Len(Drop(rs, i))
               PROVE  /\ ~Drop(rs, i)[j].overtaken => wr <= Drop(rs, i)[j].seen
                      /\ Drop(rs, i)[j].overtaken => sn # None /\ Drop(rs, i)[j].seen <= sn
      BY DEF Current
  <2> QED BY Dropped DEF Sound, Current
<1>4. Past(Drop(rs, i), v, wr, n)
  <2>1. \A j \in 1 .. Len(Drop(rs, i)) : Drop(rs, i)[j].seen <= n
      BY Dropped DEF Sound, Past
  <2> QED BY <2>1 DEF Sound, Past
<1> QED BY <1>1, <1>2, <1>3, <1>4 DEF Sound

\* What began after a read has seen as much, and is overtaken only with it.
LEMMA AfterIt ==
    ASSUME NEW rs \in Seq(ReadRec), NEW sn, NEW sv, NEW wr, NEW n,
           NEW i \in 1 .. Len(rs), NEW j \in 1 .. Len(Drop(rs, i)), Sound(rs, sn, sv, wr, n)
    PROVE  /\ j < i => /\ Drop(rs, i)[j].seen <= rs[i].seen
                       /\ rs[i].overtaken => Drop(rs, i)[j].overtaken
           /\ ~(j < i) => rs[i].seen <= Drop(rs, i)[j].seen
<1>1. /\ From(i, j) \in 1 .. Len(rs) /\ From(i, j) # i /\ (From(i, j) < i <=> j < i)
      /\ Drop(rs, i)[j] = rs[From(i, j)]
    BY Dropped
<1>2. CASE j < i
    BY <1>1, <1>2 DEF Sound, Ordered
<1>3. CASE ~(j < i)
  <2>1. i < From(i, j)
      BY <1>1, <1>3
  <2> QED BY <1>1, <1>3, <2>1 DEF Sound, Ordered
<1> QED BY <1>2, <1>3

\* A set() whose read back was overtaken resolves all the same.
LEMMA OvertakenSetIsSound ==
    ASSUME NEW rs \in Seq(ReadRec), NEW sn \in Nat \cup {None}, NEW sv \in Nat, NEW wr \in Nat,
           NEW n \in Nat, NEW i \in 1 .. Len(rs), Sound(rs, sn, sv, wr, n),
           IsSet(rs[i]), rs[i].overtaken
    PROVE  Sound(Drop(rs, i), sn, 0, sv, n)
<1>1. Sound(Drop(rs, i), sn, 0, wr, n)
    BY DropIsSound
<1>2. sn # None /\ sv <= rs[i].seen /\ rs[i].seen <= sn /\ rs[i].seen \in Nat /\ sn \in Nat
    BY Fields DEF Sound, OneSet, Current, IsSet
<1>3. Current(Drop(rs, i), sn, sv)
  <2>1. ASSUME NEW j \in 1 .. Len(Drop(rs, i)), ~Drop(rs, i)[j].overtaken
        PROVE  sv <= Drop(rs, i)[j].seen
    <3>1. rs[i].seen <= Drop(rs, i)[j].seen
        BY <2>1, AfterIt
    <3> QED BY <1>2, <3>1, Dropped
  <2> QED BY <1>1, <2>1 DEF Sound, Current
<1>4. Past(Drop(rs, i), 0, sv, n) /\ sv <= sn
    BY <1>1, <1>2 DEF Sound, Past
<1> QED BY <1>1, <1>3, <1>4 DEF Sound

LEMMA MarkedIsTyped ==
    ASSUME NEW ds \in Seq(ReadRec), NEW i \in Nat
    PROVE  /\ Marked(ds, i) \in Seq(ReadRec) /\ Len(Marked(ds, i)) = Len(ds)
           /\ \A j \in 1 .. Len(ds) :
                /\ Marked(ds, i)[j].seen = ds[j].seen /\ Marked(ds, i)[j].kind = ds[j].kind
                /\ Marked(ds, i)[j].overtaken <=> j < i
<1>1. DOMAIN ds = 1 .. Len(ds) /\ Len(ds) \in Nat
    OBVIOUS
<1>2. \A j \in 1 .. Len(ds) : ds[j] \in ReadRec
    OBVIOUS
<1>3. ASSUME NEW x \in ReadRec, NEW b \in BOOLEAN
      PROVE  LET y == [x EXCEPT !.overtaken = b]
             IN  y \in ReadRec /\ y.seen = x.seen /\ y.kind = x.kind /\ (y.overtaken <=> b)
    BY DEF ReadRec
<1>4. \A j \in 1 .. Len(ds) : Marked(ds, i)[j] = [ds[j] EXCEPT !.overtaken = j < i]
    BY <1>1 DEF Marked
<1>5. \A j \in 1 .. Len(ds) :
        /\ Marked(ds, i)[j] \in ReadRec
        /\ Marked(ds, i)[j].seen = ds[j].seen /\ Marked(ds, i)[j].kind = ds[j].kind
        /\ Marked(ds, i)[j].overtaken <=> j < i
  <2> TAKE j \in 1 .. Len(ds)
  <2>1. ds[j] \in ReadRec
      BY <1>2
  <2>2. CASE j < i
    <3>1. Marked(ds, i)[j] = [ds[j] EXCEPT !.overtaken = TRUE]
        BY <1>4, <2>2
    <3> QED BY <1>3, <2>1, <2>2, <3>1
  <2>3. CASE ~(j < i)
    <3>1. (j < i) = FALSE
        BY <2>3
    <3>2. Marked(ds, i)[j] = [ds[j] EXCEPT !.overtaken = FALSE]
        BY <1>4, <3>1, Zenon
    <3> QED BY <1>3, <2>1, <2>3, <3>2
  <2> QED BY <2>2, <2>3
<1>6. Marked(ds, i) \in [1 .. Len(ds) -> ReadRec]
  <2>1. Marked(ds, i) = [j \in 1 .. Len(ds) |-> Marked(ds, i)[j]]
      BY <1>1 DEF Marked
  <2> QED BY <1>5, <2>1
<1> QED BY <1>1, <1>5, <1>6

\* A read that is not overtaken lands.
LEMMA LandingIsSound ==
    ASSUME NEW rs \in Seq(ReadRec), NEW sn \in Nat \cup {None}, NEW sv \in Nat, NEW wr \in Nat,
           NEW n \in Nat, NEW i \in 1 .. Len(rs), Sound(rs, sn, sv, wr, n),
           ~rs[i].overtaken, NEW value \in Nat, rs[i].seen <= value
    PROVE  /\ Marked(Drop(rs, i), i) \in Seq(ReadRec)
           /\ Sound(Marked(Drop(rs, i), i), value, IF IsSet(rs[i]) THEN 0 ELSE sv,
                    IF IsSet(rs[i]) THEN sv ELSE wr, n)
<1> DEFINE ds == Drop(rs, i)
           ss == Marked(ds, i)
           v == IF IsSet(rs[i]) THEN 0 ELSE sv
           w == IF IsSet(rs[i]) THEN sv ELSE wr
<1>1. Sound(ds, sn, v, wr, n) /\ ds \in Seq(ReadRec)
    BY DropIsSound, DropIsShort
<1>2. /\ ss \in Seq(ReadRec) /\ Len(ss) = Len(ds)
      /\ \A j \in 1 .. Len(ds) : /\ ss[j].seen = ds[j].seen /\ ss[j].kind = ds[j].kind
                                 /\ ss[j].overtaken <=> j < i
    BY <1>1, MarkedIsTyped
<1>3. /\ \A j \in 1 .. Len(ds) : ds[j].seen \in Nat /\ (j < i => ds[j].seen <= rs[i].seen)
                                 /\ (~(j < i) => rs[i].seen <= ds[j].seen)
      /\ rs[i].seen \in Nat
    BY Dropped, AfterIt, Fields
<1>4. w \in Nat /\ w <= rs[i].seen /\ rs[i].seen <= n
    BY DEF Sound, OneSet, Current, IsSet, Past
<1> HIDE DEF ss, ds, v, w
<1>5. Ordered(ss)
  <2> SUFFICES ASSUME NEW j \in 1 .. Len(ds), NEW k \in 1 .. Len(ds), j < k
               PROVE  ss[j].seen <= ss[k].seen /\ (ss[k].overtaken => ss[j].overtaken)
      BY <1>2 DEF Ordered
  <2>1. ds[j].seen <= ds[k].seen
      BY <1>1 DEF Sound, Ordered
  <2>2. k < i => j < i
      BY <1>1
  <2> QED BY <1>2, <2>1, <2>2
<1>6. OneSet(ss, v)
    BY <1>1, <1>2 DEF Sound, OneSet
<1>7. Current(ss, value, w)
  <2> SUFFICES ASSUME NEW j \in 1 .. Len(ds)
               PROVE  /\ ~ss[j].overtaken => w <= ss[j].seen
                      /\ ss[j].overtaken => value # None /\ ss[j].seen <= value
      BY <1>2 DEF Current
  <2>1. value # None
      BY SettingsAssumption
  <2>2. /\ ss[j].seen = ds[j].seen /\ (ss[j].overtaken <=> j < i) /\ ds[j].seen \in Nat
        /\ j < i => ds[j].seen <= rs[i].seen
        /\ ~(j < i) => rs[i].seen <= ds[j].seen
      BY <1>2, <1>3
  <2>3. CASE j < i
    <3>1. ss[j].overtaken /\ ss[j].seen <= rs[i].seen /\ ss[j].seen \in Nat /\ rs[i].seen \in Nat
        BY <1>3, <2>2, <2>3
    <3> QED BY <2>1, <3>1
  <2>4. CASE ~(j < i)
    <3>1. ~ss[j].overtaken /\ rs[i].seen <= ss[j].seen /\ ss[j].seen \in Nat /\ rs[i].seen \in Nat
        BY <1>3, <2>2, <2>4
    <3> QED BY <1>4, <3>1
  <2> QED BY <2>3, <2>4
<1>8. Past(ss, v, w, n) /\ w <= value
  <2>1. w <= n /\ w <= value
      BY <1>3, <1>4
  <2> QED BY <1>1, <1>2, <2>1 DEF Sound, Past
<1> QED BY <1>2, <1>5, <1>6, <1>7, <1>8 DEF Sound, ss, ds, v, w

LEMMA StrayIsSound ==
    ASSUME NEW rs \in Seq(ReadRec), NEW sn, NEW sv, NEW wr, NEW n, Sound(rs, sn, sv, wr, n)
    PROVE  Stray(rs) \in Seq(ReadRec) /\ Sound(Stray(rs), sn, sv, wr, n)
<1>1. DOMAIN rs = 1 .. Len(rs) /\ Len(rs) \in Nat /\ (\A i \in 1 .. Len(rs) : rs[i] \in ReadRec)
    OBVIOUS
<1>2. ASSUME NEW x \in ReadRec
      PROVE  LET y == [x EXCEPT !.kind = "stray"]
             IN  y \in ReadRec /\ y.seen = x.seen /\ y.overtaken = x.overtaken /\ y.kind = "stray"
    BY DEF ReadRec
<1>3. \A i \in 1 .. Len(rs) :
        /\ Stray(rs)[i] \in ReadRec
        /\ Stray(rs)[i].seen = rs[i].seen /\ Stray(rs)[i].overtaken = rs[i].overtaken
        /\ Stray(rs)[i].kind = "set" <=> rs[i].kind = "set"
  <2> TAKE i \in 1 .. Len(rs)
  <2>1. CASE rs[i].kind = "reload"
    <3>1. Stray(rs)[i] = [rs[i] EXCEPT !.kind = "stray"]
        BY <1>1, <2>1 DEF Stray
    <3> QED BY <1>1, <1>2, <2>1, <3>1
  <2>2. CASE rs[i].kind # "reload"
      BY <1>1, <2>2 DEF Stray
  <2> QED BY <2>1, <2>2
<1>4. Stray(rs) = [i \in 1 .. Len(rs) |-> Stray(rs)[i]]
    BY <1>1 DEF Stray
<1>5. Stray(rs) \in Seq(ReadRec) /\ Len(Stray(rs)) = Len(rs)
  <2>1. Stray(rs) \in [1 .. Len(rs) -> ReadRec]
      BY <1>3, <1>4
  <2> QED BY <1>1, <2>1
<1>6. Ordered(Stray(rs))
    BY <1>3, <1>5 DEF Sound, Ordered
<1>7. OneSet(Stray(rs), sv)
    BY <1>3, <1>5 DEF Sound, OneSet
<1>8. Current(Stray(rs), sn, wr) /\ Past(Stray(rs), sv, wr, n)
    BY <1>3, <1>5 DEF Sound, Current, Past
<1> QED BY <1>5, <1>6, <1>7, <1>8 DEF Sound

\* What is evicted has no read under way.
LEMMA EvictionIsSound ==
    ASSUME NEW sn, NEW sv, NEW wr, NEW n, Sound(<<>>, sn, sv, wr, n)
    PROVE  Sound(<<>>, None, sv, wr, n)
    BY DEF Sound, Current

-----------------------------------------------------------------------------
(***************************************************************************)
(* The newest change, and what a process holds.                            *)
(***************************************************************************)
LEMMA NewestIs ==
    ASSUME Typed, NewestExists, NEW t \in Tenant
    PROVE  /\ Newest(t) \in Of(t) \cup {0} /\ Newest(t) \in Nat
           /\ \A q \in Of(t) : q <= Newest(t)
<1>1. Newest(t) \in Of(t) \cup {0} /\ \A q \in Of(t) : q <= Newest(t)
    BY DEF NewestExists, Newest
<1>2. Of(t) \subseteq Nat
    BY DEF Of, Typed
<1> QED BY <1>1, <1>2

\* Without a change the newest one stays.
LEMMA NewestStays ==
    ASSUME UNCHANGED log, NEW t
    PROVE  Newest(t)' = Newest(t) /\ Of(t)' = Of(t)
    BY DEF Newest, Of

LEMMA CommitGrows ==
    ASSUME Typed, NewestExists, NEW s \in Tenant, Commits(s)
    PROVE  /\ log' \in Seq([tenant : Tenant, at : Nat])
           /\ NewestExists'
           /\ \A t \in Tenant : Newest(t)' \in Nat /\ Newest(t) <= Newest(t)'
           /\ Len(log') \in Nat /\ Len(log') <= Newest(s)'
<1>1. /\ log' = Append(log, [tenant |-> s, at |-> now])
      /\ [tenant |-> s, at |-> now] \in [tenant : Tenant, at : Nat]
      /\ log \in Seq([tenant : Tenant, at : Nat])
    BY DEF Commits, Typed
<1>2. /\ log' \in Seq([tenant : Tenant, at : Nat]) /\ Len(log') = Len(log) + 1 /\ Len(log) \in Nat
      /\ \A r \in 1 .. Len(log) : log'[r] = log[r]
      /\ log'[Len(log) + 1].tenant = s
    BY <1>1
<1>3. DOMAIN log = 1 .. Len(log) /\ DOMAIN log' = 1 .. Len(log) + 1
    BY <1>1, <1>2
<1>4. \A t \in Tenant : Of(t)' = Of(t) \cup (IF t = s THEN {Len(log) + 1} ELSE {})
    BY <1>2, <1>3 DEF Of
<1>5. \A t \in Tenant : Of(t) \subseteq 1 .. Len(log)
    BY <1>3 DEF Of
<1>6. NewestExists'
  <2> SUFFICES ASSUME NEW t \in Tenant
               PROVE  \E r \in Of(t)' \cup {0} : \A q \in Of(t)' : q <= r
      BY DEF NewestExists
  <2>1. CASE t = s
    <3>1. Len(log) + 1 \in Of(t)' /\ \A q \in Of(t)' : q <= Len(log) + 1
        BY <1>2, <1>4, <1>5, <2>1
    <3> QED BY <3>1
  <2>2. CASE t # s
    <3>1. Of(t)' = Of(t)
        BY <1>4, <2>2
    <3> QED BY <3>1 DEF NewestExists
  <2> QED BY <2>1, <2>2
<1>7. ASSUME NEW t \in Tenant
      PROVE  /\ Newest(t)' \in Of(t)' \cup {0} /\ Newest(t)' \in Nat
             /\ \A q \in Of(t)' : q <= Newest(t)'
  <2>1. Newest(t)' \in Of(t)' \cup {0} /\ \A q \in Of(t)' : q <= Newest(t)'
      BY <1>6 DEF NewestExists, Newest
  <2> QED BY <2>1, <1>2, <1>4, <1>5
<1>8. ASSUME NEW t \in Tenant
      PROVE  Newest(t) <= Newest(t)'
  <2>1. Newest(t) \in Of(t) \cup {0}
      BY NewestIs
  <2> QED BY <2>1, <1>4, <1>7
<1>9. Len(log') <= Newest(s)'
    BY <1>2, <1>4, <1>7
<1> QED BY <1>2, <1>6, <1>7, <1>8, <1>9

-----------------------------------------------------------------------------
(***************************************************************************)
(* The steps.                                                              *)
(***************************************************************************)
SoundOf(t) == Sound(reads[t], snap[t], saved[t], wrote[t], Newest(t))

LEMMA InitHolds == Init => IInv
<1> SUFFICES ASSUME Init PROVE IInv
    OBVIOUS
<1>1. Typed
    BY DEF Init, Typed
<1>2. \A t \in Tenant : Of(t) = {}
    BY DEF Init, Of
<1>3. NewestExists
    BY <1>2 DEF NewestExists
<1>4. ASSUME NEW t \in Tenant
      PROVE  Sound(reads[t], snap[t], saved[t], wrote[t], Newest(t))
  <2>1. reads[t] = <<>> /\ snap[t] = None /\ saved[t] = 0 /\ wrote[t] = 0
      BY DEF Init
  <2>2. Newest(t) \in Nat
      BY <1>1, <1>3, NewestIs
  <2> QED BY <2>1, <2>2 DEF Sound, Ordered, OneSet, Current, Past
<1> QED BY <1>1, <1>3, <1>4 DEF IInv

\* A step without a change keeps the invariant if it keeps each tenant sound.
LEMMA StepKeeps ==
    ASSUME IInv, UNCHANGED log, Typed',
           \A t \in Tenant : Sound(reads'[t], snap'[t], saved'[t], wrote'[t], Newest(t))
    PROVE  IInv'
<1>1. \A t : Newest(t)' = Newest(t) /\ Of(t)' = Of(t)
    BY NewestStays
<1>2. NewestExists'
    BY <1>1 DEF IInv, NewestExists
<1> QED BY <1>1, <1>2 DEF IInv

\* Nothing of what the invariant names has changed.
LEMMA QuietKeeps ==
    ASSUME IInv, UNCHANGED <<log, snap, torn, reads, saved, wrote>>, now' \in Nat
    PROVE  IInv'
<1>1. Typed'
    BY DEF IInv, Typed
<1> QED BY <1>1, StepKeeps DEF IInv

LEMMA ChangesKeeps ==
    ASSUME IInv, NEW s \in Tenant, Changes(s)
    PROVE  IInv'
<1>1. /\ Commits(s) /\ UNCHANGED <<now, snap, torn, reads, saved, wrote>>
    BY DEF Changes, held
<1>2. /\ log' \in Seq([tenant : Tenant, at : Nat]) /\ NewestExists'
      /\ \A t \in Tenant : Newest(t)' \in Nat /\ Newest(t) <= Newest(t)'
    BY <1>1, CommitGrows DEF IInv
<1>3. Typed'
    BY <1>1, <1>2 DEF IInv, Typed
<1>4. ASSUME NEW t \in Tenant
      PROVE  Sound(reads[t], snap[t], saved[t], wrote[t], Newest(t)')
  <2>1. Newest(t) \in Nat
      BY NewestIs DEF IInv
  <2>2. /\ reads[t] \in Seq(ReadRec) /\ saved[t] \in Nat /\ wrote[t] \in Nat
        /\ Sound(reads[t], snap[t], saved[t], wrote[t], Newest(t))
      BY DEF IInv, Typed
  <2> QED BY <1>2, <2>1, <2>2, GrowthIsSound
<1> QED BY <1>1, <1>2, <1>3, <1>4 DEF IInv

LEMMA SavesKeeps ==
    ASSUME IInv, NEW s \in Tenant, Saves(s)
    PROVE  IInv'
<1>1. /\ Commits(s) /\ saved[s] = 0 /\ UNCHANGED <<now, snap, torn, reads, wrote>>
      /\ saved' = [saved EXCEPT ![s] = Len(log')]
    BY DEF Saves, held
<1>2. /\ log' \in Seq([tenant : Tenant, at : Nat]) /\ NewestExists'
      /\ \A t \in Tenant : Newest(t)' \in Nat /\ Newest(t) <= Newest(t)'
      /\ Len(log') \in Nat /\ Len(log') <= Newest(s)'
    BY <1>1, CommitGrows DEF IInv
<1>3. Typed'
    BY <1>1, <1>2 DEF IInv, Typed
<1>4. ASSUME NEW t \in Tenant
      PROVE  Sound(reads[t], snap[t], saved'[t], wrote[t], Newest(t)')
  <2>1. Newest(t) \in Nat
      BY NewestIs DEF IInv
  <2>2. /\ reads[t] \in Seq(ReadRec) /\ saved[t] \in Nat /\ wrote[t] \in Nat
        /\ Sound(reads[t], snap[t], saved[t], wrote[t], Newest(t))
      BY DEF IInv, Typed
  <2>3. Sound(reads[t], snap[t], saved[t], wrote[t], Newest(t)')
      BY <1>2, <2>1, <2>2, GrowthIsSound
  <2>4. CASE t = s
    <3>1. saved'[t] = Len(log') /\ saved[t] = 0
        BY <1>1, <2>4 DEF IInv, Typed
    <3> QED BY <1>2, <2>3, <2>4, <3>1, SaveIsSound
  <2>5. CASE t # s
      BY <1>1, <2>3, <2>5 DEF IInv, Typed
  <2> QED BY <2>4, <2>5
<1> QED BY <1>1, <1>2, <1>3, <1>4 DEF IInv

\* A read begins for some tenants.
LEMMA BeginKeeps ==
    ASSUME IInv, UNCHANGED <<now, log, snap, torn, saved, wrote>>,
           NEW kind \in {"load", "reload", "set"},
           NEW S, reads' = [t \in Tenant |-> IF t \in S THEN Append(reads[t], Read(kind, Newest(t)))
                                             ELSE reads[t]],
           kind = "set" => \A t \in S \cap Tenant : saved[t] # 0 /\ ~Reading("set", t)
    PROVE  IInv'
<1>1. ASSUME NEW t \in Tenant
      PROVE  /\ reads'[t] \in Seq(ReadRec)
             /\ Sound(reads'[t], snap[t], saved[t], wrote[t], Newest(t))
  <2>1. /\ reads[t] \in Seq(ReadRec) /\ saved[t] \in Nat /\ wrote[t] \in Nat
        /\ snap[t] \in Nat \cup {None}
        /\ Sound(reads[t], snap[t], saved[t], wrote[t], Newest(t))
        /\ Newest(t) \in Nat
      BY NewestIs DEF IInv, Typed
  <2>2. CASE t \in S
    <3>1. reads'[t] = Append(reads[t], Read(kind, Newest(t)))
        BY <2>2
    <3>2. kind = "set" => saved[t] # 0 /\ \A i \in 1 .. Len(reads[t]) : reads[t][i].kind # "set"
        BY <2>1, <2>2 DEF Reading
    <3> QED BY <2>1, <3>1, <3>2, AppendIsSound
  <2>3. CASE t \notin S
      BY <2>1, <2>3
  <2> QED BY <2>2, <2>3
<1>2. reads' \in [Tenant -> Seq(ReadRec)]
  <2>1. reads' = [t \in Tenant |-> reads'[t]]
      OBVIOUS
  <2> QED BY <1>1, <2>1
<1>3. Typed'
    BY <1>2 DEF IInv, Typed
<1> QED BY <1>1, <1>3, StepKeeps DEF IInv

\* A tenant is held and another one, of which nothing is under way, may go.
LEMMA HoldsIs ==
    ASSUME IInv, torn' = 0, NEW t, NEW value, NEW isPrimed, Holds(t, value, isPrimed),
           t \in Tenant => value \in Nat \cup {None}
    PROVE  /\ snap' \in [Tenant -> Nat \cup {None}] /\ torn' \in Nat
           /\ t \in Tenant => snap'[t] = value
           /\ \A s \in Tenant \ {t} :
                snap'[s] = snap[s] \/ (snap'[s] = None /\ reads[s] = <<>>)
<1> DEFINE out == Evicted(t)
<1>1. /\ snap' = [s \in Tenant |-> IF s = t THEN value ELSE IF s \in out THEN None ELSE snap[s]]
      /\ torn' = torn + (IF \E s \in out : UnderWay(s) THEN 1 ELSE 0) /\ torn' = 0
    BY DEF Holds
<1> HIDE DEF out
<1>2. torn \in Nat /\ snap \in [Tenant -> Nat \cup {None}]
    BY DEF IInv, Typed
<1>3. \A s \in out : ~UnderWay(s)
    BY <1>1, <1>2
<1>4. \A s \in out : reads[s] = <<>>
    BY <1>3 DEF UnderWay
<1> QED BY <1>1, <1>2, <1>4

\* What is under way of the other tenants is as it was.
LEMMA OthersKeep ==
    ASSUME IInv, NEW s \in Tenant, reads'[s] = reads[s], saved'[s] = saved[s],
           wrote'[s] = wrote[s],
           snap'[s] = snap[s] \/ (snap'[s] = None /\ reads[s] = <<>>)
    PROVE  Sound(reads'[s], snap'[s], saved'[s], wrote'[s], Newest(s))
<1>1. Sound(reads[s], snap[s], saved[s], wrote[s], Newest(s))
    BY DEF IInv
<1>2. CASE snap'[s] = snap[s]
    BY <1>1, <1>2
<1>3. CASE snap'[s] = None /\ reads[s] = <<>>
    BY <1>1, <1>3, EvictionIsSound
<1> QED BY <1>2, <1>3

LEMMA LandsKeeps ==
    ASSUME IInv, torn' = 0, NEW t \in Tenant, NEW i, Lands(t, i)
    PROVE  IInv'
<1> DEFINE rs == reads[t]
           set == IsSet(rs[i])
<1>1. /\ rs \in Seq(ReadRec) /\ snap[t] \in Nat \cup {None} /\ saved[t] \in Nat /\ wrote[t] \in Nat
      /\ Sound(rs, snap[t], saved[t], wrote[t], Newest(t)) /\ Newest(t) \in Nat
    BY NewestIs DEF IInv, Typed
<1>2. i \in 1 .. Len(rs) /\ rs[i] \in ReadRec /\ rs[i].seen \in Nat
    BY <1>1, Fields DEF Lands
<1>3. Without(t, i) = Drop(rs, i)
    BY DEF Without, Drop
<1>4. PICK value \in {rs[i].seen} \cup {q \in Of(t) : q > rs[i].seen} :
        Holds(t, IF Newer(t, i) THEN value ELSE snap[t], FALSE)
    BY DEF Lands
<1>5. value \in Nat /\ rs[i].seen <= value
  <2>1. Of(t) \subseteq Nat
      BY DEF IInv, Typed, Of
  <2> QED BY <1>2, <2>1
<1> DEFINE v == IF Newer(t, i) THEN value ELSE snap[t]
<1>6. /\ snap' \in [Tenant -> Nat \cup {None}] /\ torn' \in Nat /\ snap'[t] = v
      /\ \A s \in Tenant \ {t} : snap'[s] = snap[s] \/ (snap'[s] = None /\ reads[s] = <<>>)
  <2>1. v \in Nat \cup {None} /\ Holds(t, v, FALSE)
      BY <1>1, <1>4, <1>5
  <2> HIDE DEF v
  <2> QED BY <2>1, HoldsIs
<1>7. reads' = [reads EXCEPT ![t] =
        [j \in DOMAIN Without(t, i) |->
            IF Newer(t, i) THEN [Without(t, i)[j] EXCEPT !.overtaken = j < i]
            ELSE Without(t, i)[j]]]
    BY DEF Lands
<1>8. UNCHANGED <<now, log>> /\ now \in Nat
    BY DEF Lands, IInv, Typed
<1>9. /\ saved' = IF set THEN [saved EXCEPT ![t] = 0] ELSE saved
      /\ wrote' = IF set THEN [wrote EXCEPT ![t] = saved[t]] ELSE wrote
    BY DEF Lands, IsSet
<1>10. /\ saved' \in [Tenant -> Nat] /\ wrote' \in [Tenant -> Nat]
       /\ saved'[t] = (IF set THEN 0 ELSE saved[t])
       /\ wrote'[t] = (IF set THEN saved[t] ELSE wrote[t])
       /\ \A s \in Tenant \ {t} : saved'[s] = saved[s] /\ wrote'[s] = wrote[s]
    BY <1>9 DEF IInv, Typed
<1>11. reads'[t] = IF Newer(t, i) THEN Marked(Drop(rs, i), i) ELSE Drop(rs, i)
  <2>1. CASE Newer(t, i)
      BY <1>3, <1>7, <2>1 DEF IInv, Typed, Marked
  <2>2. CASE ~Newer(t, i)
    <3>1. reads'[t] = [j \in DOMAIN Drop(rs, i) |-> Drop(rs, i)[j]]
        BY <1>3, <1>7, <2>2 DEF IInv, Typed
    <3> QED BY <2>2, <3>1 DEF Drop
  <2> QED BY <2>1, <2>2
<1>12. /\ reads'[t] \in Seq(ReadRec)
       /\ Sound(reads'[t], snap'[t], saved'[t], wrote'[t], Newest(t))
  <2>1. CASE Newer(t, i)
    <3>1. ~rs[i].overtaken
        BY <1>1, <1>2, <2>1 DEF Newer, Sound, Current
    <3>2. reads'[t] = Marked(Drop(rs, i), i) /\ snap'[t] = value
        BY <1>6, <1>11, <2>1
    <3>3. /\ Marked(Drop(rs, i), i) \in Seq(ReadRec)
          /\ Sound(Marked(Drop(rs, i), i), value, IF IsSet(rs[i]) THEN 0 ELSE saved[t],
                   IF IsSet(rs[i]) THEN saved[t] ELSE wrote[t], Newest(t))
      <4> HIDE DEF rs
      <4> QED BY <1>1, <1>2, <1>5, <3>1, LandingIsSound
    <3>4. saved'[t] = (IF IsSet(rs[i]) THEN 0 ELSE saved[t])
          /\ wrote'[t] = (IF IsSet(rs[i]) THEN saved[t] ELSE wrote[t])
        BY <1>10
    <3> HIDE DEF rs, set
    <3> QED BY <3>2, <3>3, <3>4
  <2>2. CASE ~Newer(t, i)
    <3>1. rs[i].overtaken /\ reads'[t] = Drop(rs, i) /\ snap'[t] = snap[t]
        BY <1>6, <1>11, <2>2 DEF Newer
    <3>2. Drop(rs, i) \in Seq(ReadRec)
        BY <1>1, <1>2, DropIsShort
    <3>3. CASE set
      <4>1. saved'[t] = 0 /\ wrote'[t] = saved[t] /\ IsSet(rs[i])
          BY <1>10, <3>3
      <4> HIDE DEF rs, set
      <4> QED BY <1>1, <1>2, <3>1, <3>2, <4>1, OvertakenSetIsSound
    <3>4. CASE ~set
      <4>1. saved'[t] = saved[t] /\ wrote'[t] = wrote[t] /\ ~IsSet(rs[i])
          BY <1>10, <3>4
      <4> HIDE DEF rs, set
      <4>2. Sound(Drop(rs, i), snap[t], saved[t], wrote[t], Newest(t))
          BY <1>1, <1>2, <4>1, DropIsSound
      <4> QED BY <3>1, <3>2, <4>1, <4>2
    <3> QED BY <3>3, <3>4
  <2> QED BY <2>1, <2>2
<1>13. \A s \in Tenant \ {t} : reads'[s] = reads[s]
    BY <1>7 DEF IInv, Typed
<1>14. reads' \in [Tenant -> Seq(ReadRec)]
  <2>1. \A s \in Tenant : reads'[s] \in Seq(ReadRec)
      BY <1>12, <1>13 DEF IInv, Typed
  <2>2. reads' = [s \in Tenant |-> reads'[s]]
      BY <1>7 DEF IInv, Typed
  <2> QED BY <2>1, <2>2
<1>15. Typed'
    BY <1>6, <1>8, <1>10, <1>14 DEF IInv, Typed
<1>16. \A s \in Tenant : Sound(reads'[s], snap'[s], saved'[s], wrote'[s], Newest(s))
    BY <1>6, <1>10, <1>12, <1>13, OthersKeep
<1> QED BY <1>8, <1>15, <1>16, StepKeeps

LEMMA ReadFailsKeeps ==
    ASSUME IInv, NEW t \in Tenant, NEW i, ReadFails(t, i)
    PROVE  IInv'
<1> DEFINE rs == reads[t]
           set == IsSet(rs[i])
<1>1. /\ rs \in Seq(ReadRec) /\ snap[t] \in Nat \cup {None} /\ saved[t] \in Nat /\ wrote[t] \in Nat
      /\ Sound(rs, snap[t], saved[t], wrote[t], Newest(t)) /\ Newest(t) \in Nat
    BY NewestIs DEF IInv, Typed
<1>2. i \in 1 .. Len(rs)
    BY <1>1 DEF ReadFails
<1>3. /\ reads' = [reads EXCEPT ![t] = Drop(rs, i)]
      /\ saved' = IF set THEN [saved EXCEPT ![t] = 0] ELSE saved
      /\ UNCHANGED <<now, log, snap, torn, wrote>>
    BY DEF ReadFails, held, Without, Drop, IsSet
<1>4. Drop(rs, i) \in Seq(ReadRec)
      /\ Sound(Drop(rs, i), snap[t], IF set THEN 0 ELSE saved[t], wrote[t], Newest(t))
    BY <1>1, <1>2, DropIsShort, DropIsSound
<1>5. /\ reads' \in [Tenant -> Seq(ReadRec)] /\ saved' \in [Tenant -> Nat]
      /\ reads'[t] = Drop(rs, i) /\ saved'[t] = (IF set THEN 0 ELSE saved[t])
      /\ \A s \in Tenant \ {t} : reads'[s] = reads[s] /\ saved'[s] = saved[s]
    BY <1>3, <1>4 DEF IInv, Typed
<1>6. Typed'
    BY <1>3, <1>5 DEF IInv, Typed
<1>7. Sound(reads'[t], snap'[t], saved'[t], wrote'[t], Newest(t))
    BY <1>3, <1>4, <1>5
<1>8. \A s \in Tenant : Sound(reads'[s], snap'[s], saved'[s], wrote'[s], Newest(s))
    BY <1>3, <1>5, <1>7, OthersKeep
<1> QED BY <1>3, <1>6, <1>8, StepKeeps

LEMMA RevalidationFailsKeeps ==
    ASSUME IInv, RevalidationFails
    PROVE  IInv'
<1>1. UNCHANGED <<now, log, snap, torn, saved, wrote>>
    BY DEF RevalidationFails, held
<1>2. CASE UNCHANGED reads
  <2>1. now' \in Nat
      BY <1>1 DEF IInv, Typed
  <2> QED BY <1>1, <1>2, <2>1, QuietKeeps
<1>3. ASSUME NEW t \in Tenant, NEW i \in DOMAIN reads[t], reads[t][i].kind = "reload",
             reads' = [s \in Tenant |-> Stray(IF s = t THEN Without(t, i) ELSE reads[s])]
      PROVE  IInv'
  <2>1. ASSUME NEW s \in Tenant
        PROVE  /\ reads'[s] \in Seq(ReadRec)
               /\ Sound(reads'[s], snap[s], saved[s], wrote[s], Newest(s))
    <3>1. /\ reads[s] \in Seq(ReadRec) /\ snap[s] \in Nat \cup {None} /\ saved[s] \in Nat
          /\ wrote[s] \in Nat /\ Newest(s) \in Nat
          /\ Sound(reads[s], snap[s], saved[s], wrote[s], Newest(s))
        BY NewestIs DEF IInv, Typed
    <3>2. CASE s = t
      <4>1. i \in 1 .. Len(reads[s]) /\ ~IsSet(reads[s][i]) /\ Without(s, i) = Drop(reads[s], i)
          BY <1>3, <3>1, <3>2 DEF IsSet, Without, Drop
      <4>2. Drop(reads[s], i) \in Seq(ReadRec)
            /\ Sound(Drop(reads[s], i), snap[s], saved[s], wrote[s], Newest(s))
          BY <3>1, <4>1, DropIsShort, DropIsSound
      <4>3. reads'[s] = Stray(Drop(reads[s], i))
          BY <1>3, <3>2, <4>1
      <4> QED BY <4>2, <4>3, StrayIsSound
    <3>3. CASE s # t
      <4>1. reads'[s] = Stray(reads[s])
          BY <1>3, <3>3
      <4> QED BY <3>1, <4>1, StrayIsSound
    <3> QED BY <3>2, <3>3
  <2>2. reads' \in [Tenant -> Seq(ReadRec)]
    <3>1. reads' = [s \in Tenant |-> reads'[s]]
        BY <1>3
    <3> QED BY <2>1, <3>1
  <2>3. Typed'
      BY <1>1, <2>2 DEF IInv, Typed
  <2> QED BY <1>1, <2>1, <2>3, StepKeeps
<1> QED BY <1>2, <1>3 DEF RevalidationFails

LEMMA ReloadsKeeps ==
    ASSUME IInv, torn' = 0, Reloads
    PROVE  IInv'
<1>1. UNCHANGED <<now, log, snap, torn, saved, wrote>>
  <2>1. \E to : /\ torn' = torn + (IF \E t \in Tenant : Names(t, to) /\ ~Held(t) /\ UnderWay(t)
                                   THEN 1 ELSE 0)
      BY DEF Reloads
  <2>2. torn' = torn
      BY <2>1 DEF Reloads, IInv, Typed
  <2> QED BY <2>2 DEF Reloads
<1>2. PICK to \in reval.seen .. Len(log) :
        reads' = [t \in Tenant |-> IF Held(t) /\ Names(t, to)
                   THEN Append(reads[t], Read("reload", Newest(t))) ELSE reads[t]]
    BY DEF Reloads
<1> DEFINE S == {t \in Tenant : Held(t) /\ Names(t, to)}
<1>3. reads' = [t \in Tenant |-> IF t \in S THEN Append(reads[t], Read("reload", Newest(t)))
                                 ELSE reads[t]]
    BY <1>2
<1> HIDE DEF S
<1> QED BY <1>1, <1>3, BeginKeeps

\* One read begins.
LEMMA OneBeginKeeps ==
    ASSUME IInv, UNCHANGED <<now, log, snap, torn, saved, wrote>>,
           NEW kind \in {"load", "set"}, NEW t, BeginsRead(kind, t),
           kind = "set" => saved[t] # 0 /\ ~Reading("set", t)
    PROVE  IInv'
<1>1. reads' = [s \in Tenant |-> IF s \in {t} THEN Append(reads[s], Read(kind, Newest(s)))
                                 ELSE reads[s]]
    BY DEF BeginsRead, IInv, Typed
<1>2. kind = "set" => \A s \in {t} \cap Tenant : saved[s] # 0 /\ ~Reading("set", s)
    OBVIOUS
<1> QED BY <1>1, <1>2, BeginKeeps

LEMMA LoadsModuleKeeps ==
    ASSUME IInv, NEW c \in Call, LoadsModule(c)
    PROVE  IInv'
<1>1. UNCHANGED <<now, log, snap, torn, saved, wrote>> /\ now' \in Nat
    BY DEF LoadsModule, held, IInv, Typed
<1>2. UNCHANGED reads \/ BeginsRead("load", call[c].tenant)
    BY DEF LoadsModule
<1>3. CASE UNCHANGED reads
    BY <1>1, <1>3, QuietKeeps
<1>4. CASE BeginsRead("load", call[c].tenant)
    BY <1>1, <1>4, OneBeginKeeps
<1> QED BY <1>2, <1>3, <1>4

LEMMA AnswersLoadedKeeps ==
    ASSUME IInv, torn' = 0, NEW c \in Call, AnswersLoaded(c)
    PROVE  IInv'
<1> DEFINE t == call[c].tenant
<1>1. Holds(t, snap[t], TRUE) /\ UNCHANGED <<now, log, reads, saved, wrote>>
    BY DEF AnswersLoaded
<1>2. t \in Tenant => snap[t] \in Nat \cup {None}
    BY DEF IInv, Typed
<1> HIDE DEF t
<1>3. /\ snap' \in [Tenant -> Nat \cup {None}] /\ torn' \in Nat /\ (t \in Tenant => snap'[t] = snap[t])
      /\ \A s \in Tenant \ {t} : snap'[s] = snap[s] \/ (snap'[s] = None /\ reads[s] = <<>>)
    BY <1>1, <1>2, HoldsIs
<1>4. Typed'
    BY <1>1, <1>3 DEF IInv, Typed
<1>5. \A s \in Tenant : Sound(reads'[s], snap'[s], saved'[s], wrote'[s], Newest(s))
    BY <1>1, <1>3, OthersKeep
<1> QED BY <1>1, <1>4, <1>5, StepKeeps

LEMMA NextKeeps ==
    ASSUME IInv, torn' = 0, [Next]_vars
    PROVE  IInv'
<1> USE DEF held
<1>0. now \in Nat
    BY DEF IInv, Typed
<1>1. CASE UNCHANGED vars
    BY <1>0, <1>1, QuietKeeps DEF vars
<1>2. CASE Tick
    BY <1>0, <1>2, QuietKeeps DEF Tick
<1>3. CASE Revalidates
  <2>1. CASE ReadsNewest
      BY <1>0, <2>1, QuietKeeps DEF ReadsNewest
  <2>2. CASE Reloads
      BY <2>2, ReloadsKeeps
  <2>3. CASE Validates
      BY <1>0, <2>3, QuietKeeps DEF Validates
  <2> QED BY <1>3, <2>1, <2>2, <2>3 DEF Revalidates
<1>4. CASE RevalidationFails
    BY <1>4, RevalidationFailsKeeps
<1>5. ASSUME NEW t \in Tenant, Changes(t) PROVE IInv'
    BY <1>5, ChangesKeeps
<1>6. ASSUME NEW t \in Tenant, Saves(t) PROVE IInv'
    BY <1>6, SavesKeeps
<1>7. ASSUME NEW t \in Tenant, ReadsBack(t) PROVE IInv'
    BY <1>7, OneBeginKeeps DEF ReadsBack
<1>8. ASSUME NEW t \in Tenant, Landing(t) PROVE IInv'
    BY <1>8, LandsKeeps DEF Landing
<1>9. ASSUME NEW t \in Tenant, NEW i \in DOMAIN reads[t], ReadFails(t, i) PROVE IInv'
    BY <1>9, ReadFailsKeeps
<1>10. ASSUME NEW c \in Call, Continues(c) PROVE IInv'
  <2>1. CASE Rejoins(c)
      BY <1>0, <2>1, QuietKeeps DEF Rejoins
  <2>2. CASE AnswersPrimed(c)
      BY <1>0, <2>2, QuietKeeps DEF AnswersPrimed
  <2>3. CASE LoadsModule(c)
      BY <2>3, LoadsModuleKeeps
  <2>4. CASE AnswersLoaded(c)
      BY <2>4, AnswersLoadedKeeps
  <2> QED BY <1>10, <2>1, <2>2, <2>3, <2>4 DEF Continues
<1>11. ASSUME NEW c \in Call, NEW t \in Tenant, NEW asked \in Of(t) \cup {0}, Primes(c, t, asked)
       PROVE  IInv'
    BY <1>0, <1>11, QuietKeeps DEF Primes
<1> QED BY <1>1, <1>2, <1>3, <1>4, <1>5, <1>6, <1>7, <1>8, <1>9, <1>10, <1>11 DEF Next

\* Tenants forgotten with something of them under way are counted for good.
Counting == torn \in Nat

LEMMA ForgottenStays == Counting /\ [Next]_vars => Counting' /\ (Unforgotten' => Unforgotten)
<1> SUFFICES ASSUME torn \in Nat, [Next]_vars
             PROVE  torn' \in Nat /\ (Unforgotten' => Unforgotten)
    BY DEF Counting
<1> DEFINE Counted == torn' = torn \/ torn' = torn + 1
<1>1. ASSUME NEW t, NEW value, NEW isPrimed, Holds(t, value, isPrimed) PROVE Counted
    BY <1>1 DEF Holds
<1>2. Revalidates \/ RevalidationFails => Counted
  <2>1. ReadsNewest \/ Validates \/ RevalidationFails => UNCHANGED torn
      BY DEF ReadsNewest, Validates, RevalidationFails, held
  <2>2. Reloads => Counted
      BY DEF Reloads
  <2> QED BY <2>1, <2>2 DEF Revalidates
<1>3. ASSUME NEW t \in Tenant, Landing(t) PROVE Counted
    BY <1>1, <1>3 DEF Landing, Lands
<1>4. ASSUME NEW c \in Call, AnswersLoaded(c) PROVE Counted
    BY <1>1, <1>4 DEF AnswersLoaded
<1>5. ASSUME NEW c \in Call, Continues(c), ~AnswersLoaded(c) PROVE UNCHANGED torn
    BY <1>5 DEF Continues, Rejoins, AnswersPrimed, LoadsModule, held
<1>6. ASSUME NEW t \in Tenant, Changes(t) \/ Saves(t) \/ ReadsBack(t) PROVE UNCHANGED torn
    BY <1>6 DEF Changes, Saves, ReadsBack, held
<1>7. ASSUME NEW t \in Tenant, NEW i \in DOMAIN reads[t], ReadFails(t, i) PROVE UNCHANGED torn
    BY <1>7 DEF ReadFails, held
<1>8. ASSUME NEW c \in Call, NEW t \in Tenant, NEW asked \in Of(t) \cup {0}, Primes(c, t, asked)
      PROVE  UNCHANGED torn
    BY <1>8 DEF Primes, held
<1>9. Tick \/ UNCHANGED vars => UNCHANGED torn
    BY DEF Tick, vars, held
<1>10. Counted
    BY <1>2, <1>3, <1>4, <1>5, <1>6, <1>7, <1>8, <1>9 DEF Next
<1> QED BY <1>10 DEF Unforgotten

\* For any number of tenants, callers, changes and failures, while no tenant is
\* forgotten with something of it under way, what a process holds of a tenant is
\* never older than a write of its own that has resolved.
THEOREM OwnWritesAreKept == Spec => []KeepsItsWrites
<1>1. Init => Counting /\ IInv
    BY InitHolds DEF Init, Counting
<1>2. Unforgotten' /\ IInv /\ [Next]_vars => IInv'
    BY NextKeeps DEF Unforgotten
<1>3. (Unforgotten => IInv) => KeepsItsWrites
    BY DEF IInv, Sound, KeepsItsWrites
<1> QED BY <1>1, <1>2, <1>3, ForgottenStays, PTL DEF Spec

-----------------------------------------------------------------------------
(***************************************************************************)
(* What a prime may count on.  Of the log lg read at time nw, the mark mk, *)
(* the revalidation rv and the prime() k: everything up to the cursor was  *)
(* committed when the log was last read, and everything a caller may ask   *)
(* for once it goes on lies before the cursor.                             *)
(***************************************************************************)
MarkRec == [cursor : Nat \cup {None}, reflected : Nat, validatedAt : Nat]
RevalRec == [at : {"none", "log", "newest", "reload"}, started : Nat, seen : Nat, to : Nat]
CallRec == [at : {"idle", "joining", "rejoin", "validating", "ready", "loading", "loaded"},
            tenant : Tenant \cup {None}, begun : Nat, asked : Nat]

Cut(mk) == IF mk.cursor = None THEN 0 ELSE mk.cursor
Timely(lg, nw) == \A r \in DOMAIN lg :
    lg[r].at <= nw /\ \A q \in DOMAIN lg : q <= r => lg[q].at <= lg[r].at
\* The changes committed before a time are among the first k.
Earlier(lg, time, k) == \A r \in DOMAIN lg : lg[r].at < time => r <= k

MarkIs(mk, lg, nw) ==
    /\ mk \in MarkRec /\ Cut(mk) <= Len(lg) /\ mk.reflected <= Cut(mk) /\ mk.validatedAt <= nw
    /\ mk.cursor # None => Earlier(lg, mk.validatedAt, Cut(mk))

RoundIs(rv, mk, lg, nw) ==
    /\ rv \in RevalRec
    /\ rv.at # "none" => /\ rv.started <= nw /\ Cut(mk) <= rv.seen /\ rv.seen <= Len(lg)
                         /\ Earlier(lg, rv.started, rv.seen)
    /\ rv.at = "log" => mk.cursor # None
    /\ rv.at = "reload" => rv.seen <= rv.to /\ rv.to <= Len(lg)

Needs(k, lg, r) == lg[r].at + Staleness < k.begun \/ r <= k.asked
CallIs(k, rv, mk, lg, nw) ==
    /\ k \in CallRec /\ k.begun <= nw /\ k.asked <= Len(lg)
    /\ \A r \in DOMAIN lg : r <= k.asked => lg[r].at <= k.begun
    /\ k.at # "idle" => k.tenant \in Tenant
    /\ k.at = "validating" => rv.at # "none"
    /\ (k.at \in {"validating", "rejoin"} /\ rv.at # "none") => k.begun <= rv.started /\ k.asked <= rv.seen
    /\ k.at \in {"ready", "loading", "loaded"} =>
         \A r \in DOMAIN lg : Needs(k, lg, r) => r <= Cut(mk)

\* What is held of a tenant, and what its reads may still bring, reflects change r;
\* or a reload that does is under way.
Covers(rs, sn, r) ==
    /\ sn # None => r <= sn
    /\ \A i \in 1 .. Len(rs) : ~rs[i].overtaken => r <= rs[i].seen
Awaits(rs, r) == \E i \in 1 .. Len(rs) : rs[i].kind = "reload" /\ r <= rs[i].seen
Reach(rs, sn, S, k, rv) == \A r \in S :
    /\ r <= k => Covers(rs, sn, r)
    /\ (rv.at = "reload" /\ r <= rv.to) => Covers(rs, sn, r) \/ Awaits(rs, r)

Marks == Timely(log, now) /\ MarkIs(mark, log, now) /\ RoundIs(reval, mark, log, now)
Calls == \A c \in Call : CallIs(call[c], reval, mark, log, now)
Reaches == \A t \in Tenant : Reach(reads[t], snap[t], Of(t), Cut(mark), reval)
Keeps ==
    /\ \A t \in primed \cap Tenant : snap[t] # None
    /\ \A c \in Call : call[c].at = "loaded" => snap[call[c].tenant] # None
    /\ call \in [Call -> CallRec]

FInv == IInv /\ Marks /\ Calls /\ Reaches /\ Keeps

-----------------------------------------------------------------------------
(***************************************************************************)
(* The reads of one tenant and a change r.                                 *)
(***************************************************************************)
\* A read that begins sees the newest change.
LEMMA AppendReaches ==
    ASSUME NEW rs \in Seq(ReadRec), NEW sn, NEW n \in Nat, NEW kind \in {"load", "reload", "set"},
           NEW r \in Nat, r <= n
    PROVE  /\ Covers(rs, sn, r) => Covers(Append(rs, Read(kind, n)), sn, r)
           /\ Awaits(rs, r) => Awaits(Append(rs, Read(kind, n)), r)
           /\ kind = "reload" => Awaits(Append(rs, Read(kind, n)), r)
<1> DEFINE x == Read(kind, n)
           ss == Append(rs, x)
<1>1. x \in ReadRec /\ x.kind = kind /\ x.seen = n
    BY DEF Read, ReadRec
<1>2. /\ Len(ss) = Len(rs) + 1 /\ Len(rs) \in Nat /\ ss[Len(rs) + 1] = x
      /\ \A i \in 1 .. Len(rs) : ss[i] = rs[i]
    BY <1>1
<1> HIDE DEF x, ss
<1>3. ASSUME Covers(rs, sn, r) PROVE Covers(ss, sn, r)
  <2>1. ASSUME NEW i \in 1 .. Len(ss), ~ss[i].overtaken PROVE r <= ss[i].seen
    <3>1. CASE i = Len(rs) + 1
        BY <1>1, <1>2, <3>1
    <3>2. CASE i # Len(rs) + 1
      <4>1. i \in 1 .. Len(rs) /\ ss[i] = rs[i]
          BY <1>2, <3>2
      <4> QED BY <1>3, <2>1, <4>1 DEF Covers
    <3> QED BY <3>1, <3>2
  <2> QED BY <1>3, <2>1 DEF Covers
<1>4. ASSUME Awaits(rs, r) PROVE Awaits(ss, r)
  <2>1. PICK i \in 1 .. Len(rs) : rs[i].kind = "reload" /\ r <= rs[i].seen
      BY <1>4 DEF Awaits
  <2>2. i \in 1 .. Len(ss) /\ ss[i] = rs[i]
      BY <1>2
  <2> QED BY <2>1, <2>2 DEF Awaits
<1>5. ASSUME kind = "reload" PROVE Awaits(ss, r)
  <2>1. Len(rs) + 1 \in 1 .. Len(ss)
      BY <1>2
  <2> QED BY <1>1, <1>2, <1>5, <2>1 DEF Awaits
<1> QED BY <1>3, <1>4, <1>5 DEF ss, x

LEMMA DropCovers ==
    ASSUME NEW rs \in Seq(ReadRec), NEW sn, NEW i \in 1 .. Len(rs), NEW r, Covers(rs, sn, r)
    PROVE  Covers(Drop(rs, i), sn, r)
    BY Dropped DEF Covers

\* Another read that waits is still there.
LEMMA DropAwaits ==
    ASSUME NEW rs \in Seq(ReadRec), NEW i \in 1 .. Len(rs), NEW r,
           NEW k \in 1 .. Len(rs), k # i, rs[k].kind = "reload", r <= rs[k].seen
    PROVE  Awaits(Drop(rs, i), r)
<1> DEFINE j == IF k < i THEN k ELSE k - 1
<1>1. Len(Drop(rs, i)) = Len(rs) - 1 /\ Len(rs) \in Nat
    BY DropIsShort
<1>2. j \in 1 .. Len(Drop(rs, i)) /\ From(i, j) = k
    BY <1>1 DEF From
<1>3. Drop(rs, i)[j] = rs[k]
    BY <1>2, Dropped
<1> QED BY <1>2, <1>3 DEF Awaits

LEMMA MarkedAwaits ==
    ASSUME NEW ds \in Seq(ReadRec), NEW i \in Nat, NEW r, Awaits(ds, r)
    PROVE  Awaits(Marked(ds, i), r)
    BY MarkedIsTyped DEF Awaits

\* A read that has seen r lands and is not overtaken.
LEMMA LandingCovers ==
    ASSUME NEW rs \in Seq(ReadRec), NEW sn, NEW sv, NEW wr, NEW n,
           NEW i \in 1 .. Len(rs), Sound(rs, sn, sv, wr, n), NEW value \in Nat,
           rs[i].seen <= value, NEW r \in Nat, r <= rs[i].seen
    PROVE  Covers(Marked(Drop(rs, i), i), value, r)
<1> DEFINE ds == Drop(rs, i)
<1>1. ds \in Seq(ReadRec) /\ rs[i].seen \in Nat
    BY DropIsShort, Fields
<1>2. ASSUME NEW j \in 1 .. Len(ds), ~(j < i) PROVE r <= ds[j].seen
  <2>1. rs[i].seen <= ds[j].seen /\ ds[j].seen \in Nat
      BY <1>2, AfterIt, Dropped
  <2> QED BY <1>1, <2>1
<1> HIDE DEF ds
<1>3. /\ Len(Marked(ds, i)) = Len(ds)
      /\ \A j \in 1 .. Len(ds) : Marked(ds, i)[j].seen = ds[j].seen
                                   /\ (Marked(ds, i)[j].overtaken <=> j < i)
  <2>1. i \in Nat
      OBVIOUS
  <2> QED BY <1>1, <2>1, MarkedIsTyped, Zenon
<1>4. r <= value
    BY <1>1
<1>5. Covers(Marked(ds, i), value, r)
    BY <1>2, <1>3, <1>4 DEF Covers
<1> QED BY <1>5 DEF ds

\* A read that has seen r lands after a later one.
LEMMA OvertakenCovers ==
    ASSUME NEW rs \in Seq(ReadRec), NEW sn \in Nat \cup {None}, NEW sv, NEW wr, NEW n,
           NEW i \in 1 .. Len(rs), Sound(rs, sn, sv, wr, n), rs[i].overtaken,
           NEW r \in Nat, r <= rs[i].seen
    PROVE  Covers(Drop(rs, i), sn, r)
<1>1. sn \in Nat /\ rs[i].seen \in Nat /\ r <= sn
    BY Fields DEF Sound, Current
<1>2. ASSUME NEW j \in 1 .. Len(Drop(rs, i)), ~Drop(rs, i)[j].overtaken
      PROVE  r <= Drop(rs, i)[j].seen
  <2>1. rs[i].seen <= Drop(rs, i)[j].seen /\ Drop(rs, i)[j].seen \in Nat
      BY <1>2, AfterIt, Dropped
  <2> QED BY <1>1, <2>1
<1> QED BY <1>1, <1>2 DEF Covers

LEMMA StrayCovers ==
    ASSUME NEW rs \in Seq(ReadRec), NEW sn, NEW r, Covers(rs, sn, r)
    PROVE  Covers(Stray(rs), sn, r)
<1>1. DOMAIN rs = 1 .. Len(rs) /\ Len(rs) \in Nat /\ \A i \in 1 .. Len(rs) : rs[i] \in ReadRec
    OBVIOUS
<1>2. ASSUME NEW x \in ReadRec
      PROVE  LET y == [x EXCEPT !.kind = "stray"] IN y.seen = x.seen /\ y.overtaken = x.overtaken
    BY DEF ReadRec
<1>3. \A i \in 1 .. Len(rs) : Stray(rs)[i].seen = rs[i].seen
                                /\ Stray(rs)[i].overtaken = rs[i].overtaken
  <2> TAKE i \in 1 .. Len(rs)
  <2>1. CASE rs[i].kind = "reload"
    <3>1. Stray(rs)[i] = [rs[i] EXCEPT !.kind = "stray"]
        BY <1>1, <2>1 DEF Stray
    <3> QED BY <1>1, <1>2, <3>1
  <2>2. CASE rs[i].kind # "reload"
      BY <1>1, <2>2 DEF Stray
  <2> QED BY <2>1, <2>2
<1>4. Stray(rs) \in [1 .. Len(rs) -> {Stray(rs)[i] : i \in 1 .. Len(rs)}]
    BY <1>1 DEF Stray
<1>5. Len(Stray(rs)) = Len(rs)
    BY <1>1, <1>4
<1> QED BY <1>3, <1>5 DEF Covers

-----------------------------------------------------------------------------
(***************************************************************************)
(* The reads of all tenants.                                               *)
(***************************************************************************)
LEMMA Types ==
    ASSUME FInv, NEW t \in Tenant
    PROVE  /\ reads[t] \in Seq(ReadRec) /\ snap[t] \in Nat \cup {None}
           /\ Sound(reads[t], snap[t], saved[t], wrote[t], Newest(t))
           /\ Newest(t) \in Nat /\ \A r \in Of(t) : r \in Nat /\ r <= Newest(t)
           /\ Reach(reads[t], snap[t], Of(t), Cut(mark), reval)
<1>1. IInv /\ Reaches
    BY DEF FInv
<1>2. Of(t) \subseteq Nat
    BY <1>1 DEF IInv, Typed, Of
<1> QED BY <1>1, <1>2, NewestIs DEF IInv, Typed, Reaches

LEMMA OfStays == ASSUME UNCHANGED log PROVE \A t : Of(t)' = Of(t)
    BY DEF Of

\* A tenant of which nothing is read, or nothing moved.
LEMMA OtherReaches ==
    ASSUME NEW rs, NEW sn, NEW sm, NEW S, NEW k, NEW rv, Reach(rs, sn, S, k, rv),
           sm = sn \/ (sm = None /\ rs = <<>>)
    PROVE  Reach(rs, sm, S, k, rv)
<1>1. CASE sm = sn
    BY <1>1
<1>2. CASE sm = None /\ rs = <<>>
    BY <1>2 DEF Reach, Covers
<1> QED BY <1>1, <1>2

\* Without a reload in progress only what the mark names is asked for.
LEMMA LessReaches ==
    ASSUME NEW rs, NEW sn, NEW S, NEW k, NEW rv, NEW rw, Reach(rs, sn, S, k, rv), rw.at # "reload"
    PROVE  Reach(rs, sn, S, k, rw)
    BY DEF Reach

LEMMA BeginReaches ==
    ASSUME FInv, UNCHANGED <<log, snap, mark, reval>>, NEW kind \in {"load", "reload", "set"},
           NEW S, reads' = [t \in Tenant |-> IF t \in S THEN Append(reads[t], Read(kind, Newest(t)))
                                             ELSE reads[t]]
    PROVE  Reaches'
<1>1. ASSUME NEW t \in Tenant
      PROVE  Reach(reads'[t], snap[t], Of(t), Cut(mark), reval)
  <2>1. CASE t \in S
    <3>1. reads'[t] = Append(reads[t], Read(kind, Newest(t)))
        BY <2>1
    <3>2. ASSUME NEW r \in Of(t)
          PROVE  /\ Covers(reads[t], snap[t], r) => Covers(reads'[t], snap[t], r)
                 /\ Awaits(reads[t], r) => Awaits(reads'[t], r)
        BY <3>1, Types, AppendReaches
    <3> QED BY <3>2, Types DEF Reach
  <2>2. CASE t \notin S
      BY <2>2, Types
  <2> QED BY <2>1, <2>2
<1> QED BY <1>1, OfStays DEF Reaches

\* Nothing of a tenant that has something under way is let go.
LEMMA HoldsFrees ==
    ASSUME FInv, torn' = 0, NEW t, NEW value, NEW isPrimed, Holds(t, value, isPrimed),
           t \in Tenant => value \in Nat
    PROVE  /\ t \in Tenant => snap'[t] = value
           /\ \A s \in Tenant \ {t} :
                snap'[s] = snap[s] \/ (snap'[s] = None /\ ~UnderWay(s) /\ s \notin primed')
           /\ primed' \subseteq primed \cup {t}
<1> DEFINE out == Evicted(t)
<1>1. /\ snap' = [s \in Tenant |-> IF s = t THEN value ELSE IF s \in out THEN None ELSE snap[s]]
      /\ primed' = (primed \ out) \cup (IF isPrimed THEN {t} ELSE {})
      /\ torn' = torn + (IF \E s \in out : UnderWay(s) THEN 1 ELSE 0) /\ torn' = 0
    BY DEF Holds
<1> HIDE DEF out
<1>2. torn \in Nat /\ snap \in [Tenant -> Nat \cup {None}]
    BY DEF FInv, IInv, Typed
<1>3. \A s \in out : ~UnderWay(s)
    BY <1>1, <1>2
<1> QED BY <1>1, <1>2, <1>3

LEMMA LandsIs ==
    ASSUME FInv, torn' = 0, NEW t \in Tenant, NEW i, Lands(t, i)
    PROVE  /\ i \in 1 .. Len(reads[t]) /\ snap'[t] \in Nat
           /\ \/ /\ ~reads[t][i].overtaken /\ reads[t][i].seen <= snap'[t]
                 /\ reads'[t] = Marked(Drop(reads[t], i), i)
              \/ /\ reads[t][i].overtaken /\ snap'[t] = snap[t]
                 /\ reads'[t] = Drop(reads[t], i)
           /\ \A s \in Tenant \ {t} :
                /\ reads'[s] = reads[s]
                /\ snap'[s] = snap[s] \/ (snap'[s] = None /\ ~UnderWay(s) /\ s \notin primed')
           /\ primed' \subseteq primed \cup {t}
<1> DEFINE rs == reads[t]
<1>1. /\ rs \in Seq(ReadRec) /\ snap[t] \in Nat \cup {None}
      /\ Sound(rs, snap[t], saved[t], wrote[t], Newest(t)) /\ \A r \in Of(t) : r \in Nat
    BY Types
<1>2. i \in 1 .. Len(rs) /\ rs[i].seen \in Nat
    BY <1>1, Fields DEF Lands
<1>3. Without(t, i) = Drop(rs, i)
    BY DEF Without, Drop
<1>4. PICK value \in {rs[i].seen} \cup {q \in Of(t) : q > rs[i].seen} :
        Holds(t, IF Newer(t, i) THEN value ELSE snap[t], FALSE)
    BY DEF Lands
<1>5. value \in Nat /\ rs[i].seen <= value
    BY <1>1, <1>2
<1> DEFINE v == IF Newer(t, i) THEN value ELSE snap[t]
<1>6. v \in Nat /\ Holds(t, v, FALSE)
    BY <1>1, <1>4, <1>5 DEF Newer
<1>7. v = IF Newer(t, i) THEN value ELSE snap[t]
    OBVIOUS
<1> HIDE DEF v
<1>8. /\ snap'[t] = v /\ primed' \subseteq primed \cup {t}
      /\ \A s \in Tenant \ {t} :
           snap'[s] = snap[s] \/ (snap'[s] = None /\ ~UnderWay(s) /\ s \notin primed')
    BY <1>6, HoldsFrees
<1>9. reads' = [reads EXCEPT ![t] =
        [j \in DOMAIN Without(t, i) |->
            IF Newer(t, i) THEN [Without(t, i)[j] EXCEPT !.overtaken = j < i]
            ELSE Without(t, i)[j]]]
    BY DEF Lands
<1>10. reads \in [Tenant -> Seq(ReadRec)]
    BY DEF FInv, IInv, Typed
<1>11. \A s \in Tenant \ {t} : reads'[s] = reads[s]
    BY <1>9, <1>10
<1>12. CASE Newer(t, i)
  <2>1. ~rs[i].overtaken
      BY <1>1, <1>2, <1>12 DEF Newer, Sound, Current
  <2>2. reads'[t] = Marked(Drop(rs, i), i)
      BY <1>3, <1>9, <1>10, <1>12 DEF Marked
  <2> QED BY <1>2, <1>5, <1>7, <1>8, <1>11, <1>12, <2>1, <2>2
<1>13. CASE ~Newer(t, i)
  <2>1. rs[i].overtaken
      BY <1>13 DEF Newer
  <2>2. reads'[t] = [j \in DOMAIN Drop(rs, i) |-> Drop(rs, i)[j]]
      BY <1>3, <1>9, <1>10, <1>13
  <2>3. reads'[t] = Drop(rs, i)
      BY <2>2 DEF Drop
  <2> QED BY <1>2, <1>6, <1>7, <1>8, <1>11, <1>13, <2>1, <2>3
<1> QED BY <1>12, <1>13

LEMMA LandsReaches ==
    ASSUME FInv, torn' = 0, NEW t \in Tenant, NEW i, Lands(t, i)
    PROVE  Reaches'
<1>1. UNCHANGED <<log, mark, reval>>
    BY DEF Lands
<1> DEFINE rs == reads[t]
<1>2. /\ rs \in Seq(ReadRec) /\ snap[t] \in Nat \cup {None} /\ snap'[t] \in Nat
      /\ Sound(rs, snap[t], saved[t], wrote[t], Newest(t)) /\ \A r \in Of(t) : r \in Nat
      /\ i \in 1 .. Len(rs) /\ Drop(rs, i) \in Seq(ReadRec) /\ i \in Nat
    BY Types, LandsIs, DropIsShort
<1>3. ASSUME NEW r \in Of(t), r <= rs[i].seen \/ Covers(rs, snap[t], r)
      PROVE  Covers(reads'[t], snap'[t], r)
  <2>1. CASE /\ ~rs[i].overtaken /\ rs[i].seen <= snap'[t]
             /\ reads'[t] = Marked(Drop(rs, i), i)
    <3>1. r <= rs[i].seen
        BY <1>2, <1>3, <2>1 DEF Covers
    <3> HIDE DEF rs
    <3> QED BY <1>2, <2>1, <3>1, LandingCovers
  <2>2. CASE rs[i].overtaken /\ snap'[t] = snap[t] /\ reads'[t] = Drop(rs, i)
    <3> HIDE DEF rs
    <3>1. CASE r <= rs[i].seen
        BY <1>2, <2>2, <3>1, OvertakenCovers
    <3>2. CASE Covers(rs, snap[t], r)
        BY <1>2, <2>2, <3>2, DropCovers
    <3> QED BY <1>3, <3>1, <3>2
  <2> QED BY <2>1, <2>2, LandsIs
<1>4. ASSUME NEW r \in Of(t), Awaits(rs, r)
      PROVE  Covers(reads'[t], snap'[t], r) \/ Awaits(reads'[t], r)
  <2>1. PICK k \in 1 .. Len(rs) : rs[k].kind = "reload" /\ r <= rs[k].seen
      BY <1>4 DEF Awaits
  <2>2. CASE k = i
      BY <1>3, <2>1, <2>2
  <2>3. CASE k # i
    <3>1. reads'[t] = Marked(Drop(rs, i), i) \/ reads'[t] = Drop(rs, i)
        BY LandsIs
    <3> HIDE DEF rs
    <3>2. Awaits(Drop(rs, i), r)
        BY <1>2, <2>1, <2>3, DropAwaits
    <3> QED BY <1>2, <3>1, <3>2, MarkedAwaits
  <2> QED BY <2>2, <2>3
<1>5. Reach(reads'[t], snap'[t], Of(t), Cut(mark), reval)
  <2>1. Reach(rs, snap[t], Of(t), Cut(mark), reval)
      BY Types
  <2> HIDE DEF rs
  <2> QED BY <1>3, <1>4, <2>1 DEF Reach
<1>6. ASSUME NEW s \in Tenant \ {t}
      PROVE  Reach(reads'[s], snap'[s], Of(s), Cut(mark), reval)
  <2>1. reads'[s] = reads[s] /\ (snap'[s] = snap[s] \/ (snap'[s] = None /\ reads[s] = <<>>))
      BY LandsIs DEF UnderWay
  <2> QED BY <2>1, Types, OtherReaches
<1> QED BY <1>1, <1>5, <1>6, OfStays DEF Reaches

LEMMA ReadFailsReaches ==
    ASSUME FInv, NEW t \in Tenant, NEW i, ReadFails(t, i)
    PROVE  Reaches'
<1>1. UNCHANGED <<log, snap, mark, reval>>
    BY DEF ReadFails, held
<1> DEFINE rs == reads[t]
<1>2. /\ rs \in Seq(ReadRec) /\ i \in 1 .. Len(rs) /\ rs[i].kind # "reload"
      /\ reads' = [reads EXCEPT ![t] = Drop(rs, i)] /\ reads \in [Tenant -> Seq(ReadRec)]
    BY Types DEF ReadFails, Without, Drop, FInv, IInv, Typed
<1>3. reads'[t] = Drop(rs, i) /\ \A s \in Tenant \ {t} : reads'[s] = reads[s]
    BY <1>2
<1>4. Reach(rs, snap[t], Of(t), Cut(mark), reval)
    BY Types
<1> HIDE DEF rs
<1>5. \A r \in Of(t) : /\ Covers(rs, snap[t], r) => Covers(Drop(rs, i), snap[t], r)
                       /\ Awaits(rs, r) => Awaits(Drop(rs, i), r)
  <2> TAKE r \in Of(t)
  <2>1. Covers(rs, snap[t], r) => Covers(Drop(rs, i), snap[t], r)
      BY <1>2, DropCovers
  <2>2. ASSUME Awaits(rs, r) PROVE Awaits(Drop(rs, i), r)
    <3>1. PICK k \in 1 .. Len(rs) : rs[k].kind = "reload" /\ r <= rs[k].seen
        BY <2>2 DEF Awaits
    <3> QED BY <1>2, <3>1, DropAwaits
  <2> QED BY <2>1, <2>2
<1>6. Reach(reads'[t], snap[t], Of(t), Cut(mark), reval)
    BY <1>3, <1>4, <1>5 DEF Reach
<1>7. \A s \in Tenant : Reach(reads'[s], snap[s], Of(s), Cut(mark), reval)
    BY <1>3, <1>6, Types
<1> QED BY <1>1, <1>7, OfStays DEF Reaches

LEMMA RevalidationFailsReaches ==
    ASSUME FInv, RevalidationFails
    PROVE  Reaches'
<1>1. UNCHANGED <<log, snap, mark>> /\ reval'.at # "reload"
    BY DEF RevalidationFails, held, NoReval
<1>2. ASSUME NEW s \in Tenant, reads'[s] = reads[s]
      PROVE  Reach(reads'[s], snap[s], Of(s), Cut(mark), reval')
    BY <1>1, <1>2, Types, LessReaches
<1>3. ASSUME NEW s \in Tenant, NEW rs \in Seq(ReadRec), reads'[s] = Stray(rs),
             \A r \in Of(s) : Covers(reads[s], snap[s], r) => Covers(rs, snap[s], r)
      PROVE  Reach(reads'[s], snap[s], Of(s), Cut(mark), reval')
  <2>1. \A r \in Of(s) : Covers(rs, snap[s], r) => Covers(Stray(rs), snap[s], r)
      BY StrayCovers
  <2>2. Reach(reads[s], snap[s], Of(s), Cut(mark), reval)
      BY Types
  <2> QED BY <1>1, <1>3, <2>1, <2>2 DEF Reach
<1>4. \A s \in Tenant : Reach(reads'[s], snap[s], Of(s), Cut(mark), reval')
  <2>1. CASE UNCHANGED reads
      BY <1>2, <2>1
  <2>2. ASSUME NEW t \in Tenant, NEW i \in DOMAIN reads[t],
               reads' = [s \in Tenant |-> Stray(IF s = t THEN Without(t, i) ELSE reads[s])],
               NEW s \in Tenant
        PROVE  Reach(reads'[s], snap[s], Of(s), Cut(mark), reval')
    <3>1. reads[s] \in Seq(ReadRec)
        BY Types
    <3>2. CASE s = t
      <4>1. i \in 1 .. Len(reads[s]) /\ Without(s, i) = Drop(reads[s], i)
          BY <2>2, <3>1, <3>2 DEF Without, Drop
      <4>2. Drop(reads[s], i) \in Seq(ReadRec)
            /\ \A r \in Of(s) : Covers(reads[s], snap[s], r) => Covers(Drop(reads[s], i), snap[s], r)
          BY <3>1, <4>1, DropIsShort, DropCovers
      <4>3. reads'[s] = Stray(Drop(reads[s], i))
          BY <2>2, <3>2, <4>1
      <4> QED BY <1>3, <4>2, <4>3
    <3>3. CASE s # t
        BY <1>3, <2>2, <3>1, <3>3
    <3> QED BY <3>2, <3>3
  <2> QED BY <2>1, <2>2 DEF RevalidationFails
<1> QED BY <1>1, <1>4, OfStays DEF Reaches

\* What a revalidation does not read again it has nothing new of, or it is not held
\* and nothing of it is under way.
LEMMA ReloadsReaches ==
    ASSUME FInv, torn' = 0, Reloads
    PROVE  Reaches'
<1>1. UNCHANGED <<log, snap, mark>> /\ reval.at \in {"log", "newest"}
    BY DEF Reloads
<1>2. PICK to \in reval.seen .. Len(log) :
        /\ reval' = [reval EXCEPT !.at = "reload", !.to = to]
        /\ reads' = [t \in Tenant |-> IF Held(t) /\ Names(t, to)
                      THEN Append(reads[t], Read("reload", Newest(t))) ELSE reads[t]]
        /\ torn' = torn + (IF \E t \in Tenant : Names(t, to) /\ ~Held(t) /\ UnderWay(t)
                           THEN 1 ELSE 0)
    BY DEF Reloads
<1>3. torn' = 0 /\ torn \in Nat /\ reval \in RevalRec /\ mark \in MarkRec
      /\ (reval.at = "log" => mark.cursor # None)
    BY DEF Reloads, FInv, IInv, Typed, Marks, RoundIs, MarkIs
<1>4. \A t \in Tenant : Names(t, to) /\ ~Held(t) => ~UnderWay(t)
    BY <1>2, <1>3
<1>5. reval'.to = to
    BY <1>2, <1>3 DEF RevalRec
<1>6. ASSUME NEW t \in Tenant
      PROVE  Reach(reads'[t], snap[t], Of(t), Cut(mark), reval')
  <2>1. Reach(reads[t], snap[t], Of(t), Cut(mark), reval) /\ \A r \in Of(t) : r \in Nat
      BY Types
  <2>2. CASE Held(t) /\ Names(t, to)
    <3>1. reads'[t] = Append(reads[t], Read("reload", Newest(t)))
        BY <1>2, <2>2
    <3>2. \A r \in Of(t) : /\ Covers(reads[t], snap[t], r) => Covers(reads'[t], snap[t], r)
                           /\ Awaits(reads'[t], r)
      <4> TAKE r \in Of(t)
      <4>1. reads[t] \in Seq(ReadRec) /\ Newest(t) \in Nat /\ r \in Nat /\ r <= Newest(t)
          BY Types
      <4>2. ASSUME NEW rs \in Seq(ReadRec), NEW n \in Nat, r <= n
            PROVE  /\ Covers(rs, snap[t], r) => Covers(Append(rs, Read("reload", n)), snap[t], r)
                   /\ Awaits(Append(rs, Read("reload", n)), r)
          BY <4>1, <4>2, AppendReaches
      <4> QED BY <3>1, <4>1, <4>2
    <3> QED BY <2>1, <3>2 DEF Reach
  <2>3. CASE ~Names(t, to)
    <3>1. reads'[t] = reads[t] /\ mark.cursor \in Nat /\ Cut(mark) = mark.cursor
        BY <1>1, <1>2, <1>3, <2>3 DEF Names, MarkRec, Cut
    <3>2. \A r \in Of(t) : r <= to => r <= Cut(mark)
        BY <2>1, <2>3, <3>1 DEF Names
    <3> QED BY <1>5, <2>1, <3>1, <3>2 DEF Reach
  <2>4. CASE Names(t, to) /\ ~Held(t)
    <3>1. reads'[t] = reads[t] /\ reads[t] = <<>> /\ snap[t] = None
        BY <1>2, <1>4, <2>4 DEF Held, UnderWay
    <3> QED BY <3>1 DEF Reach, Covers
  <2> QED BY <2>2, <2>3, <2>4
<1> QED BY <1>1, <1>6, OfStays DEF Reaches

\* Every reload has landed: what the log named is reflected.
LEMMA ValidatesReaches ==
    ASSUME FInv, Validates
    PROVE  Reaches' /\ Cut(mark') = reval.to
<1>1. /\ UNCHANGED <<log, snap, reads>> /\ reval'.at # "reload" /\ reval.at = "reload"
      /\ mark'.cursor = reval.to /\ reval \in RevalRec
    BY DEF Validates, held, NoReval, FInv, Marks, RoundIs
<1>2. Cut(mark') = reval.to
    BY <1>1, SettingsAssumption DEF Cut, RevalRec
<1>3. ASSUME NEW t \in Tenant
      PROVE  Reach(reads[t], snap[t], Of(t), Cut(mark'), reval')
  <2>1. \A r : ~Awaits(reads[t], r)
      BY Types DEF Validates, Reading, Awaits
  <2>2. Reach(reads[t], snap[t], Of(t), Cut(mark), reval)
      BY Types
  <2> QED BY <1>1, <1>2, <2>1, <2>2 DEF Reach
<1> QED BY <1>1, <1>2, <1>3, OfStays DEF Reaches

-----------------------------------------------------------------------------
(***************************************************************************)
(* A change is committed, and the clock.                                   *)
(***************************************************************************)
LEMMA CommitIs ==
    ASSUME FInv, NEW s \in Tenant, Commits(s)
    PROVE  /\ Len(log) \in Nat /\ Len(log') = Len(log) + 1
           /\ DOMAIN log = 1 .. Len(log) /\ DOMAIN log' = 1 .. Len(log')
           /\ \A r \in 1 .. Len(log) : log'[r] = log[r] /\ log[r].at \in Nat
           /\ log'[Len(log')].at = now
           /\ \A t : \A r \in Of(t)' : r \in Of(t) \/ r = Len(log')
<1> DEFINE e == [tenant |-> s, at |-> now]
           E == [tenant : Tenant, at : Nat]
<1>1. log' = Append(log, e) /\ e \in E /\ e.at = now /\ log \in Seq(E)
      /\ \A x \in E : x.at \in Nat
    BY DEF Commits, FInv, IInv, Typed
<1> HIDE DEF e, E
<1>2. /\ Len(log') = Len(log) + 1 /\ Len(log) \in Nat
      /\ \A r \in 1 .. Len(log) : log'[r] = log[r] /\ log[r] \in E
      /\ log'[Len(log) + 1] = e
    BY <1>1
<1>3. DOMAIN log = 1 .. Len(log) /\ DOMAIN log' = 1 .. Len(log')
    BY <1>1, <1>2
<1>4. \A t : \A r \in Of(t)' : r \in Of(t) \/ r = Len(log')
    BY <1>2, <1>3 DEF Of
<1> QED BY <1>1, <1>2, <1>3, <1>4

LEMMA CommitMarks ==
    ASSUME FInv, NEW s \in Tenant, Commits(s), UNCHANGED <<now, mark, reval>>
    PROVE  Marks'
<1> DEFINE n == Len(log')
<1>1. /\ Len(log) \in Nat /\ n = Len(log) + 1
      /\ DOMAIN log = 1 .. Len(log) /\ DOMAIN log' = 1 .. n
      /\ \A r \in 1 .. Len(log) : log'[r] = log[r] /\ log[r].at \in Nat
      /\ log'[n].at = now /\ now \in Nat
    BY CommitIs DEF FInv, IInv, Typed
<1> HIDE DEF n
<1>2. Timely(log, now) /\ MarkIs(mark, log, now) /\ RoundIs(reval, mark, log, now)
    BY DEF FInv, Marks
<1>3. Timely(log', now)
  <2> SUFFICES ASSUME NEW r \in 1 .. n
               PROVE  log'[r].at <= now /\ \A q \in 1 .. n : q <= r => log'[q].at <= log'[r].at
      BY <1>1 DEF Timely
  <2>1. \A q \in 1 .. Len(log) : log'[q].at <= now
      BY <1>1, <1>2 DEF Timely
  <2>2. CASE r = n
      BY <1>1, <2>1, <2>2
  <2>3. CASE r # n
    <3>1. r \in 1 .. Len(log) /\ \A q \in 1 .. n : q <= r => q \in 1 .. Len(log)
        BY <1>1, <2>3
    <3> QED BY <1>1, <1>2, <2>1, <3>1 DEF Timely
  <2> QED BY <2>2, <2>3
<1>4. ASSUME NEW time \in Nat, time <= now, NEW k, Earlier(log, time, k)
      PROVE  Earlier(log', time, k)
  <2> SUFFICES ASSUME NEW r \in 1 .. n, log'[r].at < time PROVE r <= k
      BY <1>1 DEF Earlier
  <2>1. r # n
      BY <1>1, <1>4
  <2> QED BY <1>1, <1>4, <2>1 DEF Earlier
<1>5. MarkIs(mark, log', now)
  <2>1. mark.validatedAt \in Nat /\ mark.validatedAt <= now /\ Cut(mark) \in Nat
      BY <1>2 DEF MarkIs, MarkRec, Cut
  <2> QED BY <1>1, <1>2, <1>4, <2>1 DEF MarkIs, n
<1>6. RoundIs(reval, mark, log', now)
  <2>1. reval.started \in Nat /\ reval.seen \in Nat /\ reval.to \in Nat
      BY <1>2 DEF RoundIs, RevalRec
  <2> QED BY <1>1, <1>2, <1>4, <2>1 DEF RoundIs, n
<1> QED BY <1>3, <1>5, <1>6 DEF Marks

LEMMA CommitCalls ==
    ASSUME FInv, NEW s \in Tenant, Commits(s), UNCHANGED <<now, mark, reval, call>>
    PROVE  Calls'
<1> SUFFICES ASSUME NEW c \in Call PROVE CallIs(call[c], reval, mark, log', now)
    BY DEF Calls
<1> DEFINE k == call[c]
           n == Len(log')
<1>1. /\ Len(log) \in Nat /\ n = Len(log) + 1
      /\ DOMAIN log = 1 .. Len(log) /\ DOMAIN log' = 1 .. n
      /\ \A r \in 1 .. Len(log) : log'[r] = log[r] /\ log[r].at \in Nat
      /\ log'[n].at = now /\ now \in Nat
    BY CommitIs DEF FInv, IInv, Typed
<1>2. CallIs(k, reval, mark, log, now) /\ k.begun \in Nat /\ k.asked \in Nat
    BY DEF FInv, Calls, CallIs, CallRec
<1> HIDE DEF k, n
<1>3. \A r \in 1 .. n : Needs(k, log', r) => r \in 1 .. Len(log) /\ Needs(k, log, r)
  <2> TAKE r \in 1 .. n
  <2>1. CASE r = n
      BY <1>1, <1>2, <2>1, SettingsAssumption DEF Needs, CallIs
  <2>2. CASE r # n
      BY <1>1, <2>2 DEF Needs
  <2> QED BY <2>1, <2>2
<1>4. k.asked <= n /\ \A r \in 1 .. n : r <= k.asked => log'[r].at <= k.begun
  <2>1. \A r \in 1 .. n : r <= k.asked => r \in 1 .. Len(log)
      BY <1>1, <1>2 DEF CallIs
  <2> QED BY <1>1, <1>2, <2>1 DEF CallIs
<1>5. CallIs(k, reval, mark, log', now)
    BY <1>1, <1>2, <1>3, <1>4 DEF CallIs, n
<1> QED BY <1>5 DEF k

LEMMA CommitReaches ==
    ASSUME FInv, NEW s \in Tenant, Commits(s), UNCHANGED <<mark, reval, reads, snap>>
    PROVE  Reaches'
<1> SUFFICES ASSUME NEW t \in Tenant PROVE Reach(reads[t], snap[t], Of(t)', Cut(mark), reval)
    BY DEF Reaches
<1>1. Reach(reads[t], snap[t], Of(t), Cut(mark), reval)
    BY Types
<1>2. /\ Len(log') = Len(log) + 1 /\ Len(log) \in Nat
      /\ \A r \in Of(t)' : r \in Of(t) \/ r = Len(log')
    BY CommitIs
<1>3. /\ Cut(mark) <= Len(log) /\ Cut(mark) \in Nat /\ reval.to \in Nat
      /\ reval.at = "reload" => reval.to <= Len(log)
    BY DEF FInv, Marks, MarkIs, RoundIs, RevalRec, MarkRec, Cut
<1>4. /\ ~(Len(log') <= Cut(mark))
      /\ reval.at = "reload" => ~(Len(log') <= reval.to)
    BY <1>2, <1>3
<1> QED BY <1>1, <1>2, <1>4 DEF Reach

LEMMA TickMarks ==
    ASSUME FInv, now' \in Nat, now <= now', UNCHANGED <<log, mark, reval, call>>
    PROVE  Marks' /\ Calls'
<1>1. now \in Nat /\ \A r \in DOMAIN log : log[r].at \in Nat
  <2>1. now \in Nat /\ log \in Seq([tenant : Tenant, at : Nat])
      BY DEF FInv, IInv, Typed
  <2>2. ASSUME NEW E, NEW lg \in Seq(E) PROVE \A r \in DOMAIN lg : lg[r] \in E
      OBVIOUS
  <2>3. \A r \in DOMAIN log : log[r] \in [tenant : Tenant, at : Nat]
      BY <2>1, <2>2
  <2> QED BY <2>1, <2>3
<1>2. Timely(log, now')
    BY <1>1 DEF FInv, Marks, Timely
<1>3. MarkIs(mark, log, now')
    BY <1>1 DEF FInv, Marks, MarkIs, MarkRec
<1>4. RoundIs(reval, mark, log, now')
    BY <1>1 DEF FInv, Marks, RoundIs, RevalRec
<1>5. \A c \in Call : CallIs(call[c], reval, mark, log, now')
    BY <1>1 DEF FInv, Calls, CallIs, CallRec
<1> QED BY <1>2, <1>3, <1>4, <1>5 DEF Marks, Calls

-----------------------------------------------------------------------------
(***************************************************************************)
(* The callers of prime() and the revalidation they share.                 *)
(***************************************************************************)
CallAts == {"idle", "joining", "rejoin", "validating", "ready", "loading", "loaded"}

LEMMA Moved ==
    ASSUME NEW k \in CallRec, NEW at \in CallAts, NEW m, m = [k EXCEPT !.at = at]
    PROVE  /\ m \in CallRec /\ m.at = at /\ m.tenant = k.tenant
           /\ m.begun = k.begun /\ m.asked = k.asked
    BY DEF CallRec, CallAts

LEMMA IdleIs ==
    ASSUME NEW rv, NEW mk, FInv
    PROVE  Idle \in CallRec /\ Idle.at = "idle" /\ CallIs(Idle, rv, mk, log, now)
<1>1. now \in Nat /\ Len(log) \in Nat
    BY DEF FInv, IInv, Typed
<1> QED BY <1>1 DEF Idle, CallRec, CallIs

LEMMA CallTypes ==
    ASSUME FInv
    PROVE  /\ now \in Nat /\ Len(log) \in Nat /\ DOMAIN log = 1 .. Len(log)
           /\ mark \in MarkRec /\ reval \in RevalRec /\ Cut(mark) \in Nat
           /\ \A c \in Call : /\ call[c] \in CallRec /\ call[c].begun \in Nat /\ call[c].asked \in Nat
                              /\ CallIs(call[c], reval, mark, log, now)
           /\ \A r \in DOMAIN log : log[r].at \in Nat
<1>1. now \in Nat /\ log \in Seq([tenant : Tenant, at : Nat])
    BY DEF FInv, IInv, Typed
<1>2. ASSUME NEW E, NEW lg \in Seq(E)
      PROVE  Len(lg) \in Nat /\ DOMAIN lg = 1 .. Len(lg) /\ \A r \in DOMAIN lg : lg[r] \in E
    OBVIOUS
<1>3. \A r \in DOMAIN log : log[r] \in [tenant : Tenant, at : Nat]
    BY <1>1, <1>2
<1>4. mark \in MarkRec /\ reval \in RevalRec /\ Cut(mark) \in Nat
    BY DEF FInv, Marks, MarkIs, RoundIs, MarkRec, Cut
<1>5. \A c \in Call : call[c] \in CallRec /\ CallIs(call[c], reval, mark, log, now)
    BY DEF FInv, Calls, CallIs
<1> QED BY <1>1, <1>2, <1>3, <1>4, <1>5 DEF CallRec

\* What Covered answers for is before the cursor.
LEMMA CoveredIsReached ==
    ASSUME FInv, NEW begun \in Nat, begun <= now, NEW asked \in Nat, asked <= Len(log),
           \A q \in DOMAIN log : q <= asked => log[q].at <= begun,
           Covered(begun, asked), NEW r \in DOMAIN log,
           log[r].at + Staleness < begun \/ r <= asked
    PROVE  r <= Cut(mark)
<1>1. /\ mark.cursor # None /\ Earlier(log, mark.validatedAt, Cut(mark))
      /\ mark.reflected <= Cut(mark) /\ Timely(log, now)
    BY DEF FInv, Marks, MarkIs, Covered
<1>2. /\ mark.validatedAt \in Nat /\ mark.reflected \in Nat /\ Cut(mark) \in Nat
      /\ DOMAIN log = 1 .. Len(log) /\ Len(log) \in Nat /\ log[r].at \in Nat /\ now \in Nat
    BY CallTypes DEF MarkRec
<1>3. CASE log[r].at + Staleness < begun
  <2>1. log[r].at < mark.validatedAt
      BY <1>2, <1>3, SettingsAssumption DEF Covered
  <2> QED BY <1>1, <2>1 DEF Earlier
<1>4. CASE r <= asked
  <2>1. CASE mark.reflected >= asked
      BY <1>1, <1>2, <1>4, <2>1
  <2>2. CASE mark.validatedAt > begun
    <3>1. log[r].at < mark.validatedAt
        BY <1>2, <1>4, <2>2
    <3> QED BY <1>1, <3>1 DEF Earlier
  <2> QED BY <1>2, <1>4, <2>1, <2>2 DEF Covered
<1> QED BY <1>3, <1>4

\* A revalidation begins, for a caller that asks now.
LEMMA BeginsMarks ==
    ASSUME FInv, Begins, UNCHANGED <<log, now, mark>>
    PROVE  /\ Marks' /\ reval'.at \in {"log", "newest"}
           /\ reval'.started = now /\ reval'.seen = Len(log)
<1>1. /\ reval' \in RevalRec /\ reval'.at = (IF mark.cursor = None THEN "newest" ELSE "log")
      /\ reval'.started = now /\ reval'.seen = Len(log)
    BY CallTypes DEF Begins, Revalidation, RevalRec
<1>2. Earlier(log, now, Len(log)) /\ Cut(mark) <= Len(log)
    BY CallTypes DEF FInv, Marks, MarkIs, Earlier
<1>3. RoundIs(reval', mark, log, now)
    BY <1>1, <1>2, CallTypes DEF RoundIs
<1> QED BY <1>1, <1>3 DEF FInv, Marks

LEMMA ReadsNewestFresh ==
    ASSUME FInv, ReadsNewest
    PROVE  Marks' /\ Calls' /\ Reaches'
<1>1. /\ reval.at = "log" /\ UNCHANGED <<now, log, snap, reads, mark, call>>
      /\ reval' = [Revalidation("newest") EXCEPT !.started = reval.started]
    BY DEF ReadsNewest, held
<1>2. reval \in RevalRec /\ Len(log) \in Nat /\ now \in Nat /\ DOMAIN log = 1 .. Len(log)
      /\ Cut(mark) \in Nat
    BY CallTypes
<1>3. /\ reval' \in RevalRec /\ reval'.at = "newest" /\ reval'.started = reval.started
      /\ reval'.seen = Len(log)
    BY <1>1, <1>2 DEF Revalidation, RevalRec
<1>4. RoundIs(reval, mark, log, now) /\ MarkIs(mark, log, now)
    BY DEF FInv, Marks
<1>5. RoundIs(reval', mark, log, now)
    BY <1>1, <1>2, <1>3, <1>4 DEF RoundIs, MarkIs, Earlier
<1>6. \A c \in Call : CallIs(call[c], reval', mark, log, now)
  <2> TAKE c \in Call
  <2>1. CallIs(call[c], reval, mark, log, now)
      BY CallTypes
  <2>2. reval.seen <= reval'.seen /\ reval.seen \in Nat /\ call[c].asked \in Nat
      BY <1>1, <1>2, <1>3, <1>4, CallTypes DEF RoundIs, RevalRec
  <2> QED BY <1>1, <1>2, <1>3, <2>1, <2>2 DEF CallIs
<1>7. \A t \in Tenant : Reach(reads[t], snap[t], Of(t), Cut(mark), reval')
    BY <1>3, Types, LessReaches
<1> QED BY <1>1, <1>4, <1>5, <1>6, <1>7, OfStays DEF FInv, Marks, Calls, Reaches

LEMMA ReloadsFresh ==
    ASSUME FInv, torn' = 0, Reloads
    PROVE  Marks' /\ Calls' /\ Reaches' /\ Keeps'
<1>1. /\ reval.at \in {"log", "newest"} /\ UNCHANGED <<now, log, snap, primed, mark, call>>
    BY DEF Reloads
<1>2. PICK to \in reval.seen .. Len(log) : reval' = [reval EXCEPT !.at = "reload", !.to = to]
    BY DEF Reloads
<1>3. /\ reval \in RevalRec /\ Len(log) \in Nat /\ RoundIs(reval, mark, log, now) /\ reval.seen \in Nat
    BY CallTypes DEF FInv, Marks, RevalRec
<1>4. /\ reval' \in RevalRec /\ reval'.at = "reload" /\ reval'.started = reval.started
      /\ reval'.seen = reval.seen /\ reval'.to = to /\ to \in Nat
  <2>1. to \in Nat
      BY <1>2, <1>3
  <2>2. reval \in RevalRec
      BY <1>3
  <2> QED BY <1>2, <2>1, <2>2 DEF RevalRec
<1>5. RoundIs(reval', mark, log, now)
    BY <1>1, <1>2, <1>3, <1>4 DEF RoundIs
<1>6. \A c \in Call : CallIs(call[c], reval', mark, log, now)
    BY <1>1, <1>4, CallTypes DEF CallIs
<1> QED BY <1>1, <1>5, <1>6, ReloadsReaches DEF FInv, Marks, Calls, Keeps

\* The callers that a revalidation has answered.
LEMMA AnsweredIs ==
    ASSUME FInv, NEW joined, NEW others, Answered(joined, others), NEW c \in Call
    PROVE  /\ call[c].at = "joining" => call'[c] = joined[c]
           /\ call[c].at = "validating" => call'[c] = others[c]
           /\ call[c].at \notin {"joining", "validating"} => call'[c] = call[c]
    BY DEF Answered

LEMMA ValidatesFresh ==
    ASSUME FInv, Validates
    PROVE  Marks' /\ Calls' /\ Reaches' /\ Keeps'
<1>1. /\ reval.at = "reload" /\ UNCHANGED <<now, log, snap, primed, reads>> /\ reval' = NoReval
      /\ mark' = [cursor |-> reval.to, reflected |-> Larger(mark.reflected, reval.to),
                  validatedAt |-> reval.started]
      /\ Answered([c \in Call |-> [call[c] EXCEPT !.at = "rejoin"]],
                  [c \in Call |-> [call[c] EXCEPT !.at = "ready"]])
    BY DEF Validates, held
<1>2. /\ reval.to \in Nat /\ reval.started \in Nat /\ reval.seen \in Nat /\ Cut(mark) \in Nat
      /\ mark.reflected \in Nat /\ mark.reflected <= Cut(mark)
      /\ reval.started <= now /\ Cut(mark) <= reval.seen /\ reval.seen <= reval.to
      /\ reval.to <= Len(log) /\ Earlier(log, reval.started, reval.seen) /\ now \in Nat
      /\ Len(log) \in Nat /\ DOMAIN log = 1 .. Len(log)
    BY <1>1, CallTypes DEF FInv, Marks, RoundIs, MarkIs, RevalRec, MarkRec
<1>3. Cut(mark') = reval.to /\ Cut(mark) <= Cut(mark')
    BY <1>2, ValidatesReaches
<1>4. /\ mark'.cursor = reval.to /\ mark'.reflected = reval.to /\ mark'.validatedAt = reval.started
      /\ mark' \in MarkRec
    BY <1>1, <1>2 DEF MarkRec, Larger
<1>5. Earlier(log, reval.started, reval.to)
    BY <1>2 DEF Earlier
<1>6. MarkIs(mark', log, now)
    BY <1>2, <1>3, <1>4, <1>5 DEF MarkIs
<1>7. NoReval \in RevalRec /\ NoReval.at = "none"
    BY DEF NoReval, RevalRec
<1>8. RoundIs(reval', mark', log, now)
    BY <1>1, <1>7 DEF RoundIs
<1>9. ASSUME NEW c \in Call
      PROVE  /\ CallIs(call'[c], reval', mark', log, now)
             /\ call'[c].at = "loaded" => call'[c] = call[c]
  <2> DEFINE k == call[c]
             m == call'[c]
  <2>1. k \in CallRec /\ CallIs(k, reval, mark, log, now) /\ k.begun \in Nat /\ k.asked \in Nat
      BY CallTypes
  <2>2. CASE k.at = "joining"
    <3>1. m = [k EXCEPT !.at = "rejoin"]
        BY <1>1, <2>2, AnsweredIs
    <3> HIDE DEF k, m
    <3>2. m \in CallRec /\ m.at = "rejoin" /\ m.tenant = k.tenant /\ m.begun = k.begun
          /\ m.asked = k.asked
        BY <2>1, <3>1, Moved DEF CallAts
    <3>3. CallIs(m, reval', mark', log, now)
        BY <1>1, <1>7, <2>1, <2>2, <3>2 DEF CallIs
    <3> QED BY <3>2, <3>3 DEF m
  <2>3. CASE k.at = "validating"
    <3>1. m = [k EXCEPT !.at = "ready"]
        BY <1>1, <2>3, AnsweredIs
    <3> HIDE DEF k, m
    <3>2. m \in CallRec /\ m.at = "ready" /\ m.tenant = k.tenant /\ m.begun = k.begun
          /\ m.asked = k.asked
        BY <2>1, <3>1, Moved DEF CallAts
    <3>3. k.begun <= reval.started /\ k.asked <= reval.seen
        BY <1>1, <2>1, <2>3 DEF CallIs
    <3>4. \A r \in DOMAIN log : Needs(m, log, r) => r <= Cut(mark')
      <4> TAKE r \in DOMAIN log
      <4>1. r \in Nat /\ log[r].at \in Nat
          BY <1>2, CallTypes
      <4>2. CASE log[r].at + Staleness < m.begun
        <5>1. log[r].at < reval.started
            BY <1>2, <2>1, <3>2, <3>3, <4>1, <4>2, SettingsAssumption
        <5> QED BY <1>3, <1>5, <5>1 DEF Earlier
      <4>3. CASE r <= m.asked
          BY <1>2, <1>3, <2>1, <3>2, <3>3, <4>1, <4>3
      <4> QED BY <4>2, <4>3 DEF Needs
    <3>5. CallIs(m, reval', mark', log, now)
        BY <1>1, <1>7, <2>1, <2>3, <3>2, <3>4 DEF CallIs
    <3> QED BY <3>2, <3>5 DEF m
  <2>4. CASE k.at \notin {"joining", "validating"}
    <3>1. m = k
        BY <1>1, <2>4, AnsweredIs
    <3> HIDE DEF k, m
    <3>2. \A r \in DOMAIN log : r <= Cut(mark) => r <= Cut(mark')
        BY <1>2, <1>3
    <3>3. CallIs(k, reval', mark', log, now)
        BY <1>1, <1>7, <2>1, <2>4, <3>2 DEF CallIs
    <3> QED BY <3>1, <3>3 DEF m, k
  <2> QED BY <2>2, <2>3, <2>4
<1>10. call' \in [Call -> CallRec]
  <2>1. call' = [c \in Call |-> call'[c]]
      BY <1>1 DEF Answered
  <2> QED BY <1>9, <2>1 DEF CallIs
<1>11. Keeps'
    BY <1>1, <1>9, <1>10 DEF FInv, Keeps
<1> QED BY <1>1, <1>6, <1>8, <1>9, <1>11, ValidatesReaches DEF FInv, Marks, Calls

LEMMA RevalidationFailsFresh ==
    ASSUME FInv, RevalidationFails
    PROVE  Marks' /\ Calls' /\ Reaches' /\ Keeps'
<1>1. /\ UNCHANGED <<now, log, snap, primed, mark>> /\ reval' = NoReval
      /\ Answered([c \in Call |-> Idle], [c \in Call |-> Idle])
    BY DEF RevalidationFails, held
<1>2. NoReval \in RevalRec /\ NoReval.at = "none"
    BY DEF NoReval, RevalRec
<1>3. RoundIs(reval', mark, log, now)
    BY <1>1, <1>2 DEF RoundIs
<1>4. ASSUME NEW c \in Call
      PROVE  /\ CallIs(call'[c], reval', mark, log, now)
             /\ call'[c].at = "loaded" => call'[c] = call[c]
  <2>1. CASE call[c].at \in {"joining", "validating"}
    <3>1. call'[c] = Idle
        BY <1>1, <2>1, AnsweredIs
    <3> QED BY <3>1, IdleIs
  <2>2. CASE call[c].at \notin {"joining", "validating"}
    <3>1. call'[c] = call[c]
        BY <1>1, <2>2, AnsweredIs
    <3> QED BY <1>1, <1>2, <2>2, <3>1, CallTypes DEF CallIs
  <2> QED BY <2>1, <2>2
<1>5. call' \in [Call -> CallRec]
  <2>1. call' = [c \in Call |-> call'[c]]
      BY <1>1 DEF Answered
  <2> QED BY <1>4, <2>1 DEF CallIs
<1>6. Keeps'
    BY <1>1, <1>4, <1>5 DEF FInv, Keeps
<1> QED BY <1>1, <1>3, <1>4, <1>6, RevalidationFailsReaches DEF FInv, Marks, Calls

\* The clock, and a step that changes nothing.
LEMMA QuietFresh ==
    ASSUME FInv, Tick \/ UNCHANGED vars
    PROVE  Marks' /\ Calls' /\ Reaches' /\ Keeps'
<1>1. UNCHANGED <<log, snap, primed, reads, reval, mark, call>>
    BY DEF Tick, vars, held
<1>2. now' \in Nat /\ now <= now'
    BY CallTypes DEF Tick, vars
<1>3. Reaches'
    BY <1>1, Types, OfStays DEF Reaches
<1>4. Keeps'
    BY <1>1 DEF FInv, Keeps
<1> QED BY <1>1, <1>2, <1>3, <1>4, TickMarks

\* A change of this process or of another.
LEMMA CommitFresh ==
    ASSUME FInv, NEW t \in Tenant, Changes(t) \/ Saves(t)
    PROVE  Marks' /\ Calls' /\ Reaches' /\ Keeps'
<1>1. Commits(t) /\ UNCHANGED <<now, snap, primed, reads, reval, mark, call>>
    BY DEF Changes, Saves, held
<1>2. Keeps'
    BY <1>1 DEF FInv, Keeps
<1> QED BY <1>1, <1>2, CommitMarks, CommitCalls, CommitReaches

LEMMA ReadsBackFresh ==
    ASSUME FInv, NEW t \in Tenant, ReadsBack(t)
    PROVE  Marks' /\ Calls' /\ Reaches' /\ Keeps'
<1>1. UNCHANGED <<now, log, snap, primed, reval, mark, call>>
    BY DEF ReadsBack, held
<1>2. reads' = [s \in Tenant |-> IF s \in {t} THEN Append(reads[s], Read("set", Newest(s)))
                                 ELSE reads[s]]
  <2>1. reads' = [reads EXCEPT ![t] = Append(@, Read("set", Newest(t)))]
        /\ reads \in [Tenant -> Seq(ReadRec)]
      BY DEF ReadsBack, BeginsRead, FInv, IInv, Typed
  <2> QED BY <2>1
<1>3. Reaches'
    BY <1>1, <1>2, BeginReaches
<1>4. Marks' /\ Calls' /\ Keeps'
    BY <1>1 DEF FInv, Marks, Calls, Keeps
<1> QED BY <1>3, <1>4

\* Where a load that has ended leaves the calls that wait for it.
LEMMA LoadEndsIs ==
    ASSUME FInv, NEW kind, NEW t \in Tenant, NEW at \in {"idle", "loaded"}, LoadEnds(kind, t, at),
           NEW c \in Call
    PROVE  \/ call'[c] = call[c]
           \/ /\ call[c].at = "loading" /\ call[c].tenant = t
              /\ at = "idle" => call'[c] = Idle
              /\ at = "loaded" => call'[c] = [call[c] EXCEPT !.at = "loaded"]
    BY DEF LoadEnds

LEMMA LoadEndsTypes ==
    ASSUME FInv, NEW kind, NEW t, NEW at, LoadEnds(kind, t, at),
           \A c \in Call : call'[c] \in CallRec
    PROVE  call' \in [Call -> CallRec]
<1>1. call' = [c \in Call |-> call'[c]]
    BY DEF LoadEnds, FInv, Keeps
<1> QED BY <1>1

LEMMA LandsFresh ==
    ASSUME FInv, torn' = 0, NEW t \in Tenant, NEW i, Lands(t, i)
    PROVE  Marks' /\ Calls' /\ Reaches' /\ Keeps'
<1>1. UNCHANGED <<now, log, mark, reval>> /\ LoadEnds(reads[t][i].kind, t, "loaded")
    BY DEF Lands
<1>2. /\ snap'[t] \in Nat /\ primed' \subseteq primed \cup {t}
      /\ \A s \in Tenant \ {t} :
           snap'[s] = snap[s] \/ (snap'[s] = None /\ ~UnderWay(s) /\ s \notin primed')
    BY LandsIs
<1>3. snap'[t] # None
    BY <1>2, SettingsAssumption
<1>4. ASSUME NEW c \in Call
      PROVE  /\ CallIs(call'[c], reval, mark, log, now)
             /\ call'[c].at = "loaded" => snap'[call'[c].tenant] # None
  <2> DEFINE k == call[c]
             m == call'[c]
  <2>1. k \in CallRec /\ CallIs(k, reval, mark, log, now)
      BY CallTypes
  <2>2. CASE m = k
    <3>1. k.at = "loaded" => k.tenant \in Tenant /\ snap[k.tenant] # None /\ UnderWay(k.tenant)
        BY <2>1 DEF CallIs, FInv, Keeps, UnderWay
    <3>2. k.at = "loaded" => snap'[k.tenant] # None
        BY <1>2, <1>3, <3>1
    <3> QED BY <2>1, <2>2, <3>2
  <2>3. CASE k.at = "loading" /\ k.tenant = t /\ m = [k EXCEPT !.at = "loaded"]
    <3> HIDE DEF k, m
    <3>1. m \in CallRec /\ m.at = "loaded" /\ m.tenant = k.tenant /\ m.begun = k.begun
          /\ m.asked = k.asked
        BY <2>1, <2>3, Moved DEF CallAts
    <3>2. CallIs(m, reval, mark, log, now)
        BY <2>1, <2>3, <3>1 DEF CallIs, Needs
    <3> QED BY <1>3, <2>3, <3>1, <3>2 DEF m
  <2> QED BY <1>1, <2>2, <2>3, LoadEndsIs
<1>5. call' \in [Call -> CallRec]
    BY <1>1, <1>4, LoadEndsTypes DEF CallIs
<1>6. \A s \in primed' \cap Tenant : snap'[s] # None
    BY <1>2, <1>3 DEF FInv, Keeps
<1>7. Marks' /\ Calls' /\ Keeps'
    BY <1>1, <1>4, <1>5, <1>6 DEF FInv, Marks, Calls, Keeps
<1> QED BY <1>7, LandsReaches

LEMMA ReadFailsFresh ==
    ASSUME FInv, NEW t \in Tenant, NEW i, ReadFails(t, i)
    PROVE  Marks' /\ Calls' /\ Reaches' /\ Keeps'
<1>1. UNCHANGED <<now, log, snap, primed, mark, reval>> /\ LoadEnds(reads[t][i].kind, t, "idle")
    BY DEF ReadFails, held
<1>2. ASSUME NEW c \in Call
      PROVE  /\ CallIs(call'[c], reval, mark, log, now)
             /\ call'[c].at = "loaded" => call'[c] = call[c]
  <2>1. call'[c] = call[c] \/ call'[c] = Idle
      BY <1>1, LoadEndsIs
  <2> QED BY <2>1, IdleIs, CallTypes
<1>3. call' \in [Call -> CallRec]
    BY <1>1, <1>2, LoadEndsTypes DEF CallIs
<1>4. Marks' /\ Calls' /\ Keeps'
    BY <1>1, <1>2, <1>3 DEF FInv, Marks, Calls, Keeps
<1> QED BY <1>4, ReadFailsReaches

-----------------------------------------------------------------------------
(***************************************************************************)
(* One caller goes on: at most it begins the revalidation.                 *)
(***************************************************************************)
LEMMA OneCall ==
    ASSUME FInv, NEW c \in Call, NEW m, call' = [call EXCEPT ![c] = m],
           UNCHANGED <<now, log, mark>>, reval' = reval \/ (reval.at = "none" /\ Begins),
           CallIs(m, reval', mark, log, now)
    PROVE  /\ Marks' /\ Calls' /\ call' \in [Call -> CallRec]
           /\ call'[c] = m /\ \A d \in Call \ {c} : call'[d] = call[d]
           /\ \A t \in Tenant : Reach(reads[t], snap[t], Of(t), Cut(mark), reval')
<1>1. /\ call \in [Call -> CallRec] /\ call'[c] = m /\ m \in CallRec
      /\ \A d \in Call \ {c} : call'[d] = call[d]
    BY DEF FInv, Keeps, CallIs
<1>2. call' \in [Call -> CallRec]
    BY <1>1
<1>3. CASE reval' = reval
  <2>1. Marks' /\ \A d \in Call : CallIs(call[d], reval', mark, log, now)
      BY <1>3, CallTypes DEF FInv, Marks
  <2>2. Calls'
      BY <1>1, <2>1 DEF Calls
  <2> QED BY <1>1, <1>2, <1>3, <2>1, <2>2, Types
<1>4. CASE reval.at = "none" /\ Begins
  <2>1. /\ Marks' /\ reval'.at \in {"log", "newest"}
        /\ reval'.started = now /\ reval'.seen = Len(log)
      BY <1>4, BeginsMarks
  <2>2. ASSUME NEW d \in Call
        PROVE  CallIs(call[d], reval', mark, log, now)
    <3>1. CallIs(call[d], reval, mark, log, now)
        BY CallTypes
    <3> QED BY <1>4, <2>1, <3>1 DEF CallIs
  <2>3. Calls'
      BY <1>1, <2>2 DEF Calls
  <2>4. \A t \in Tenant : Reach(reads[t], snap[t], Of(t), Cut(mark), reval')
      BY <2>1, Types, LessReaches
  <2> QED BY <1>1, <1>2, <2>1, <2>3, <2>4
<1> QED BY <1>3, <1>4

\* A revision the caller may name was committed when it asks.
LEMMA AskedIs ==
    ASSUME FInv, NEW t, NEW asked \in Of(t) \cup {0}
    PROVE  /\ asked \in Nat /\ asked <= Len(log)
           /\ \A r \in DOMAIN log : r <= asked => log[r].at <= now
<1>1. Len(log) \in Nat /\ DOMAIN log = 1 .. Len(log)
    BY CallTypes
<1> QED BY <1>1 DEF Of, FInv, Marks, Timely

LEMMA PrimesFresh ==
    ASSUME FInv, NEW c \in Call, NEW t \in Tenant, NEW asked \in Of(t) \cup {0}, Primes(c, t, asked)
    PROVE  Marks' /\ Calls' /\ Reaches' /\ Keeps'
<1> DEFINE m == [at |-> IF Covered(now, asked) THEN "ready"
                        ELSE IF reval.at # "none" THEN "joining" ELSE "validating",
                 tenant |-> t, begun |-> now, asked |-> asked]
<1>1. call' = [call EXCEPT ![c] = m] /\ UNCHANGED <<now, log, snap, primed, reads, mark>>
    BY DEF Primes, held
<1>2. reval' = reval \/ (reval.at = "none" /\ Begins)
    BY DEF Primes
<1>3. /\ now \in Nat /\ asked \in Nat /\ asked <= Len(log) /\ Len(log) \in Nat
      /\ \A r \in DOMAIN log : r <= asked => log[r].at <= now
    BY AskedIs, CallTypes
<1>4. /\ m \in CallRec /\ m.tenant = t /\ m.begun = now /\ m.asked = asked
      /\ m.at \in {"ready", "joining", "validating"}
      /\ m.at = "ready" => Covered(now, asked)
      /\ m.at = "validating" => reval.at = "none" /\ Begins
    BY <1>3 DEF CallRec, Primes
<1> HIDE DEF m
<1>5. m.at = "ready" => \A r \in DOMAIN log : Needs(m, log, r) => r <= Cut(mark)
  <2> SUFFICES ASSUME m.at = "ready", NEW r \in DOMAIN log, Needs(m, log, r)
               PROVE  r <= Cut(mark)
      OBVIOUS
  <2>1. Covered(now, asked) /\ (log[r].at + Staleness < now \/ r <= asked) /\ now <= now
      BY <1>3, <1>4 DEF Needs
  <2> QED BY <1>3, <2>1, CoveredIsReached
<1>6. m.at = "validating" => reval'.at # "none" /\ reval'.started = now /\ reval'.seen = Len(log)
    BY <1>1, <1>4, BeginsMarks
<1>7. CallIs(m, reval', mark, log, now)
    BY <1>3, <1>4, <1>5, <1>6 DEF CallIs
<1>8. /\ Marks' /\ Calls' /\ call' \in [Call -> CallRec]
      /\ call'[c] = m /\ \A d \in Call \ {c} : call'[d] = call[d]
      /\ \A s \in Tenant : Reach(reads[s], snap[s], Of(s), Cut(mark), reval')
    BY <1>1, <1>2, <1>7, OneCall
<1>9. Reaches' /\ Keeps'
    BY <1>1, <1>4, <1>8, OfStays DEF Reaches, FInv, Keeps
<1> QED BY <1>8, <1>9

LEMMA RejoinsFresh ==
    ASSUME FInv, NEW c \in Call, Rejoins(c)
    PROVE  Marks' /\ Calls' /\ Reaches' /\ Keeps'
<1> DEFINE k == call[c]
           at == IF Covered(k.begun, k.asked) THEN "ready" ELSE "validating"
           m == [k EXCEPT !.at = at]
<1>1. /\ k.at = "rejoin" /\ UNCHANGED <<now, log, snap, primed, reads, mark>>
      /\ call' = [call EXCEPT ![c] = m]
    BY DEF Rejoins, At, held
<1>2. /\ reval' = reval \/ (reval.at = "none" /\ Begins)
      /\ at = "validating" => (reval.at # "none" /\ reval' = reval) \/ (reval.at = "none" /\ Begins)
    BY DEF Rejoins
<1>3. /\ k \in CallRec /\ k.begun \in Nat /\ k.asked \in Nat /\ CallIs(k, reval, mark, log, now)
    BY CallTypes
<1>4. at \in {"ready", "validating"} /\ (at = "ready" => Covered(k.begun, k.asked))
    OBVIOUS
<1>5. m = [k EXCEPT !.at = at]
    OBVIOUS
<1> HIDE DEF k, at, m
<1>6. m \in CallRec /\ m.at = at /\ m.tenant = k.tenant /\ m.begun = k.begun /\ m.asked = k.asked
    BY <1>3, <1>4, <1>5, Moved DEF CallAts
<1>7. at = "ready" => \A r \in DOMAIN log : Needs(m, log, r) => r <= Cut(mark)
    BY <1>3, <1>4, <1>6, CoveredIsReached DEF Needs, CallIs
<1>8. at = "validating" => reval'.at # "none" /\ k.begun <= reval'.started /\ k.asked <= reval'.seen
  <2>1. CASE reval.at # "none" /\ reval' = reval
      BY <1>1, <1>3, <2>1 DEF CallIs
  <2>2. CASE reval.at = "none" /\ Begins
      BY <1>1, <1>3, <2>2, BeginsMarks DEF CallIs
  <2> QED BY <1>2, <2>1, <2>2
<1>9. CallIs(m, reval', mark, log, now)
    BY <1>1, <1>3, <1>4, <1>6, <1>7, <1>8 DEF CallIs
<1>10. /\ Marks' /\ Calls' /\ call' \in [Call -> CallRec]
       /\ call'[c] = m /\ \A d \in Call \ {c} : call'[d] = call[d]
       /\ \A s \in Tenant : Reach(reads[s], snap[s], Of(s), Cut(mark), reval')
    BY <1>1, <1>2, <1>9, OneCall
<1>11. Reaches' /\ Keeps'
    BY <1>1, <1>4, <1>6, <1>10, OfStays DEF Reaches, FInv, Keeps
<1> QED BY <1>10, <1>11

LEMMA AnswersPrimedFresh ==
    ASSUME FInv, NEW c \in Call, AnswersPrimed(c)
    PROVE  Marks' /\ Calls' /\ Reaches' /\ Keeps'
<1>1. call' = [call EXCEPT ![c] = Idle] /\ UNCHANGED <<now, log, snap, primed, reads, mark, reval>>
    BY DEF AnswersPrimed, Answers
<1>2. CallIs(Idle, reval', mark, log, now) /\ Idle.at = "idle"
    BY <1>1, IdleIs
<1>3. /\ Marks' /\ Calls' /\ call' \in [Call -> CallRec]
      /\ call'[c] = Idle /\ \A d \in Call \ {c} : call'[d] = call[d]
      /\ \A s \in Tenant : Reach(reads[s], snap[s], Of(s), Cut(mark), reval')
    BY <1>1, <1>2, OneCall
<1>4. Reaches' /\ Keeps'
    BY <1>1, <1>2, <1>3, OfStays DEF Reaches, FInv, Keeps
<1> QED BY <1>3, <1>4

LEMMA LoadsModuleFresh ==
    ASSUME FInv, NEW c \in Call, LoadsModule(c)
    PROVE  Marks' /\ Calls' /\ Reaches' /\ Keeps'
<1> DEFINE k == call[c]
           t == k.tenant
           at == IF snap[t] # None THEN "loaded" ELSE "loading"
           m == [k EXCEPT !.at = at]
<1>1. /\ k.at = "ready" /\ call' = [call EXCEPT ![c] = m]
      /\ UNCHANGED <<now, log, snap, primed, mark, reval>>
      /\ reads' = reads \/ BeginsRead("load", t)
    BY DEF LoadsModule, At, held
<1>2. /\ k \in CallRec /\ CallIs(k, reval, mark, log, now) /\ t \in Tenant
    BY <1>1, CallTypes DEF CallIs
<1>3. at \in {"loading", "loaded"} /\ (at = "loaded" => snap[t] # None)
    OBVIOUS
<1>4. m = [k EXCEPT !.at = at] /\ t = k.tenant
    OBVIOUS
<1> HIDE DEF k, at, m, t
<1>5. m \in CallRec /\ m.at = at /\ m.tenant = t /\ m.begun = k.begun /\ m.asked = k.asked
    BY <1>2, <1>3, <1>4, Moved DEF CallAts
<1>6. CallIs(m, reval', mark, log, now)
    BY <1>1, <1>2, <1>3, <1>4, <1>5 DEF CallIs, Needs
<1>7. /\ Marks' /\ Calls' /\ call' \in [Call -> CallRec]
      /\ call'[c] = m /\ \A d \in Call \ {c} : call'[d] = call[d]
    BY <1>1, <1>6, OneCall
<1>8. Reaches'
  <2>1. CASE reads' = reads
      BY <1>1, <2>1, Types, OfStays DEF Reaches
  <2>2. CASE BeginsRead("load", t)
    <3>1. reads' = [s \in Tenant |-> IF s \in {t} THEN Append(reads[s], Read("load", Newest(s)))
                                     ELSE reads[s]]
      <4>1. reads' = [reads EXCEPT ![t] = Append(@, Read("load", Newest(t)))]
            /\ reads \in [Tenant -> Seq(ReadRec)]
          BY <2>2 DEF BeginsRead, FInv, IInv, Typed
      <4> QED BY <4>1
    <3> QED BY <1>1, <3>1, BeginReaches
  <2> QED BY <1>1, <2>1, <2>2
<1>9. Keeps'
    BY <1>1, <1>3, <1>5, <1>7 DEF FInv, Keeps
<1> QED BY <1>7, <1>8, <1>9

LEMMA AnswersLoadedFresh ==
    ASSUME FInv, torn' = 0, NEW c \in Call, AnswersLoaded(c)
    PROVE  /\ Marks' /\ Calls' /\ Reaches' /\ Keeps'
           /\ snap'[call[c].tenant] = snap[call[c].tenant]
<1> DEFINE t == call[c].tenant
<1>1. /\ call[c].at = "loaded" /\ Holds(t, snap[t], TRUE) /\ call' = [call EXCEPT ![c] = Idle]
      /\ UNCHANGED <<now, log, reads, mark, reval>>
    BY DEF AnswersLoaded, Answers
<1>2. t \in Tenant /\ snap[t] # None /\ snap[t] \in Nat
    BY <1>1, CallTypes DEF CallIs, FInv, Keeps, IInv, Typed
<1> HIDE DEF t
<1>3. /\ snap'[t] = snap[t] /\ primed' \subseteq primed \cup {t}
      /\ \A s \in Tenant \ {t} :
           snap'[s] = snap[s] \/ (snap'[s] = None /\ ~UnderWay(s) /\ s \notin primed')
    BY <1>1, <1>2, HoldsFrees
<1>4. CallIs(Idle, reval', mark, log, now) /\ Idle.at = "idle"
    BY <1>1, IdleIs
<1>5. /\ Marks' /\ Calls' /\ call' \in [Call -> CallRec]
      /\ call'[c] = Idle /\ \A d \in Call \ {c} : call'[d] = call[d]
    BY <1>1, <1>4, OneCall
<1>6. Reaches'
  <2>1. \A s \in Tenant : snap'[s] = snap[s] \/ (snap'[s] = None /\ reads[s] = <<>>)
      BY <1>3 DEF UnderWay
  <2>2. \A s \in Tenant : Reach(reads[s], snap'[s], Of(s), Cut(mark), reval)
      BY <2>1, Types, OtherReaches
  <2> QED BY <1>1, <2>2, OfStays DEF Reaches
<1>7. ASSUME NEW d \in Call, call'[d].at = "loaded"
      PROVE  snap'[call'[d].tenant] # None
  <2>1. d # c /\ call'[d] = call[d]
      BY <1>4, <1>5, <1>7
  <2>2. call[d].tenant \in Tenant /\ snap[call[d].tenant] # None /\ UnderWay(call[d].tenant)
      BY <1>7, <2>1, CallTypes DEF CallIs, FInv, Keeps, UnderWay
  <2> QED BY <1>2, <1>3, <2>1, <2>2
<1>8. \A s \in primed' \cap Tenant : snap'[s] # None
    BY <1>2, <1>3 DEF FInv, Keeps
<1>9. Keeps'
    BY <1>5, <1>7, <1>8 DEF Keeps
<1> QED BY <1>3, <1>5, <1>6, <1>9 DEF t

-----------------------------------------------------------------------------
LEMMA InitFresh ==
    ASSUME Init PROVE FInv
<1>1. IInv
    BY InitHolds
<1>2. /\ now = 0 /\ log = <<>> /\ primed = {} /\ reval = NoReval /\ call = [c \in Call |-> Idle]
      /\ mark = [cursor |-> None, reflected |-> 0, validatedAt |-> 0]
    BY DEF Init
<1>3. Len(log) = 0 /\ DOMAIN log = {} /\ Idle \in CallRec /\ Idle.at = "idle"
    BY <1>2 DEF Idle, CallRec
<1>4. Marks
    BY <1>2, <1>3 DEF Marks, Timely, MarkIs, MarkRec, Cut, RoundIs, RevalRec, NoReval
<1>5. Calls
    BY <1>2, <1>3 DEF Calls, CallIs, Idle
<1>6. Reaches
    BY <1>3 DEF Reaches, Reach, Of
<1>7. Keeps
    BY <1>2, <1>3 DEF Keeps
<1> QED BY <1>1, <1>4, <1>5, <1>6, <1>7 DEF FInv

LEMMA FreshNext ==
    ASSUME torn' = 0, FInv, [Next]_vars PROVE FInv'
<1>1. IInv'
    BY NextKeeps DEF FInv
<1>2. Marks' /\ Calls' /\ Reaches' /\ Keeps'
  <2>1. CASE Tick \/ UNCHANGED vars
      BY <2>1, QuietFresh
  <2>2. CASE ReadsNewest
    <3>1. UNCHANGED <<snap, primed, call>>
        BY <2>2 DEF ReadsNewest, held
    <3>2. Keeps'
        BY <3>1 DEF FInv, Keeps
    <3> QED BY <2>2, <3>2, ReadsNewestFresh
  <2>3. CASE Reloads
      BY <2>3, ReloadsFresh
  <2>4. CASE Validates
      BY <2>4, ValidatesFresh
  <2>5. CASE RevalidationFails
      BY <2>5, RevalidationFailsFresh
  <2>6. CASE \E t \in Tenant : Changes(t) \/ Saves(t)
      BY <2>6, CommitFresh
  <2>7. CASE \E t \in Tenant : ReadsBack(t)
      BY <2>7, ReadsBackFresh
  <2>8. CASE \E t \in Tenant : Landing(t)
      BY <2>8, LandsFresh DEF Landing
  <2>9. CASE \E t \in Tenant : \E i \in DOMAIN reads[t] : ReadFails(t, i)
      BY <2>9, ReadFailsFresh
  <2>10. CASE \E c \in Call : \E t \in Tenant : \E asked \in Of(t) \cup {0} : Primes(c, t, asked)
      BY <2>10, PrimesFresh
  <2>11. CASE \E c \in Call : Continues(c)
      BY <2>11, RejoinsFresh, AnswersPrimedFresh, LoadsModuleFresh, AnswersLoadedFresh DEF Continues
  <2> QED BY <2>1, <2>2, <2>3, <2>4, <2>5, <2>6, <2>7, <2>8, <2>9, <2>10, <2>11
          DEF Next, Revalidates
<1> QED BY <1>1, <1>2 DEF FInv

\* Only an answer takes a call that is ready, or has its load, back to idle.
LEMMA OnlyAnswersEnd ==
    ASSUME FInv, [Next]_vars, NEW c \in Call, call[c].at \in {"ready", "loaded"},
           call'[c].at = "idle"
    PROVE  AnswersPrimed(c) \/ AnswersLoaded(c)
<1> SUFFICES ASSUME ~AnswersPrimed(c), ~AnswersLoaded(c) PROVE call'[c].at # "idle"
    OBVIOUS
<1>0. call \in [Call -> CallRec] /\ call[c].at # "idle"
    BY DEF FInv, Keeps
<1>1. CASE call' = call
    BY <1>0, <1>1
<1>2. CASE Validates \/ RevalidationFails
  <2>1. PICK joined, others : Answered(joined, others)
      BY <1>2 DEF Validates, RevalidationFails
  <2> QED BY <1>0, <2>1, AnsweredIs
<1>3. CASE \E t \in Tenant : Landing(t) \/ \E i \in DOMAIN reads[t] : ReadFails(t, i)
  <2>1. PICK t \in Tenant : Landing(t) \/ \E i \in DOMAIN reads[t] : ReadFails(t, i)
      BY <1>3
  <2>2. CASE Landing(t)
    <3>1. PICK i : LoadEnds(reads[t][i].kind, t, "loaded")
        BY <2>2 DEF Landing, Lands
    <3> QED BY <1>0, <3>1, LoadEndsIs
  <2>3. CASE \E i \in DOMAIN reads[t] : ReadFails(t, i)
    <3>1. PICK i : LoadEnds(reads[t][i].kind, t, "idle")
        BY <2>3 DEF ReadFails
    <3> QED BY <1>0, <3>1, LoadEndsIs
  <2> QED BY <2>1, <2>2, <2>3
<1>4. CASE \E d \in Call : \E t \in Tenant : \E asked \in Of(t) \cup {0} : Primes(d, t, asked)
  <2>1. PICK d \in Call : call[d].at = "idle" /\ \E m : call' = [call EXCEPT ![d] = m]
      BY <1>4 DEF Primes
  <2> QED BY <1>0, <2>1
<1>5. CASE \E d \in Call : Rejoins(d) \/ LoadsModule(d)
  <2>1. PICK d \in Call, at \in CallAts \ {"idle"} : call' = [call EXCEPT ![d].at = at]
      BY <1>5 DEF Rejoins, LoadsModule, At, CallAts
  <2> QED BY <1>0, <2>1 DEF CallRec, CallAts
<1>6. CASE \E d \in Call : AnswersPrimed(d) \/ AnswersLoaded(d)
  <2>1. PICK d \in Call \ {c} : call' = [call EXCEPT ![d] = Idle]
      BY <1>6 DEF AnswersPrimed, AnswersLoaded, Answers
  <2> QED BY <1>0, <2>1
<1>7. (\E d \in Call : Continues(d)) =>
        \E d \in Call : Rejoins(d) \/ LoadsModule(d) \/ AnswersPrimed(d) \/ AnswersLoaded(d)
    BY DEF Continues
<1>8. Tick \/ ReadsNewest \/ Reloads \/ UNCHANGED vars => call' = call
    BY DEF Tick, ReadsNewest, Reloads, vars
<1>9. (\E t \in Tenant : Changes(t) \/ Saves(t) \/ ReadsBack(t)) => call' = call
    BY DEF Changes, Saves, ReadsBack
<1> QED BY <1>1, <1>2, <1>3, <1>4, <1>5, <1>6, <1>7, <1>8, <1>9 DEF Next, Revalidates

\* What is held of a tenant reflects all that a call which goes on may count on.
LEMMA HeldIsFresh ==
    ASSUME FInv, NEW c \in Call, call[c].at \in {"ready", "loading", "loaded"},
           snap[call[c].tenant] # None
    PROVE  Reflects(c, snap[call[c].tenant])
<1> DEFINE t == call[c].tenant
<1>1. /\ t \in Tenant
      /\ \A r \in DOMAIN log : Needs(call[c], log, r) => r <= Cut(mark)
    BY CallTypes DEF CallIs
<1>2. Reach(reads[t], snap[t], Of(t), Cut(mark), reval)
    BY <1>1, Types
<1>3. \A r \in Of(t) : Needs(call[c], log, r) => r <= snap[t]
    BY <1>1, <1>2 DEF Reach, Covers, Of
<1> QED BY <1>3 DEF Reflects, Needs

\* A prime answers with a value that reflects every change committed more than the
\* staleness before it began, and the revision it asked for, for any number of
\* tenants, callers and changes and any cache: as long as no tenant is forgotten with
\* something of it under way, neither a revalidation it only joined nor loads that land
\* out of order or are left behind by a failed one make it answer with an older one.
THEOREM PrimesAreFresh == Spec => PrimeIsFresh
<1>1. Init => Counting /\ FInv
    BY InitFresh DEF Init, Counting
<1>2. Unforgotten' /\ FInv /\ [Next]_vars => FInv'
    BY FreshNext DEF Unforgotten
<1>3. ASSUME Unforgotten', FInv, [Next]_vars
      PROVE  \A c \in Call : call[c].at \in {"ready", "loaded"} /\ call'[c].at = "idle" =>
                 Reflects(c, snap'[call[c].tenant])
  <2> SUFFICES ASSUME NEW c \in Call, call[c].at \in {"ready", "loaded"}, call'[c].at = "idle"
               PROVE  Reflects(c, snap'[call[c].tenant])
      OBVIOUS
  <2> DEFINE t == call[c].tenant
  <2>1. snap[t] # None /\ snap'[t] = snap[t]
    <3>1. CASE AnswersPrimed(c)
      <4>1. t \in Tenant
          BY <1>3, <3>1, CallTypes DEF CallIs
      <4> QED BY <1>3, <3>1, <4>1 DEF AnswersPrimed, FInv, Keeps
    <3>2. CASE AnswersLoaded(c)
      <4>1. snap'[t] = snap[t]
          BY <1>3, <3>2, AnswersLoadedFresh DEF Unforgotten
      <4> QED BY <1>3, <3>2, <4>1 DEF AnswersLoaded, FInv, Keeps
    <3> QED BY <1>3, <3>1, <3>2, OnlyAnswersEnd
  <2>2. Reflects(c, snap[t])
      BY <1>3, <2>1, HeldIsFresh
  <2> QED BY <2>1, <2>2
<1>4. Counting /\ (Unforgotten => FInv) /\ [Next]_vars =>
          [Unforgotten' => \A c \in Call : call[c].at \in {"ready", "loaded"} /\ call'[c].at = "idle" =>
                 Reflects(c, snap'[call[c].tenant])]_vars
    BY <1>3, ForgottenStays
<1> QED BY <1>1, <1>2, <1>4, ForgottenStays, PTL DEF Spec, PrimeIsFresh
===============================================================================
