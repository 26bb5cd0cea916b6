--------------------------- MODULE VolumeNameProofs ---------------------------
(***************************************************************************)
(* Names and slugs for every UUID: the conversions can be undone, a name   *)
(* can be taken apart, and a cluster knows its volumes from all others.    *)
(***************************************************************************)
EXTENDS NamedVolumes, SequenceTheorems, TLAPS

\* A function on 1..n is a sequence of n elements.
LEMMA FunctionIsSeq ==
  ASSUME NEW S, NEW n \in Nat, NEW f \in [1..n -> S]
  PROVE  f \in Seq(S) /\ Len(f) = n
<1>1. f \in Seq(S)
  <2>1. [1..n -> S] \in {[1..m -> S] : m \in Nat}
    OBVIOUS
  <2>2. QED
    BY <2>1, SeqDef
<1>2. Len(f) \in Nat /\ DOMAIN f = 1..Len(f) /\ DOMAIN f = 1..n
  BY <1>1, LenProperties
<1>3. \A i \in Int : i \in 1..Len(f) <=> i \in 1..n
  BY <1>2
<1>4. ~(Len(f) < n) /\ ~(n < Len(f))
  BY <1>2, <1>3
<1>5. QED
  BY <1>1, <1>2, <1>4

-----------------------------------------------------------------------------
(* The text and the slug of a UUID                                          *)

\* Three digits and the two letters that they make.
LEMMA SextetType ==
  ASSUME NEW u \in UUIDs, NEW i \in 1..22
  PROVE  Sextet(u, i) \in 0..63
<1> DEFINE k == 3 * ((i - 1) \div 2)
<1>1. k \in 0..30
  OBVIOUS
<1>2. /\ Digit(u, k + 1) \in 0..15
      /\ Digit(u, k + 2) \in 0..15
      /\ Digit(u, k + 3) \in 0..15
  BY <1>1 DEF UUIDs, Digit
<1>3. \A a, b \in 0..15 : a * 4 + b \div 4 \in 0..63 /\ (a % 4) * 16 + b \in 0..63
  OBVIOUS
<1>4. QED
  BY <1>2, <1>3 DEF Sextet

\* Each letter of a slug stands for one sextet, and is a character.
LEMMA Letters ==
  ASSUME NEW v \in 0..63
  PROVE  /\ Base64Value(FromName(ToName(Base64Char(v)))) = v
         /\ ToName(Base64Char(v)) \in Char
BY DEF Base64Value, FromName, ToName, Base64Char, Char, LOW, DASH

LEMMA SlugType ==
  ASSUME NEW u \in UUIDs
  PROVE  uuid2slug(u) \in Seq(Char) /\ Len(uuid2slug(u)) = 22
<1>1. uuid2slug(u) \in [1..22 -> Char]
  BY SextetType, Letters DEF uuid2slug
<1>2. QED
  BY <1>1, FunctionIsSeq

\* slug2uuid undoes uuid2slug, for every UUID.
THEOREM SlugRoundTrip == \A u \in UUIDs : slug2uuid(uuid2slug(u)) = u
<1> SUFFICES ASSUME NEW u \in UUIDs PROVE slug2uuid(uuid2slug(u)) = u
  OBVIOUS
<1> DEFINE s == uuid2slug(u)
           value(i) == Base64Value(FromName(s[i]))
<1>1. \A i \in 1..22 : value(i) = Sextet(u, i)
  BY SextetType, Letters DEF uuid2slug
<1>2. ASSUME NEW k \in 1..32 PROVE slug2uuid(s)[k] = u[k]
  <2> DEFINE m == (k - 1) \div 3
             i == 2 * m + 1
  <2>1. m \in 0..10 /\ i \in 1..21 /\ i + 1 \in 1..22 /\ (i - 1) \div 2 = m
        /\ i % 2 = 1 /\ (i + 1) % 2 = 0 /\ (i + 1 - 1) \div 2 = m
    OBVIOUS
  <2> DEFINE a == Digit(u, 3 * m + 1)
             b == Digit(u, 3 * m + 2)
             c == Digit(u, 3 * m + 3)
  <2>2. a \in 0..15 /\ b \in 0..15 /\ c \in 0..15
    BY <2>1 DEF Digit, UUIDs
  <2>3. value(i) = a * 4 + b \div 4 /\ value(i + 1) = (b % 4) * 16 + c
    BY <1>1, <2>1 DEF Sextet
  <2>4. slug2uuid(s)[k] = CASE k % 3 = 1 -> value(i) \div 4
                            [] k % 3 = 2 -> (value(i) % 4) * 4 + value(i + 1) \div 16
                            [] OTHER     -> value(i + 1) % 16
    BY DEF slug2uuid
  <2> HIDE DEF a, b, c, value, s, i
  <2>5. /\ value(i) \div 4 = a
        /\ (value(i) % 4) * 4 + value(i + 1) \div 16 = b
        /\ value(i + 1) % 16 = c
    BY <2>2, <2>3
  <2>6. u[k] = CASE k % 3 = 1 -> a [] k % 3 = 2 -> b [] OTHER -> c
    BY DEF Digit, a, b, c
  <2>7. QED
    BY <2>4, <2>5, <2>6
<1>3. slug2uuid(s) = [k \in 1..32 |-> slug2uuid(s)[k]]
  BY DEF slug2uuid
<1>4. u = [k \in 1..32 |-> u[k]]
  BY DEF UUIDs
<1>5. QED
  BY <1>2, <1>3, <1>4

\* Two clusters have two slugs.
LEMMA SlugsDiffer ==
  ASSUME NEW c \in UUIDs, NEW e \in UUIDs, uuid2slug(c) = uuid2slug(e)
  PROVE  c = e
BY SlugRoundTrip

LEMMA TextType ==
  ASSUME NEW u \in UUIDs
  PROVE  Text(u) \in Seq(Char) /\ Len(Text(u)) = 36
<1>1. \A i \in 1..36 : i \notin Dashes => DigitAt(i) \in 1..32
  BY DEF Dashes, DigitAt
<1>2. \A d \in 0..15 : HexChar(d) \in Char
  BY DEF HexChar, Char
<1>3. ASSUME NEW i \in 1..36
      PROVE  (IF i \in Dashes THEN DASH ELSE HexChar(u[DigitAt(i)])) \in Char
  <2>1. CASE i \in Dashes
    BY <2>1 DEF DASH, Char
  <2>2. CASE i \notin Dashes
    <3>1. u[DigitAt(i)] \in 0..15
      BY <1>1, <2>2 DEF UUIDs
    <3>2. QED
      BY <1>2, <2>2, <3>1
  <2>3. QED
    BY <2>1, <2>2
<1>4. Text(u) \in [1..36 -> Char]
  BY <1>3 DEF Text
<1>5. QED
  BY <1>4, FunctionIsSeq

\* UUID(str(u)) is u.
LEMMA TextRoundTrip ==
  ASSUME NEW u \in UUIDs
  PROVE  FromText(Text(u)) = u
<1>1. \A k \in 1..32 : PlaceOf(k) \in 1..36 \ Dashes /\ DigitAt(PlaceOf(k)) = k
  BY DEF PlaceOf, DigitAt, Dashes
<1>2. \A d \in 0..15 : HexDigit(HexChar(d)) = d
  BY DEF HexDigit, HexChar
<1>3. \A k \in 1..32 : FromText(Text(u))[k] = u[k]
  BY <1>1, <1>2 DEF FromText, Text, UUIDs
<1>4. QED
  BY <1>3 DEF FromText, UUIDs

-----------------------------------------------------------------------------
(* The parts of a name                                                      *)

\* The elements of a sequence of two parts.
LEMMA TwoParts ==
  \A s, r \in Seq(Char) :
    /\ s \o r \in Seq(Char) /\ Len(s \o r) = Len(s) + Len(r)
    /\ \A i \in 1..Len(s) : (s \o r)[i] = s[i]
    /\ \A i \in 1..Len(r) : (s \o r)[i + Len(s)] = r[i]
<1> SUFFICES ASSUME NEW s \in Seq(Char), NEW r \in Seq(Char)
             PROVE  /\ s \o r \in Seq(Char) /\ Len(s \o r) = Len(s) + Len(r)
                    /\ \A i \in 1..Len(s) : (s \o r)[i] = s[i]
                    /\ \A i \in 1..Len(r) : (s \o r)[i + Len(s)] = r[i]
  OBVIOUS
<1> DEFINE c == s \o r
<1>1. Len(s) \in Nat /\ Len(r) \in Nat
  BY LenProperties
<1>2. /\ c \in Seq(Char) /\ Len(c) = Len(s) + Len(r)
      /\ \A i \in 1..Len(s) + Len(r) : c[i] = IF i <= Len(s) THEN s[i] ELSE r[i - Len(s)]
  BY ConcatProperties
<1> HIDE DEF c
<1>3. \A i \in 1..Len(s) : c[i] = s[i]
  BY <1>1, <1>2
<1>4. ASSUME NEW i \in 1..Len(r) PROVE c[i + Len(s)] = r[i]
  <2>1. /\ i + Len(s) \in 1..Len(s) + Len(r)
        /\ ~(i + Len(s) <= Len(s)) /\ i + Len(s) - Len(s) = i
    BY <1>1
  <2>2. QED
    BY <1>2, <2>1
<1>5. QED
  BY <1>2, <1>3, <1>4 DEF c

\* The part of a sequence that is known.
LEMMA PartOf ==
  ASSUME NEW s \in Seq(Char), NEW r \in Seq(Char), NEW m \in Nat,
         m + Len(r) <= Len(s), \A i \in 1..Len(r) : s[i + m] = r[i]
  PROVE  SubSeq(s, m + 1, m + Len(r)) = r
<1> DEFINE n == Len(r)
           b == SubSeq(s, m + 1, m + n)
<1>0. n \in Nat
  BY LenProperties
<1> HIDE DEF n
<1>1. \A i \in (m + 1)..(m + n) : s[i] \in Char
  BY <1>0, ElementOfSeq, LenProperties DEF n
<1>2. /\ b \in Seq(Char)
      /\ Len(b) = IF m + 1 <= m + n THEN m + n - (m + 1) + 1 ELSE 0
      /\ \A i \in 1..(m + n - (m + 1) + 1) : b[i] = s[m + 1 + i - 1]
  BY <1>0, <1>1, SubSeqProperties
<1> HIDE DEF b
<1>3. Len(b) = n
  BY <1>0, <1>2
<1>4. ASSUME NEW i \in 1..n PROVE b[i] = r[i]
  <2>1. i \in 1..(m + n - (m + 1) + 1) /\ m + 1 + i - 1 = i + m
    BY <1>0
  <2>2. QED
    BY <1>2, <2>1 DEF n
<1>5. b = r
  BY <1>2, <1>3, <1>4, SeqEqual DEF n
<1>6. QED
  BY <1>5 DEF b, n

\* What was put into a name is what is taken out of it: the prefix, the dataset and
\* the slug.
LEMMA Parts ==
  ASSUME NEW d \in UUIDs, NEW c \in UUIDs
  PROVE  LET name == build_vol_name(d, uuid2slug(c)) IN
           /\ name \in Seq(Char) /\ Len(name) = 61
           /\ StartsWith(name, VOL_NAME_FLOCKER_PREFIX)
           /\ get_dataset_id_from_vol_name(name) = d
           /\ get_cluster_id_slug_from_vol_name(name) = uuid2slug(c)
<1>1. /\ VOL_NAME_FLOCKER_PREFIX \in Seq(Char) /\ Len(VOL_NAME_FLOCKER_PREFIX) = 2
      /\ VOL_NAME_DELIMITER_CLUSTER_HASHED \in Seq(Char)
      /\ Len(VOL_NAME_DELIMITER_CLUSTER_HASHED) = 1
  BY DEF VOL_NAME_FLOCKER_PREFIX, VOL_NAME_DELIMITER_CLUSTER_HASHED, Char, LOW
<1>2. PICK p \in Seq(Char), q \in Seq(Char), text \in Seq(Char), slug \in Seq(Char) :
        /\ p = VOL_NAME_FLOCKER_PREFIX /\ Len(p) = 2
        /\ q = VOL_NAME_DELIMITER_CLUSTER_HASHED /\ Len(q) = 1
        /\ text = Text(d) /\ Len(text) = 36
        /\ slug = uuid2slug(c) /\ Len(slug) = 22
  BY <1>1, TextType, SlugType
<1> DEFINE one == p \o text
           two == one \o q
           name == two \o slug
<1>3. build_vol_name(d, uuid2slug(c)) = name
  BY <1>2 DEF build_vol_name
<1>4. /\ one \in Seq(Char) /\ Len(one) = Len(p) + Len(text)
      /\ \A i \in 1..Len(p) : one[i] = p[i]
      /\ \A i \in 1..Len(text) : one[i + Len(p)] = text[i]
  BY TwoParts
<1> HIDE DEF one
<1>5. /\ two \in Seq(Char) /\ Len(two) = Len(one) + Len(q)
      /\ \A i \in 1..Len(one) : two[i] = one[i]
  BY <1>4, TwoParts
<1> HIDE DEF two
<1>6. /\ name \in Seq(Char) /\ Len(name) = Len(two) + Len(slug)
      /\ \A i \in 1..Len(two) : name[i] = two[i]
      /\ \A i \in 1..Len(slug) : name[i + Len(two)] = slug[i]
  BY <1>5, TwoParts
<1> HIDE DEF name
<1>7. Len(one) = 38 /\ Len(two) = 39 /\ Len(name) = 61
  BY <1>2, <1>4, <1>5, <1>6
<1>8. ASSUME NEW i \in 1..38 PROVE name[i] = one[i]
  <2>1. i \in 1..Len(one) /\ i \in 1..Len(two)
    BY <1>7
  <2>2. two[i] = one[i]
    BY <1>5, <2>1
  <2>3. name[i] = two[i]
    BY <1>6, <2>1
  <2>4. QED
    BY <2>2, <2>3
<1>9. SubSeq(name, 1, 2) = p
  <2>1. ASSUME NEW i \in 1..Len(p) PROVE name[i + 0] = p[i]
    <3>1. i \in 1..38 /\ i + 0 = i
      BY <1>2
    <3>2. one[i] = p[i]
      BY <1>4
    <3>3. name[i] = one[i]
      BY <1>8, <3>1
    <3>4. QED
      BY <3>1, <3>2, <3>3
  <2>2. 0 + Len(p) <= Len(name)
    BY <1>2, <1>7
  <2>3. SubSeq(name, 0 + 1, 0 + Len(p)) = p
    BY <1>6, <2>1, <2>2, PartOf
  <2>4. QED
    BY <1>2, <2>3
<1>10. SubSeq(name, 3, 38) = text
  <2>1. ASSUME NEW i \in 1..Len(text) PROVE name[i + 2] = text[i]
    <3>1. i + 2 \in 1..38 /\ i + 2 = i + Len(p)
      BY <1>2
    <3>2. one[i + Len(p)] = text[i]
      BY <1>4
    <3>3. name[i + 2] = one[i + 2]
      BY <1>8, <3>1
    <3>4. QED
      BY <3>1, <3>2, <3>3
  <2>2. 2 + Len(text) <= Len(name)
    BY <1>2, <1>7
  <2>3. SubSeq(name, 2 + 1, 2 + Len(text)) = text
    BY <1>6, <2>1, <2>2, PartOf
  <2>4. QED
    BY <1>2, <2>3
<1>11. SubSeq(name, 40, 61) = slug
  <2>1. ASSUME NEW i \in 1..Len(slug) PROVE name[i + 39] = slug[i]
    <3>1. i + 39 = i + Len(two)
      BY <1>7
    <3>2. QED
      BY <1>6, <3>1
  <2>2. 39 + Len(slug) <= Len(name)
    BY <1>2, <1>7
  <2>3. SubSeq(name, 39 + 1, 39 + Len(slug)) = slug
    BY <1>6, <2>1, <2>2, PartOf
  <2>4. QED
    BY <1>2, <2>3
<1>12. START_CLUSTER_HASHED_INDEX = 39 /\ END_INDEX_DATASET_ID_IN_VOL_NAME = 38
  BY <1>1 DEF START_CLUSTER_HASHED_INDEX, END_INDEX_DATASET_ID_IN_VOL_NAME,
     NUM_CHARS_IN_UUID
<1>13. StartsWith(name, VOL_NAME_FLOCKER_PREFIX)
  BY <1>2, <1>7, <1>9 DEF StartsWith, Slice
<1>14. get_dataset_id_from_vol_name(name) = d
  <2>1. Slice(name, 2, 38) = Text(d)
    BY <1>2, <1>7, <1>10 DEF Slice
  <2>2. QED
    BY <1>1, <1>12, <2>1, TextRoundTrip DEF get_dataset_id_from_vol_name
<1>15. get_cluster_id_slug_from_vol_name(name) = uuid2slug(c)
  BY <1>2, <1>7, <1>11, <1>12 DEF get_cluster_id_slug_from_vol_name, Slice
<1>16. QED
  BY <1>3, <1>6, <1>7, <1>13, <1>14, <1>15

\* build_vol_name can be undone: every name tells its dataset and the slug of its
\* cluster.
THEOREM NameRoundTrip ==
  \A d, c \in UUIDs :
    /\ get_dataset_id_from_vol_name(build_vol_name(d, uuid2slug(c))) = d
    /\ get_cluster_id_slug_from_vol_name(build_vol_name(d, uuid2slug(c))) = uuid2slug(c)
BY Parts

\* A driver recognises the names that the drivers of its own cluster gave, and no
\* others.
THEOREM OwnNames ==
  \A d, c, e \in UUIDs : IsClusterVolume(build_vol_name(d, uuid2slug(c)), e) <=> c = e
BY Parts, SlugsDiffer DEF IsClusterVolume

-----------------------------------------------------------------------------
(* Clusters that share a storage system                                     *)

\* No two datasets, and no two clusters, have one name.
LEMMA NamesDiffer ==
  ASSUME NEW c \in Clusters, NEW d \in Datasets, NEW e \in Clusters, NEW b \in Datasets,
         NameIn(c, d) = NameIn(e, b)
  PROVE  c = e /\ d = b
BY Parts, SlugsDiffer, NamesAssumption DEF NameIn

\* The names of the other volumes are recognised by no cluster.
LEMMA OthersUnknown ==
  ASSUME NEW name \in OtherNames, NEW c \in Clusters
  PROVE  ~IsClusterVolume(name, c)
<1> SUFFICES ASSUME IsClusterVolume(name, c) PROVE FALSE
  OBVIOUS
<1>1. name \in Seq(Char) /\ Len(name) \in Nat
  BY NamesAssumption, LenProperties
<1>2. PICK slug \in Seq(Char) : slug = uuid2slug(c) /\ Len(slug) = 22
  BY NamesAssumption, SlugType
<1>3. START_CLUSTER_HASHED_INDEX = 39
  BY DEF START_CLUSTER_HASHED_INDEX, NUM_CHARS_IN_UUID, VOL_NAME_FLOCKER_PREFIX,
         VOL_NAME_DELIMITER_CLUSTER_HASHED
<1>4. SubSeq(name, 40, Len(name)) = slug
  BY <1>1, <1>2, <1>3 DEF IsClusterVolume, get_cluster_id_slug_from_vol_name, Slice
<1>5. \A i \in 40..Len(name) : name[i] \in Char
  BY <1>1, ElementOfSeq
<1>6. PICK n \in Nat : n = Len(name)
  BY <1>1
<1>7. n = 61
  <2>1. Len(SubSeq(name, 40, n)) = IF 40 <= n THEN n - 40 + 1 ELSE 0
    BY <1>5, <1>6, SubSeqProperties
  <2>2. SubSeq(name, 40, n) = slug
    BY <1>4, <1>6
  <2>3. 22 = IF 40 <= n THEN n - 40 + 1 ELSE 0
    BY <1>2, <2>1, <2>2
  <2>4. QED
    BY <2>3
<1>8. SubSeq(name, 1, 2) = VOL_NAME_FLOCKER_PREFIX
  BY <1>6, <1>7 DEF IsClusterVolume, StartsWith, Slice, VOL_NAME_FLOCKER_PREFIX
<1>9. name[1] = 102 /\ name[2] = LOW
  <2>1. ASSUME NEW i \in 1..2 PROVE name[i] \in Char
    <3>1. i \in 1..Len(name)
      BY <1>6, <1>7
    <3>2. QED
      BY <1>1, <3>1, ElementOfSeq
  <2>2. \A i \in 1..(2 - 1 + 1) : SubSeq(name, 1, 2)[i] = name[1 + i - 1]
    BY <2>1, SubSeqProperties
  <2>3. SubSeq(name, 1, 2)[1] = name[1] /\ SubSeq(name, 1, 2)[2] = name[2]
    BY <2>2
  <2>4. VOL_NAME_FLOCKER_PREFIX[1] = 102 /\ VOL_NAME_FLOCKER_PREFIX[2] = LOW
    BY DEF VOL_NAME_FLOCKER_PREFIX
  <2>5. QED
    BY <1>8, <2>3, <2>4
<1>10. QED
  BY <1>2, <1>4, <1>6, <1>7, <1>9, NamesAssumption

\* A volume that is made for an entry is listed by the cluster of the entry, as it is,
\* and by no other.
LEMMA MadeIsListed ==
  ASSUME NEW c \in Clusters, NEW o \in [wwn : Wwns, dataset : Datasets], NEW e \in Clusters
  PROVE  /\ IsClusterVolume(MadeFor(c, o).name, e) <=> c = e
         /\ Entry(MadeFor(c, o)) = o
<1>1. c \in UUIDs /\ e \in UUIDs /\ o.dataset \in UUIDs
  BY NamesAssumption
<1>2. MadeFor(c, o).name = build_vol_name(o.dataset, uuid2slug(c))
        /\ MadeFor(c, o).wwn = o.wwn
  BY DEF MadeFor, NameIn
<1>3. QED
  BY <1>1, <1>2, OwnNames, NameRoundTrip DEF Entry

\* What a cluster lists is what it made and has.
LEMMA ListedAreOwned == NameIInv => \A c \in Clusters : Listed(c) = owned[c]
<1> SUFFICES ASSUME NameIInv, NEW c \in Clusters PROVE Listed(c) = owned[c]
  OBVIOUS
<1>1. \A e \in Clusters : owned[e] \subseteq [wwn : Wwns, dataset : Datasets]
  BY DEF NameIInv
<1>2. ASSUME NEW v \in volumes, IsClusterVolume(v.name, c)
      PROVE  Entry(v) \in owned[c]
  <2>1. v.name \notin OtherNames
    BY <1>2, OthersUnknown
  <2>2. PICK e \in Clusters : \E o \in owned[e] : v = MadeFor(e, o)
    BY <2>1 DEF NameIInv
  <2>3. PICK o \in owned[e] : v = MadeFor(e, o)
    BY <2>2
  <2>4. QED
    BY <1>1, <1>2, <2>3, MadeIsListed
<1>3. ASSUME NEW o \in owned[c]
      PROVE  \E v \in volumes : IsClusterVolume(v.name, c) /\ Entry(v) = o
  BY <1>1, <1>3, MadeIsListed DEF NameIInv
<1>4. QED
  BY <1>2, <1>3 DEF Listed

\* A WWN is in the store of one cluster only, and there once.
LEMMA OneOwner ==
  ASSUME NameIInv, NEW c \in Clusters, NEW o \in owned[c], NEW e \in Clusters,
         NEW q \in owned[e], o.wwn = q.wwn
  PROVE  c = e /\ o = q
<1>1. o \in [wwn : Wwns, dataset : Datasets] /\ q \in [wwn : Wwns, dataset : Datasets]
  BY DEF NameIInv
<1>2. MadeFor(c, o) \in volumes /\ MadeFor(e, q) \in volumes
  BY DEF NameIInv
<1>3. MadeFor(c, o).wwn = MadeFor(e, q).wwn
  BY DEF MadeFor
<1>4. MadeFor(c, o) = MadeFor(e, q)
  BY <1>2, <1>3 DEF NameIInv
<1>5. o.dataset \in Datasets /\ q.dataset \in Datasets
        /\ NameIn(c, o.dataset) = NameIn(e, q.dataset)
  BY <1>1, <1>4 DEF MadeFor
<1>6. c = e /\ o.dataset = q.dataset
  BY <1>5, NamesDiffer
<1>7. QED
  BY <1>1, <1>6

\* A new volume gets a WWN that no volume has.
LEMMA CreateKeepsNames ==
  ASSUME NameIInv, NEW c \in Clusters, NEW d \in Datasets, CreateNamed(c, d)
  PROVE  /\ NameIInv'
         /\ \E w \in FreeWwns :
              owned' = [owned EXCEPT ![c] = owned[c] \cup {[wwn |-> w, dataset |-> d]}]
<1>1. PICK w \in FreeWwns :
        /\ volumes' = volumes \cup {[wwn |-> w, name |-> NameIn(c, d)]}
        /\ owned' = [owned EXCEPT ![c] = owned[c] \cup {[wwn |-> w, dataset |-> d]}]
  BY DEF CreateNamed
<1> DEFINE o == [wwn |-> w, dataset |-> d]
<1>2. w \in Wwns /\ \A v \in volumes : v.wwn # w
  BY DEF FreeWwns
<1>3. MadeFor(c, o) = [wwn |-> w, name |-> NameIn(c, d)]
  BY DEF MadeFor
<1>4. /\ owned' \in [Clusters -> SUBSET [wwn : Wwns, dataset : Datasets]]
      /\ \A e \in Clusters : owned'[e] = IF e = c THEN owned[c] \cup {o} ELSE owned[e]
  BY <1>1, <1>2 DEF NameIInv
<1>5. ASSUME NEW v \in volumes'
      PROVE  v.name \in OtherNames
               \/ \E e \in Clusters : \E q \in owned'[e] : v = MadeFor(e, q)
  BY <1>1, <1>3, <1>4 DEF NameIInv
<1>6. ASSUME NEW e \in Clusters, NEW q \in owned'[e] PROVE MadeFor(e, q) \in volumes'
  BY <1>1, <1>3, <1>4 DEF NameIInv
<1>7. ASSUME NEW u \in volumes', NEW v \in volumes', u.wwn = v.wwn PROVE u = v
  BY <1>1, <1>2, <1>7 DEF NameIInv
<1>8. QED
  BY <1>1, <1>4, <1>5, <1>6, <1>7 DEF NameIInv, MadeFor

\* A volume that is destroyed is one of its cluster, and the only one with its WWN.
LEMMA DestroyKeepsNames ==
  ASSUME NameIInv, NEW c \in Clusters, NEW o, DestroyNamed(c, o)
  PROVE  /\ NameIInv'
         /\ o \in owned[c] /\ owned' = [owned EXCEPT ![c] = owned[c] \ {o}]
<1>1. /\ o \in owned[c]
      /\ volumes' = {v \in volumes : v.wwn # o.wwn}
      /\ owned' = [owned EXCEPT ![c] = {q \in owned[c] : q.wwn # o.wwn}]
  BY ListedAreOwned DEF DestroyNamed
<1>2. {q \in owned[c] : q.wwn # o.wwn} = owned[c] \ {o}
  BY <1>1, OneOwner
<1>3. owned' = [owned EXCEPT ![c] = owned[c] \ {o}]
  BY <1>1, <1>2
<1>4. /\ owned' \in [Clusters -> SUBSET [wwn : Wwns, dataset : Datasets]]
      /\ \A e \in Clusters : owned'[e] = IF e = c THEN owned[c] \ {o} ELSE owned[e]
  BY <1>3 DEF NameIInv
<1>5. ASSUME NEW v \in volumes', v.name \notin OtherNames
      PROVE  \E e \in Clusters : \E q \in owned'[e] : v = MadeFor(e, q)
  <2>1. v \in volumes /\ v.wwn # o.wwn
    BY <1>1
  <2>2. PICK e \in Clusters : \E q \in owned[e] : v = MadeFor(e, q)
    BY <1>5, <2>1 DEF NameIInv
  <2>3. PICK q \in owned[e] : v = MadeFor(e, q)
    BY <2>2
  <2>4. q # o
    BY <2>1, <2>3 DEF MadeFor
  <2>5. QED
    BY <1>4, <2>3, <2>4
<1>6. ASSUME NEW e \in Clusters, NEW q \in owned'[e] PROVE MadeFor(e, q) \in volumes'
  <2>1. q \in owned[e] /\ ~(e = c /\ q = o)
    BY <1>4
  <2>2. q.wwn # o.wwn
    BY <1>1, <2>1, OneOwner
  <2>3. MadeFor(e, q) \in volumes /\ MadeFor(e, q).wwn = q.wwn
    BY <2>1 DEF NameIInv, MadeFor
  <2>4. QED
    BY <1>1, <2>2, <2>3
<1>7. \A u, v \in volumes' : u.wwn = v.wwn => u = v
  BY <1>1 DEF NameIInv
<1>8. QED
  BY <1>1, <1>3, <1>4, <1>5, <1>6, <1>7 DEF NameIInv, MadeFor

\* The other users touch no volume of the clusters.
LEMMA OtherUsersKeepNames == NameIInv /\ OtherUsers => NameIInv'
<1> SUFFICES ASSUME NameIInv, OtherUsers PROVE NameIInv'
  OBVIOUS
<1>1. UNCHANGED owned
  BY DEF OtherUsers
<1>2. CASE \E w \in FreeWwns, n \in OtherNames :
             volumes' = volumes \cup {[wwn |-> w, name |-> n]}
  <2>1. PICK w \in FreeWwns, n \in OtherNames :
          volumes' = volumes \cup {[wwn |-> w, name |-> n]}
    BY <1>2
  <2>2. \A v \in volumes : v.wwn # w
    BY DEF FreeWwns
  <2>3. QED
    BY <1>1, <2>1, <2>2 DEF NameIInv, MadeFor
<1>3. ASSUME NEW x \in volumes, x.name \in OtherNames, volumes' = volumes \ {x}
      PROVE  NameIInv'
  <2>1. ASSUME NEW e \in Clusters, NEW q \in owned[e] PROVE MadeFor(e, q) # x
    <3>1. q \in [wwn : Wwns, dataset : Datasets]
      BY DEF NameIInv
    <3>2. IsClusterVolume(MadeFor(e, q).name, e)
      BY <3>1, MadeIsListed
    <3>3. QED
      BY <1>3, <3>2, OthersUnknown
  <2>2. QED
    BY <1>1, <1>3, <2>1 DEF NameIInv, MadeFor
<1>4. QED
  BY <1>2, <1>3 DEF OtherUsers

LEMMA NamesInitially == NameInit => NameIInv
BY DEF NameInit, NameIInv

LEMMA NamesKept == NameIInv /\ [NameNext]_nameVars => NameIInv'
<1> SUFFICES ASSUME NameIInv, [NameNext]_nameVars PROVE NameIInv'
  OBVIOUS
<1>1. CASE UNCHANGED nameVars
  BY <1>1 DEF nameVars, NameIInv, MadeFor
<1>2. CASE NameNext
  BY <1>2, CreateKeepsNames, DestroyKeepsNames, OtherUsersKeepNames DEF NameNext
<1>3. QED
  BY <1>1, <1>2

\* NameIInv is inductive: no volume of the drivers has a name or a WWN that is not its
\* own.
THEOREM NameInvariance == NameSpec => []NameIInv
BY NamesInitially, NamesKept, PTL DEF NameSpec

\* Whatever the clusters create and destroy, list_volumes finds exactly the volumes of
\* its own cluster, and their datasets.
THEOREM ClustersFindTheirOwn == NameSpec => []OwnVolumesFound
<1>1. NameIInv => OwnVolumesFound
  BY ListedAreOwned DEF OwnVolumesFound
<1>2. QED
  BY <1>1, NameInvariance, PTL

\* The names of the drivers differ, and slug2uuid gives the cluster of each.
THEOREM NamesTellTheCluster == NameSpec => []NamesIdentify
<1>1. NameIInv => NamesIdentify
  <2> SUFFICES ASSUME NameIInv PROVE NamesIdentify
    OBVIOUS
  <2>1. ASSUME NEW c \in Clusters, NEW e \in Clusters, NEW o \in owned[c], NEW q \in owned[e],
               NameIn(c, o.dataset) = NameIn(e, q.dataset)
        PROVE  c = e /\ o.dataset = q.dataset
    <3>1. o.dataset \in Datasets /\ q.dataset \in Datasets
      BY DEF NameIInv
    <3>2. QED
      BY <2>1, <3>1, NamesDiffer
  <2>2. ASSUME NEW c \in Clusters, NEW v \in volumes, IsClusterVolume(v.name, c)
        PROVE  slug2uuid(get_cluster_id_slug_from_vol_name(v.name)) = c
    <3>1. c \in UUIDs
      BY NamesAssumption
    <3>2. get_cluster_id_slug_from_vol_name(v.name) = uuid2slug(c)
      BY <2>2 DEF IsClusterVolume
    <3>3. QED
      BY <3>1, <3>2, SlugRoundTrip
  <2>3. QED
    BY <2>1, <2>2 DEF NamesIdentify
<1>2. QED
  BY <1>1, NameInvariance, PTL

-----------------------------------------------------------------------------
(* The refinement                                                           *)

\* Under the mapping, the store of a cluster is what it made and has.
StoreOwned == [c \in Clusters |-> Listed(c)] = owned

LEMMA StoreIsOwned == NameIInv => StoreOwned
BY ListedAreOwned DEF NameIInv, StoreOwned

\* Each step of a driver is a step of the private stores, or none.
LEMMA StepIsPrivate ==
  ASSUME NameIInv, StoreOwned, StoreOwned', [NameNext]_nameVars
  PROVE  [Private!StoreNext]_([c \in Clusters |-> Listed(c)])
<1> DEFINE store == [c \in Clusters |-> Listed(c)]
<1>1. store = owned /\ store' = owned'
  BY DEF StoreOwned
<1>2. ASSUME NEW c \in Clusters, NEW d \in Datasets, CreateNamed(c, d)
      PROVE  Private!StoreNext
  <2>1. PICK w \in FreeWwns :
          owned' = [owned EXCEPT ![c] = owned[c] \cup {[wwn |-> w, dataset |-> d]}]
    BY <1>2, CreateKeepsNames
  <2>2. w \in Wwns
    BY DEF FreeWwns
  <2>3. ASSUME NEW e \in Clusters, NEW o \in owned[e] PROVE o.wwn # w
    <3>1. MadeFor(e, o) \in volumes /\ MadeFor(e, o).wwn = o.wwn
      BY DEF NameIInv, MadeFor
    <3>2. QED
      BY <3>1 DEF FreeWwns
  <2>4. Private!Add(c, w, d)
    BY <1>1, <2>1, <2>3 DEF Private!Add, Private!WwnsOf
  <2>5. QED
    BY <2>2, <2>4 DEF Private!StoreNext
<1>3. ASSUME NEW c \in Clusters, NEW o \in Listed(c), DestroyNamed(c, o)
      PROVE  Private!StoreNext
  <2>1. o \in owned[c] /\ owned' = [owned EXCEPT ![c] = owned[c] \ {o}]
    BY <1>3, DestroyKeepsNames
  <2>2. Private!Remove(c, o)
    BY <1>1, <2>1 DEF Private!Remove
  <2>3. QED
    BY <1>1, <2>1, <2>2 DEF Private!StoreNext
<1>4. CASE OtherUsers \/ UNCHANGED nameVars
  BY <1>1, <1>4 DEF OtherUsers, nameVars
<1>5. QED
  BY <1>2, <1>3, <1>4 DEF NameNext

\* One storage with names is as good as a store for each cluster.
THEOREM NamesArePrivate == NameSpec => StoresArePrivate
<1>1. NameInit => Private!StoreInit
  BY NamesInitially, StoreIsOwned DEF NameInit, Private!StoreInit, StoreOwned
<1>2. NameIInv /\ StoreOwned /\ StoreOwned' /\ [NameNext]_nameVars
        => [Private!StoreNext]_([c \in Clusters |-> Listed(c)])
  BY StepIsPrivate
<1>3. QED
  BY <1>1, <1>2, StoreIsOwned, NamesInitially, NamesKept, PTL
     DEF NameSpec, StoresArePrivate, Private!StoreSpec

=============================================================================
