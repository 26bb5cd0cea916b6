------------------------------ MODULE VolumeName ------------------------------
(***************************************************************************)
(* The names of volumes (ibm_storage_blockdevice.py, lib/constants.py):    *)
(*                                                                         *)
(*     f_<dataset id, 36 characters>_<slug of the cluster id>              *)
(*                                                                         *)
(* The slug is the Base64 text of the 16 bytes of the id, with two letters *)
(* replaced.  Nothing but its name tells whose a volume is.  A character   *)
(* is its ASCII code, a text a sequence of them, and a UUID the sequence   *)
(* of its 32 hexadecimal digits.                                           *)
(***************************************************************************)
EXTENDS Integers, Sequences

UUIDs == [1..32 -> 0..15]

Char == 0..127

DASH == 45   \* '-'
LOW  == 95   \* '_'

-----------------------------------------------------------------------------
(* The text of a UUID                                                       *)

HexChar(d)  == IF d < 10 THEN 48 + d ELSE 87 + d
HexDigit(c) == IF c < 58 THEN c - 48 ELSE c - 87

\* Before which digit a '-' stands, and how many precede each place.
Dashes == {9, 14, 19, 24}
DigitAt(i) == IF i < 9 THEN i ELSE IF i < 14 THEN i - 1 ELSE IF i < 19 THEN i - 2
              ELSE IF i < 24 THEN i - 3 ELSE i - 4
PlaceOf(k) == IF k < 9 THEN k ELSE IF k < 13 THEN k + 1 ELSE IF k < 17 THEN k + 2
              ELSE IF k < 21 THEN k + 3 ELSE k + 4

\* str(UUID)
Text(u) == [i \in 1..36 |-> IF i \in Dashes THEN DASH ELSE HexChar(u[DigitAt(i)])]

\* UUID(text)
FromText(s) == [k \in 1..32 |-> HexDigit(s[PlaceOf(k)])]

-----------------------------------------------------------------------------
(* The slug                                                                 *)

\* The letters of Base64: A..Z, a..z, 0..9, + and /.
Base64Char(v) == IF v < 26 THEN 65 + v ELSE IF v < 52 THEN 71 + v
                 ELSE IF v < 62 THEN v - 4 ELSE IF v = 62 THEN 43 ELSE 47

Base64Value(c) == IF c = 43 THEN 62 ELSE IF c = 47 THEN 63 ELSE IF c < 58 THEN c + 4
                  ELSE IF c < 91 THEN c - 65 ELSE c - 71

\* .replace('/', '_').replace('+', '-')
ToName(c) == IF c = 47 THEN LOW ELSE IF c = 43 THEN DASH ELSE c

\* Mutant: only one of the two letters is replaced back.
FromNameHalf(c) == IF c = LOW THEN 47 ELSE c

\* .replace('_', '/').replace('-', '+')
FromName(c) == IF c = LOW THEN 47 ELSE IF c = DASH THEN 43 ELSE c

\* Three digits make two letters; the digits that are missing at the end are 0.
Digit(u, k) == IF k <= 32 THEN u[k] ELSE 0

Sextet(u, i) ==
  LET k == 3 * ((i - 1) \div 2)
  IN  IF i % 2 = 1 THEN Digit(u, k + 1) * 4 + Digit(u, k + 2) \div 4
      ELSE (Digit(u, k + 2) % 4) * 16 + Digit(u, k + 3)

\* uuid2slug, whose rstrip takes the padding "==" away.
uuid2slug(u) == [i \in 1..22 |-> ToName(Base64Char(Sextet(u, i)))]

\* slug2uuid
slug2uuid(s) ==
  LET value(i) == Base64Value(FromName(s[i]))
  IN  [k \in 1..32 |->
        LET i == 2 * ((k - 1) \div 3) + 1
        IN  CASE k % 3 = 1 -> value(i) \div 4
              [] k % 3 = 2 -> (value(i) % 4) * 4 + value(i + 1) \div 16
              [] OTHER     -> value(i + 1) % 16]

-----------------------------------------------------------------------------
(* The name                                                                 *)

VOL_NAME_FLOCKER_PREFIX == <<102, LOW>>
VOL_NAME_DELIMITER_CLUSTER_HASHED == <<LOW>>

NUM_CHARS_IN_UUID == 36
START_CLUSTER_HASHED_INDEX ==
  Len(VOL_NAME_FLOCKER_PREFIX) + NUM_CHARS_IN_UUID
    + Len(VOL_NAME_DELIMITER_CLUSTER_HASHED)
END_INDEX_DATASET_ID_IN_VOL_NAME == NUM_CHARS_IN_UUID + Len(VOL_NAME_FLOCKER_PREFIX)

\* Python's s[from:to], of which a short string has less.
Slice(s, from, to) == SubSeq(s, from + 1, IF to > Len(s) THEN Len(s) ELSE to)

StartsWith(s, prefix) == Slice(s, 0, Len(prefix)) = prefix

\* Mutant: the name does not tell the cluster.
BuildNameWithoutSlug(dataset, slug) == VOL_NAME_FLOCKER_PREFIX \o Text(dataset)

build_vol_name(dataset, slug) ==
  VOL_NAME_FLOCKER_PREFIX \o Text(dataset) \o VOL_NAME_DELIMITER_CLUSTER_HASHED \o slug

get_dataset_id_from_vol_name(name) ==
  FromText(Slice(name, Len(VOL_NAME_FLOCKER_PREFIX), END_INDEX_DATASET_ID_IN_VOL_NAME))

get_cluster_id_slug_from_vol_name(name) ==
  Slice(name, START_CLUSTER_HASHED_INDEX, Len(name))

\* Mutant: the prefix of the name is not looked at.
IsClusterVolumeBySlug(name, cluster) ==
  get_cluster_id_slug_from_vol_name(name) = uuid2slug(cluster)

\* _is_cluster_volume
IsClusterVolume(name, cluster) ==
  /\ StartsWith(name, VOL_NAME_FLOCKER_PREFIX)
  /\ get_cluster_id_slug_from_vol_name(name) = uuid2slug(cluster)

=============================================================================
