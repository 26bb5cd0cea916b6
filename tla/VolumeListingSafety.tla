------------------------- MODULE VolumeListingSafety -------------------------
(***************************************************************************)
(* What a listing tells, although the volumes move while it is made.  A    *)
(* history variable remembers the situations each volume has been in since *)
(* the listing began.                                                      *)
(***************************************************************************)
EXTENDS VolumeListing

VARIABLE been   \* been[w]: the situations of w during this listing

historyVars == <<listingVars, been>>

Situation(w) == [exists |-> w \in vols, at |-> mappedTo[w]]
Situations   == [exists : BOOLEAN, at : SUBSET Hosts]

Free == [exists |-> TRUE, at |-> {}]

NothingSeen == [w \in Volumes |-> {}]

Observe ==
  been' = IF Listing' THEN [w \in Volumes |-> been[w] \cup {Situation(w)'}]
                      ELSE NothingSeen

HistoryInit == Init /\ ListInit /\ been = NothingSeen
HistoryNext == ListingNext /\ Observe
HistorySpec == HistoryInit /\ [][HistoryNext]_historyVars

-----------------------------------------------------------------------------

\* The situation that an entry tells of.
Told(entries, w) ==
  [exists |-> TRUE, at |-> IF entries[w] = NoHost THEN {} ELSE {entries[w]}]

Returns == list.pc = "hosts" /\ list'.pc = "returned"

\* Each volume in a listing was, at some moment since list_volumes was called, where
\* the listing says, and existed, although the volume, its mapping and the name of
\* the host come from reads at three different moments.
EntriesWereTrue ==
  [][Returns => \A w \in DOMAIN list'.entries :
                  Told(list'.entries, w) \in been[w]]_historyVars

\* A volume that stays as it is during the listing is listed, as it is, if and only
\* if it exists and belongs to the cluster.
UntouchedListedAsIs ==
  [][Returns => \A w \in Volumes :
       been[w] = {Situation(w)} =>
         /\ w \in DOMAIN list'.entries <=> w \in ClusterVolumes
         /\ w \in DOMAIN list'.entries => been[w] = {Told(list'.entries, w)}]_historyVars

-----------------------------------------------------------------------------
(* The inductive invariant                                                  *)

ListTypeOK ==
  /\ list \in Listers
  /\ been \in [Volumes -> SUBSET Situations]

\* What the history says of w.  A volume is never destroyed or moved but out of
\* the situation Free, so a situation it was in and left was followed by Free.
HistoryOK(w) ==
  /\ Situation(w) \in been[w]
  /\ \A s \in been[w] : s.at # {} => s.exists
  /\ \A s \in been[w] : s.exists /\ w \notin vols => Free \in been[w]
  /\ \A s \in been[w] : \A h \in s.at : h \notin mappedTo[w] => Free \in been[w]

\* What was read of w is what w was at that moment.
ReadOK(w) ==
  /\ list.pc \in {"mappings", "hosts"} =>
       \E s \in been[w] : s.exists = (w \in list.found)
  /\ list.pc = "hosts" /\ list.maps[w] = {} /\ w \in list.found => Free \in been[w]
  /\ list.pc = "hosts" /\ list.maps[w] # {} =>
       /\ [exists |-> TRUE, at |-> list.maps[w]] \in been[w]
       /\ \A g, h \in list.maps[w] : g = h

\* While a listing is made, the history and what was read agree.
ListIInv ==
  /\ ListTypeOK
  /\ Listing => \A w \in Volumes : HistoryOK(w) /\ ReadOK(w)
  /\ ~Listing => been = NothingSeen

=============================================================================
