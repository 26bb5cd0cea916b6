---------------------------- MODULE CleanUpSafety ----------------------------
(***************************************************************************)
(* What the clean-up after a test leaves behind.                           *)
(***************************************************************************)
EXTENDS CleanUp

\* When detach_destroy_all_volumes returns, no volume of the cluster is left that
\* existed when it was called, although the listing it goes by is out of date and
\* the other processes attach, detach and destroy the same volumes.
CleanedUp == Doing("done") => clean.old \cap vols = {}

\* destroy_volume does not check the cluster of a volume, and the clean-up destroys
\* whatever it has listed: no volume of another cluster may be among it.
CleanUpSparesForeign ==
  [][\A w \in Foreign : CleaningUp /\ w \in vols /\ w \notin vols' =>
       call'[Cleaner] = call[Cleaner]]_cleanVars

\* The clean-up ends, whatever fails and whatever the other processes do.
CleanUpEnds == CleaningUp ~> ~CleaningUp

\* How many reads the listing has left, and how much work, at most, the volume at hand:
\* one step to begin each of its two calls, and the requests and commands of the calls.
ReadsLeft == CASE list.pc = "volumes" -> 3
               [] list.pc = "mappings" -> 2
               [] list.pc = "hosts" -> 1
               [] OTHER -> 0

WorkLeft ==
  LET all == 15 + 2 * Retries IN
    CASE Doing("picking") -> 2 * all + 2
      [] Doing("detaching") -> RequestsLeft(Cleaner) + all + 1
      [] Doing("detached") -> all + 1
      [] OTHER -> RequestsLeft(Cleaner)

\* The clean-up comes nearer to its end: first in the listing, then in the volumes
\* that are left, and then in the volume at hand.
CleanUpAdvances ==
  \/ Doing("listing") /\ ReadsLeft' < ReadsLeft
  \/ /\ ~Doing("listing") /\ ~Doing("listing")'
     /\ clean'.todo \subseteq clean.todo
     /\ clean'.todo = clean.todo => WorkLeft' < WorkLeft

\* Each step of the clean-up brings it nearer to its end or ends it, and no step of
\* another process takes it back: no volume is gone back to, however often its calls
\* fail, and the volumes that the others create meanwhile are not added to the list.
CleanUpShrinks ==
  [][CleaningUp /\ CleaningUp' =>
       IF CleanerStep THEN CleanUpAdvances
                      ELSE UNCHANGED <<list, clean, call[Cleaner]>>]_cleanVars

-----------------------------------------------------------------------------
(* The inductive invariant                                                  *)

CleanTypeOK ==
  /\ list \in Listers
  /\ clean \in CleanUps
  /\ clean.todo \cap Foreign = {}

\* The old volumes that are left are still to be read, were read, or are listed.
OldAreListed ==
  LET left == clean.old \cap vols IN
    /\ Doing("listing") /\ list.pc \in {"mappings", "hosts"} => left \subseteq list.found
    /\ clean.phase \in {"picking", "detaching", "detached", "destroying"}
         => left \subseteq clean.todo
    /\ Doing("done") => left = {}

\* The call that the driver executes is the one that the clean-up has begun.
CallIsCurrent ==
  LET c == call[Cleaner] IN
    /\ Doing("detaching") => c.op = "detach" /\ c.wwn = clean.current
    /\ Doing("destroying") => c.op = "destroy" /\ c.wwn = clean.current
    /\ clean.phase \in {"detaching", "detached", "destroying"} => clean.current \in clean.todo
    /\ clean.phase \in {"listing", "picking", "detached"} => c.pc = "idle"

\* The inductive invariant behind CleanedUp.
CleanIInv ==
  /\ CleanTypeOK
  /\ clean.old \cap (Foreign \cup fresh) = {}
  /\ Doing("listing") <=> Listing
  /\ OldAreListed
  /\ CallIsCurrent

=============================================================================
