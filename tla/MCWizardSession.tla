-------------------------- MODULE MCWizardSession --------------------------
(* Instances of WizardSession: clusters of two versions, one template of   *)
(* the region the clusters live in and one of another region.  A behaviour *)
(* is about edits, about creations or about submissions.                   *)
EXTENDS WizardSession, FiniteSets, TLC

CONSTANTS a, b, near, far, va, vb, home, away, n

VersionsOf == [c \in Clusters |-> IF c = a THEN va ELSE vb]
RegionsOf == [t \in Templates |-> IF t = far THEN away ELSE home]

\* Which slot holds a request means nothing to any action or invariant.
SlotSymmetry == Permutations(SubmitSlots) \cup Permutations(LoadSlots)

VARIABLE use  \* what the behaviour is about

Use(sources, names, versions, regions, loading, submitting, touched, force, lost) ==
  [sources |-> sources, names |-> names, versions |-> versions, regions |-> regions,
   loading |-> loading, submitting |-> submitting, touched |-> touched,
   force |-> force, lost |-> lost]
Lost == {"loading", "submitting"}
Uses == {Use({a, b}, {a, b}, {va, vb}, {home}, 2, 1, {FALSE}, BOOLEAN, Lost),
         Use({a, near, far}, {a, n}, {va}, {home, away}, 1, 0, BOOLEAN, {FALSE}, Lost),
         Use({a}, {a, n}, {va}, {home}, 1, 2, {FALSE}, {FALSE}, {}),
         Use({}, {n}, {va}, {home, away}, 0, 1, {FALSE}, {FALSE}, Lost)}

MCInit == Init /\ use \in Uses
MCNext ==
  /\ Next
  /\ w'.name \in use.names \cup {None} /\ w'.version \in use.versions \cup {None}
  /\ w'.config.region \in use.regions \cup {None} /\ selectedRegion' \in use.regions
  /\ w'.config.touched \in use.touched /\ w'.force \in use.force
  /\ stuck' \subseteq use.lost
  /\ Cardinality({s \in LoadSlots : loads'[s] # Idle}) <= use.loading
  /\ \A s \in LoadSlots : loads'[s] # Idle => loads'[s].src \in use.sources
  /\ Cardinality({s \in SubmitSlots : subs'[s] # Idle}) <= use.submitting
  /\ UNCHANGED use
MCSpec == MCInit /\ [][MCNext]_<<vars, use>>
=============================================================================
