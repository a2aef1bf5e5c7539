--------------------------- MODULE ConnectorProofs ---------------------------
(***************************************************************************)
(* Proofs about initialization and termination (module Connector), for     *)
(* every set of configurations, of files and of views: that what is made   *)
(* is accounted for, that correct use does not crash, and that requests    *)
(* carry the configured credentials.                                       *)
(***************************************************************************)
EXTENDS Connector, FiniteSetTheorems, TLAPS

(***************************************************************************)
(* The inductive invariant                                                 *)
(***************************************************************************)

Failed == "initFailed" \in hist

\* The types of the variables that initialization and termination change.
LifeTypeOK ==
    /\ registered \in BOOLEAN /\ H5_rest_initialized_g \in BOOLEAN
    /\ H5_rest_id_g \in {"none", "valid", "stale"}
    /\ var \in [Resources -> {"null", "live", "dead"}]
    /\ live \in [Resources -> Nat]
    /\ inits \in Nat
    /\ conf \in Confs
    /\ base_URL \in BOOLEAN /\ cred \in BOOLEAN /\ up \in BOOLEAN

\* No variable names what does not exist.
CountedInv == \A r \in Resources : var[r] = "live" => live[r] > 0

\* What an uninitialized connector still has, it has for a reason.
LeftoversInv ==
    ~H5_rest_initialized_g =>
        \A r \in Resources : var[r] = "live" =>
            Failed \/ ("closedByHDF5" \in hist /\ r \notin Freed)

\* Only a connector HDF5 knows is initialized, and an identifier of one that
\* is not comes from an initialization that failed.
RegisteredInv ==
    /\ H5_rest_initialized_g => registered
    /\ H5_rest_id_g = "valid" => H5_rest_initialized_g \/ Failed

\* Until H5rest_term there is a pool to destroy.
PoolThereInv == inits > 0 => var["pool"] = "live" \/ Failed \/ "terminated" \in hist

\* Files are open only in an initialized connector.
FilesInv == files # {} => H5_rest_initialized_g \/ Failed \/ "misused" \in hist

\* Credentials are set on the handle of an initialized connector.
CredInv ==
    base_URL /\ NeedsCredentials /\ hist \cap {"initFailed", "signOnFailed"} = {} =>
        H5_rest_initialized_g /\ cred

ConnInv == /\ LifeTypeOK /\ ResourcesAccounted /\ CountedInv /\ LeftoversInv /\ RegisteredInv
           /\ PoolThereInv /\ FilesInv /\ CredInv /\ NoCrash

(***************************************************************************)
(* Lemmas                                                                  *)
(***************************************************************************)

\* The five things H5_rest_init makes.
LEMMA TheResources == Resources = {"pool", "curl", "buffer", "tables", "errors"}
  BY DEF Resources, Made

\* What has been made when H5_rest_init ends or fails.
LEMMA TheFirst ==
    /\ FirstMade(0) = {}
    /\ FirstMade(1) = {"pool"}
    /\ FirstMade(2) = {"pool", "curl"}
    /\ FirstMade(4) = {"pool", "curl", "buffer", "tables"}
    /\ FirstMade(5) = Resources
    /\ Len(Made) = 5
<1>1. Len(Made) = 5
  BY DEF Made
<1>2. 1..0 = {} /\ 1..1 = {1} /\ 1..2 = {1, 2} /\ 1..4 = {1, 2, 3, 4} /\ 1..5 = {1, 2, 3, 4, 5}
  OBVIOUS
<1>3. DOMAIN Made = 1..5
  BY DEF Made
<1>4. /\ Made[1] = "pool" /\ Made[2] = "curl" /\ Made[3] = "buffer" /\ Made[4] = "tables"
      /\ Made[5] = "errors"
  BY DEF Made
<1>5. Resources = {Made[n] : n \in {1, 2, 3, 4, 5}}
  BY <1>2, <1>3 DEF Resources
<1> QED
  BY <1>1, <1>2, <1>4, <1>5 DEF FirstMade

\* An H5_rest_init that succeeds makes everything and names it.
LEMMA SuccessMakesAll ==
    ASSUME LifeTypeOK, InitSucceeds
    PROVE  /\ var' = [r \in Resources |-> "live"]
           /\ live' = [r \in Resources |-> live[r] + 1]
           /\ cred' = FALSE
           /\ inits' = inits + 1
           /\ H5_rest_initialized_g' = TRUE
           /\ hist' = hist \ {"terminated"}
           /\ base_URL' = base_URL
  BY TheFirst, TheResources DEF InitSucceeds, Making, VarAfter, LifeTypeOK

\* One that fails makes part of it, and is remembered.
LEMMA FailureMakesSome ==
    ASSUME LifeTypeOK, CountedInv, InitFails
    PROVE  /\ var' \in [Resources -> {"null", "live", "dead"}]
           /\ live' \in [Resources -> Nat]
           /\ \A r \in Resources : live'[r] >= live[r]
           /\ \A r \in Resources : /\ var'[r] = "live" => live'[r] > 0
                                   /\ live'[r] - (IF var'[r] = "live" THEN 1 ELSE 0) >= 
                                      live[r] - (IF var[r] = "live" THEN 1 ELSE 0)
           /\ cred' \in BOOLEAN
           /\ inits' = inits + 1
           /\ Failed'
           /\ hist' = (hist \ {"terminated"}) \union {"initFailed"}
           /\ H5_rest_initialized_g' = H5_rest_initialized_g
           /\ base_URL' = base_URL
<1>1. /\ inits' = inits + 1
      /\ H5_rest_initialized_g' = H5_rest_initialized_g
      /\ base_URL' = base_URL
      /\ cred' \in BOOLEAN
      /\ hist' = (hist \ {"terminated"}) \union {"initFailed"}
  BY DEF InitFails, Making
<1>2. PICK n \in {0, 1, 2, 3, 4, 5}, next \in BOOLEAN : Making(n, next)
  BY TheFirst DEF InitFails
<1>3. /\ var' = [r \in Resources |-> IF r \in FirstMade(n) THEN "live"
                                     ELSE IF next /\ r \in FirstMade(n + 1) THEN "null"
                                     ELSE var[r]]
      /\ live' = [r \in Resources |-> IF r \in FirstMade(n) THEN live[r] + 1 ELSE live[r]]
  BY <1>2 DEF Making, VarAfter
<1>4. /\ var' \in [Resources -> {"null", "live", "dead"}]
      /\ live' \in [Resources -> Nat]
      /\ \A r \in Resources : live'[r] >= live[r]
  BY <1>3 DEF LifeTypeOK
<1>5. ASSUME NEW r \in Resources
      PROVE  /\ var'[r] = "live" => live'[r] > 0
             /\ live'[r] - (IF var'[r] = "live" THEN 1 ELSE 0) >=
                live[r] - (IF var[r] = "live" THEN 1 ELSE 0)
  BY <1>3 DEF LifeTypeOK, CountedInv
<1> QED
  BY <1>1, <1>4, <1>5 DEF Failed

(***************************************************************************)
(* The invariant is preserved, one lemma per kind of step                  *)
(***************************************************************************)

LEMMA InitEstablishes == ConnectorAssumption /\ Init => ConnInv
<1> SUFFICES ASSUME ConnectorAssumption, Init
             PROVE  ConnInv
  OBVIOUS
<1>1. LifeTypeOK
  BY DEF Init, LifeTypeOK
<1>2. ResourcesAccounted /\ CountedInv /\ LeftoversInv /\ RegisteredInv
  BY DEF Init, ResourcesAccounted, Surplus, CountedInv, LeftoversInv, RegisteredInv
<1>3. PoolThereInv /\ FilesInv /\ CredInv /\ NoCrash
  BY DEF Init, PoolThereInv, FilesInv, CredInv, NoCrash
<1> QED
  BY <1>1, <1>2, <1>3 DEF ConnInv

\* An initialization of a connector that is not initialized, which HDF5 may
\* or may not know, and afterwards does when it succeeded.
LEMMA InitStep ==
    ASSUME ConnInv, InitSucceeds \/ InitFails, ~H5_rest_initialized_g,
           registered' \in BOOLEAN, H5_rest_id_g' \in {"none", "valid", "stale"},
           InitSucceeds => registered',
           H5_rest_id_g' = "stale" => H5_rest_id_g = "stale",
           UNCHANGED <<files, conf, up>>
    PROVE  ConnInv'
<1> USE DEF ConnInv
<1>1. CASE InitSucceeds
  <2> /\ var' = [r \in Resources |-> "live"]
      /\ live' = [r \in Resources |-> live[r] + 1]
      /\ cred' = FALSE
      /\ inits' = inits + 1
      /\ H5_rest_initialized_g' = TRUE
      /\ hist' = hist \ {"terminated"}
      /\ base_URL' = base_URL
      /\ registered'
    BY <1>1, SuccessMakesAll
  <2>1. LifeTypeOK'
    <3>1. var' \in [Resources -> {"null", "live", "dead"}] /\ live' \in [Resources -> Nat]
      BY DEF LifeTypeOK
    <3>2. inits' \in Nat
      BY DEF LifeTypeOK
    <3>3. H5_rest_initialized_g' \in BOOLEAN /\ cred' \in BOOLEAN
      BY Zenon
    <3>4. base_URL' \in BOOLEAN /\ up' \in BOOLEAN
      BY DEF LifeTypeOK
    <3> QED
      BY <3>1, <3>2, <3>3, <3>4, Zenon DEF LifeTypeOK
  <2>2. ASSUME NEW r \in Resources
        PROVE  /\ live'[r] > 0 /\ var'[r] = "live"
               /\ \/ Surplus(r)' = 0
                  \/ Surplus(r)' > 0 /\ "initFailed" \in hist'
                  \/ Surplus(r)' > 0 /\ "closedByHDF5" \in hist' /\ r \notin Freed
    <3>1. live'[r] = live[r] + 1 /\ var'[r] = "live" /\ live[r] \in Nat
      BY DEF LifeTypeOK
    <3>2. Surplus(r)' = live[r]
      BY <3>1 DEF Surplus
    <3>3. CASE var[r] = "live"
      BY <3>1, <3>2, <3>3 DEF CountedInv, LeftoversInv, Failed
    <3>4. CASE var[r] # "live"
      BY <3>1, <3>2, <3>4 DEF ResourcesAccounted, Surplus
    <3> QED
      BY <3>1, <3>3, <3>4
  <2>3. (H5_rest_id_g = "stale" => "initFailed" \in hist)'
    BY DEF ResourcesAccounted
  <2>4. ResourcesAccounted' /\ CountedInv'
    BY <2>2, <2>3 DEF ResourcesAccounted, CountedInv
  <2>5. LeftoversInv' /\ RegisteredInv' /\ FilesInv'
    BY DEF LeftoversInv, RegisteredInv, FilesInv
  <2>6. PoolThereInv'
    BY TheResources DEF PoolThereInv
  <2>7. CredInv'
    BY DEF CredInv, NeedsCredentials, AsksAD
  <2>8. NoCrash'
    BY DEF NoCrash
  <2> QED
    BY <2>1, <2>4, <2>5, <2>6, <2>7, <2>8
<1>2. CASE InitFails
  <2> /\ var' \in [Resources -> {"null", "live", "dead"}]
      /\ live' \in [Resources -> Nat]
      /\ cred' \in BOOLEAN
      /\ inits' = inits + 1
      /\ Failed'
      /\ H5_rest_initialized_g' = H5_rest_initialized_g
      /\ base_URL' = base_URL
    BY <1>2, FailureMakesSome
  <2>0. hist' = (hist \ {"terminated"}) \union {"initFailed"}
    BY <1>2, FailureMakesSome
  <2>1. LifeTypeOK'
    BY DEF LifeTypeOK
  <2>2. ASSUME NEW r \in Resources
        PROVE  /\ var'[r] = "live" => live'[r] > 0
               /\ Surplus(r)' >= Surplus(r) /\ Surplus(r) >= 0 /\ Surplus(r)' \in Int
    <3>1. /\ var'[r] = "live" => live'[r] > 0
          /\ live'[r] - (IF var'[r] = "live" THEN 1 ELSE 0) >=
             live[r] - (IF var[r] = "live" THEN 1 ELSE 0)
      BY <1>2, FailureMakesSome
    <3> QED
      BY <3>1 DEF Surplus, LifeTypeOK, CountedInv
  <2>3. ResourcesAccounted' /\ CountedInv'
    <3>1. CountedInv'
      BY <2>2 DEF CountedInv
    <3>2. ASSUME NEW r \in Resources
          PROVE  Surplus(r)' = 0 \/ Surplus(r)' > 0
      <4>1. Surplus(r) \in Int
        BY DEF Surplus, LifeTypeOK
      <4> QED
        BY <2>2, <4>1
    <3> QED
      BY <3>1, <3>2 DEF ResourcesAccounted, Failed
  <2>4. LeftoversInv' /\ RegisteredInv' /\ PoolThereInv' /\ FilesInv'
    BY DEF LeftoversInv, RegisteredInv, PoolThereInv, FilesInv
  <2>5. CredInv' /\ NoCrash'
    BY DEF CredInv, NoCrash, Failed
  <2> QED
    BY <2>1, <2>3, <2>4, <2>5
<1> QED
  BY <1>1, <1>2

\* H5_rest_term of a connector, with what H5rest_term destroys besides:
\* what is destroyed existed, and what is left is accounted for.
LEMMA TermStep ==
    ASSUME ConnInv, NEW gone \in SUBSET Resources, RestTerm(gone),
           Gone \subseteq gone, \A r \in gone : var[r] = "live"
    PROVE  /\ var' \in [Resources -> {"null", "live", "dead"}]
           /\ live' \in [Resources -> Nat]
           /\ CountedInv'
           /\ \A r \in Resources : Surplus(r)' = Surplus(r)
           /\ \A r \in Resources : var'[r] = "live" <=> var[r] = "live" /\ r \notin gone
           /\ base_URL' \in BOOLEAN
           /\ base_URL' => base_URL /\ ~H5_rest_initialized_g
<1>1. /\ var \in [Resources -> {"null", "live", "dead"}]
      /\ live \in [Resources -> Nat]
      /\ \A r \in gone : live[r] \in Nat /\ live[r] > 0
  BY DEF ConnInv, LifeTypeOK, CountedInv
<1>2. /\ live' = [r \in Resources |-> IF r \in gone THEN live[r] - 1 ELSE live[r]]
      /\ var' = [r \in Resources |-> IF r \in gone THEN AfterTerm(r) ELSE var[r]]
  BY DEF RestTerm
<1>3. \A r \in Resources : AfterTerm(r) \in {"null", "dead"}
  BY DEF AfterTerm
<1>4. var' \in [Resources -> {"null", "live", "dead"}] /\ live' \in [Resources -> Nat]
  BY <1>1, <1>2, <1>3
<1>5. \A r \in Resources : var'[r] = "live" <=> var[r] = "live" /\ r \notin gone
  BY <1>1, <1>2, <1>3
<1>6. \A r \in Resources : Surplus(r)' = Surplus(r)
  BY <1>1, <1>2, <1>5 DEF Surplus
<1>7. CountedInv'
  BY <1>1, <1>2, <1>5 DEF CountedInv, ConnInv
<1>8. base_URL' = (base_URL /\ ~(Freed \subseteq gone))
  BY DEF RestTerm
<1>9. H5_rest_initialized_g => Freed \subseteq gone
  BY DEF Gone
<1>10. base_URL' \in BOOLEAN
  BY <1>8, Zenon
<1>11. base_URL' => base_URL /\ ~H5_rest_initialized_g
  BY <1>8, <1>9, Zenon
<1> QED
  BY <1>4, <1>5, <1>6, <1>7, <1>10, <1>11

\* What is forgotten with it.
LEMMA ForgetStep ==
    ASSUME ConnInv, Forget, base_URL' => base_URL /\ ~H5_rest_initialized_g,
           conf' = conf, hist \cap {"initFailed"} \subseteq hist',
           ~H5_rest_initialized_g => hist \cap {"signOnFailed"} \subseteq hist'
    PROVE  /\ H5_rest_initialized_g' = FALSE
           /\ cred' \in BOOLEAN
           /\ CredInv'
<1>1. H5_rest_initialized_g' = FALSE /\ cred' \in BOOLEAN
  BY Zenon DEF Forget
<1>2. CredInv'
  <2> SUFFICES ASSUME base_URL', NeedsCredentials', hist' \cap {"initFailed", "signOnFailed"} = {}
               PROVE  FALSE
    BY DEF CredInv
  <2>1. base_URL /\ ~H5_rest_initialized_g
    OBVIOUS
  <2>2. NeedsCredentials
    BY DEF NeedsCredentials, AsksAD
  <2>3. hist \cap {"initFailed", "signOnFailed"} = {}
    BY <2>1
  <2> QED
    BY <2>1, <2>2, <2>3 DEF ConnInv, CredInv
<1> QED
  BY <1>1, <1>2

\* Steps that leave initialization and what it made alone.
LEMMA QuietStep ==
    ASSUME ConnInv, UNCHANGED lifeVars, UNCHANGED conf,
           base_URL' \in BOOLEAN, cred' \in BOOLEAN, up' \in BOOLEAN,
           CredInv', FilesInv', NoCrash',
           hist \subseteq hist', hist' \cap {"terminated"} \subseteq hist
    PROVE  ConnInv'
<1> USE DEF ConnInv, lifeVars
<1>1. LifeTypeOK'
  BY DEF LifeTypeOK
<1>2. ResourcesAccounted'
  BY DEF ResourcesAccounted, Surplus
<1>3. CountedInv' /\ LeftoversInv' /\ RegisteredInv' /\ PoolThereInv'
  BY DEF CountedInv, LeftoversInv, RegisteredInv, PoolThereInv, Failed
<1> QED
  BY <1>1, <1>2, <1>3

LEMMA H5rest_initStep == ConnInv /\ H5rest_init => ConnInv'
<1> SUFFICES ASSUME ConnInv, H5rest_init
             PROVE  ConnInv'
  OBVIOUS
<1> USE DEF ConnInv
<1>0. UNCHANGED <<files, view, refs, conf, up>>
  BY DEF H5rest_init
<1>1. CASE H5_rest_id_g = "stale"
  <2>1. UNCHANGED <<lifeVars, connVars, hist>>
    BY <1>1 DEF H5rest_init, lifeVars
  <2> QED
    BY <1>0, <2>1, QuietStep DEF connVars, LifeTypeOK, CredInv, NeedsCredentials, AsksAD,
                                FilesInv, NoCrash, lifeVars, Failed
<1>2. CASE H5_rest_id_g # "stale" /\ ~registered
  <2>1. \/ InitSucceeds /\ registered' = TRUE /\ H5_rest_id_g' = "valid"
        \/ InitFails /\ UNCHANGED <<registered, H5_rest_id_g>>
    BY <1>2 DEF H5rest_init
  <2>2. ~H5_rest_initialized_g
    BY <1>2 DEF RegisteredInv
  <2>3. CASE InitSucceeds /\ registered' = TRUE /\ H5_rest_id_g' = "valid"
    BY <1>0, <2>2, <2>3, InitStep
  <2>4. CASE InitFails /\ UNCHANGED <<registered, H5_rest_id_g>>
    <3>1. InitSucceeds => H5_rest_initialized_g' = TRUE
      BY DEF InitSucceeds
    <3>2. ~InitSucceeds
      BY <2>2, <2>4, <3>1 DEF InitFails
    <3>3. registered' \in BOOLEAN /\ H5_rest_id_g' \in {"none", "valid", "stale"}
      BY <2>4 DEF LifeTypeOK
    <3> QED
      BY <1>0, <2>2, <2>4, <3>2, <3>3, InitStep
  <2> QED
    BY <2>1, <2>3, <2>4
<1>3. CASE H5_rest_id_g # "stale" /\ registered
  <2>1. /\ H5_rest_id_g' = "valid" /\ registered' = registered
        /\ \/ ~H5_rest_initialized_g /\ (InitSucceeds \/ InitFails)
           \/ /\ H5_rest_initialized_g
              /\ UNCHANGED <<H5_rest_initialized_g, var, live, inits, connVars, table, hist>>
    BY <1>3 DEF H5rest_init
  <2>2. CASE ~H5_rest_initialized_g /\ (InitSucceeds \/ InitFails)
    BY <1>0, <1>3, <2>1, <2>2, InitStep DEF LifeTypeOK
  <2>3. CASE /\ H5_rest_initialized_g
             /\ UNCHANGED <<H5_rest_initialized_g, var, live, inits, connVars, table, hist>>
    <3> USE <1>0, <2>1, <2>3 DEF connVars
    <3>1. LifeTypeOK'
      BY DEF LifeTypeOK
    <3>2. ResourcesAccounted' /\ CountedInv' /\ LeftoversInv'
      BY DEF ResourcesAccounted, Surplus, CountedInv, LeftoversInv, Failed
    <3>3. RegisteredInv' /\ PoolThereInv' /\ FilesInv' /\ NoCrash'
      BY DEF RegisteredInv, PoolThereInv, FilesInv, NoCrash, Failed
    <3>4. CredInv'
      BY DEF CredInv, NeedsCredentials, AsksAD
    <3> QED
      BY <3>1, <3>2, <3>3, <3>4
  <2> QED
    BY <2>1, <2>2, <2>3
<1> QED
  BY <1>1, <1>2, <1>3 DEF LifeTypeOK

LEMMA PluginLoadedStep == ConnInv /\ PluginLoaded => ConnInv'
<1> SUFFICES ASSUME ConnInv, PluginLoaded
             PROVE  ConnInv'
  OBVIOUS
<1>1. /\ ~registered /\ H5_rest_id_g' = H5_rest_id_g
      /\ UNCHANGED <<files, conf, up>>
      /\ \/ InitSucceeds /\ registered' = TRUE
         \/ InitFails /\ registered' = registered
  BY DEF PluginLoaded
<1>2. ~H5_rest_initialized_g
  BY <1>1 DEF ConnInv, RegisteredInv
<1>3. InitFails => ~InitSucceeds
  <2>1. InitSucceeds => H5_rest_initialized_g' = TRUE
    BY DEF InitSucceeds
  <2>2. InitFails => H5_rest_initialized_g' = H5_rest_initialized_g
    BY DEF InitFails
  <2> QED
    BY <1>2, <2>1, <2>2
<1>4. registered' \in BOOLEAN /\ H5_rest_id_g' \in {"none", "valid", "stale"}
  BY <1>1 DEF ConnInv, LifeTypeOK
<1> QED
  BY <1>1, <1>2, <1>3, <1>4, InitStep

\* What both ways of terminating have in common.
LEMMA TermKeeps ==
    ASSUME ConnInv, NEW gone \in SUBSET Resources, RestTerm(gone), Forget,
           Gone \subseteq gone, \A r \in gone : var[r] = "live",
           \A r \in Resources : var[r] = "live" /\ r \notin gone /\ H5_rest_initialized_g =>
                  "closedByHDF5" \in hist' /\ r \notin Freed,
           registered' \in BOOLEAN, up' \in BOOLEAN, inits' = inits, conf' = conf,
           hist \cap {"initFailed", "closedByHDF5"} \subseteq hist',
           ~H5_rest_initialized_g => hist \cap {"signOnFailed"} \subseteq hist',
           H5_rest_id_g' \in {"none", "valid", "stale"},
           H5_rest_id_g' = "stale" => Failed,
           H5_rest_id_g' = "valid" => ~H5_rest_initialized_g /\ H5_rest_id_g = "valid",
           PoolThereInv', FilesInv', NoCrash'
    PROVE  ConnInv'
<1>1. /\ var' \in [Resources -> {"null", "live", "dead"}]
      /\ live' \in [Resources -> Nat]
      /\ CountedInv'
      /\ \A r \in Resources : Surplus(r)' = Surplus(r)
      /\ \A r \in Resources : var'[r] = "live" <=> var[r] = "live" /\ r \notin gone
      /\ base_URL' \in BOOLEAN
      /\ base_URL' => base_URL /\ ~H5_rest_initialized_g
  BY TermStep
<1>2. H5_rest_initialized_g' = FALSE /\ cred' \in BOOLEAN /\ CredInv'
  BY <1>1, ForgetStep
<1>3. inits' \in Nat /\ conf' \in Confs
  BY DEF ConnInv, LifeTypeOK
<1>4. LifeTypeOK'
  BY <1>1, <1>2, <1>3, Zenon DEF LifeTypeOK
<1>5. ResourcesAccounted'
  BY <1>1, <1>2 DEF ResourcesAccounted, ConnInv, Failed
<1>6. LeftoversInv'
  BY <1>1, <1>2 DEF LeftoversInv, ConnInv, Failed
<1>7. RegisteredInv'
  BY <1>2 DEF RegisteredInv, ConnInv, Failed
<1> QED
  BY <1>1, <1>2, <1>4, <1>5, <1>6, <1>7 DEF ConnInv

LEMMA H5rest_termStep == ConnInv /\ H5rest_term => ConnInv'
<1> SUFFICES ASSUME ConnInv, H5rest_term
             PROVE  ConnInv'
  OBVIOUS
<1> USE DEF ConnInv
<1> DEFINE All == Gone \union {"pool"} \union {r \in {"errors"} : var[r] = "live"}
<1>1. /\ hist' = (hist \union Misuse \union {"terminated"})
                    \ (IF H5_rest_initialized_g THEN {"signOnFailed"} ELSE {})
      /\ H5_rest_id_g' = IF H5_rest_initialized_g THEN "none" ELSE H5_rest_id_g
      /\ UNCHANGED <<registered, inits, conf, files, view, refs>>
      /\ Forget /\ up
  BY DEF H5rest_term
<1>2. /\ hist \cap {"initFailed", "closedByHDF5"} \subseteq hist'
      /\ ~H5_rest_initialized_g => hist \cap {"signOnFailed"} \subseteq hist'
      /\ "terminated" \in hist'
      /\ Misuse \subseteq hist'
      /\ hist \cap {"misused"} \subseteq hist'
  BY <1>1 DEF Misuse
<1>3. /\ registered' \in BOOLEAN
      /\ H5_rest_id_g' \in {"none", "valid", "stale"}
      /\ H5_rest_id_g' = "stale" => Failed
      /\ H5_rest_id_g' = "valid" => ~H5_rest_initialized_g /\ H5_rest_id_g = "valid"
  BY <1>1 DEF LifeTypeOK, ResourcesAccounted, Failed
<1>4. PoolThereInv'
  BY <1>2 DEF PoolThereInv
<1>5. FilesInv'
  <2>1. files # {} => "misused" \in hist'
    BY <1>2 DEF Misuse
  <2> QED
    BY <1>1, <2>1 DEF FilesInv
<1>6. H5_rest_initialized_g => \A r \in Resources : var[r] = "live"
  BY DEF ResourcesAccounted
<1>7. Gone \in SUBSET Resources /\ \A r \in Gone : var[r] = "live"
  BY <1>6, TheResources DEF Gone, Freed
<1>8. CASE var["pool"] = "live" /\ RestTerm(All) /\ UNCHANGED up
  <2>1. All \in SUBSET Resources /\ Gone \subseteq All /\ \A r \in All : var[r] = "live"
    BY <1>7, <1>8, TheResources
  <2>2. H5_rest_initialized_g => Resources \subseteq All
    BY <1>6, TheResources DEF Gone, Freed
  <2>3. up' \in BOOLEAN /\ NoCrash'
    BY <1>1, <1>8 DEF NoCrash, LifeTypeOK
  <2> HIDE DEF All
  <2> QED
    BY <1>1, <1>2, <1>3, <1>4, <1>5, <1>8, <2>1, <2>2, <2>3, TermKeeps
<1>9. ASSUME var["pool"] # "live", RestTerm(Gone), up' \in BOOLEAN, NoCrash'
      PROVE  ConnInv'
  <2>1. ~H5_rest_initialized_g
    BY <1>6, <1>9, TheResources
  <2> QED
    BY <1>1, <1>2, <1>3, <1>4, <1>5, <1>7, <1>9, <2>1, TermKeeps
<1>10. CASE var["pool"] # "live" /\ RestTerm(Gone) /\ up' = FALSE
  <2>1. inits = 0 \/ Failed \/ "terminated" \in hist
    BY <1>10 DEF PoolThereInv, LifeTypeOK
  <2>2. Failed' \/ "misused" \in hist'
    BY <1>2, <2>1 DEF Misuse, Failed
  <2>3. NoCrash'
    BY <2>2 DEF NoCrash, Failed
  <2> QED
    BY <1>9, <1>10, <2>3
<1>11. CASE var["pool"] = "dead" /\ RestTerm(Gone) /\ UNCHANGED up
  <2>1. up' \in BOOLEAN /\ NoCrash'
    BY <1>1, <1>11 DEF NoCrash, LifeTypeOK
  <2> QED
    BY <1>9, <1>11, <2>1
<1> QED
  BY <1>8, <1>10, <1>11 DEF H5rest_term

LEMMA ClosedByHDF5Step == ConnInv /\ ClosedByHDF5 => ConnInv'
<1> SUFFICES ASSUME ConnInv, ClosedByHDF5
             PROVE  ConnInv'
  OBVIOUS
<1> USE DEF ConnInv
<1>1. /\ hist' = (hist \union {"closedByHDF5"})
                    \ (IF H5_rest_initialized_g THEN {"signOnFailed"} ELSE {})
      /\ H5_rest_id_g' = IF H5_rest_initialized_g THEN "none"
                         ELSE IF H5_rest_id_g = "valid" THEN "stale" ELSE H5_rest_id_g
      /\ UNCHANGED <<inits, conf, up, files, view, refs>>
      /\ registered' = FALSE /\ files = {}
      /\ RestTerm(Gone) /\ Forget
  BY DEF ClosedByHDF5
<1>2. /\ hist \cap {"initFailed", "closedByHDF5"} \subseteq hist'
      /\ ~H5_rest_initialized_g => hist \cap {"signOnFailed"} \subseteq hist'
      /\ "closedByHDF5" \in hist'
      /\ hist \cap {"misused", "terminated"} \subseteq hist'
  BY <1>1
<1>3. /\ registered' \in BOOLEAN /\ up' \in BOOLEAN
      /\ H5_rest_id_g' \in {"none", "valid", "stale"}
      /\ H5_rest_id_g' = "stale" => Failed
      /\ H5_rest_id_g' = "valid" => ~H5_rest_initialized_g /\ H5_rest_id_g = "valid"
  BY <1>1 DEF LifeTypeOK, ResourcesAccounted, RegisteredInv, Failed
<1>4. H5_rest_initialized_g => \A r \in Resources : var[r] = "live"
  BY DEF ResourcesAccounted
<1>5. Gone \in SUBSET Resources /\ \A r \in Gone : var[r] = "live"
  BY <1>4, TheResources DEF Gone, Freed
<1>6. H5_rest_initialized_g => Gone = Freed
  BY DEF Gone
<1>7. PoolThereInv'
  <2>1. var["pool"] = "live" => var'["pool"] = "live"
    BY <1>1, TheResources DEF RestTerm, Gone, Freed
  <2> QED
    BY <1>1, <1>2, <2>1 DEF PoolThereInv, Failed
<1>8. FilesInv' /\ NoCrash'
  BY <1>1, <1>2 DEF FilesInv, NoCrash
<1> QED
  BY <1>1, <1>2, <1>3, <1>5, <1>6, <1>7, <1>8, TermKeeps

\* The search for the server and the sign-on.
LEMMA ConnectStep ==
    ASSUME ConnInv, ConnectSucceeds \/ ConnectFails, UNCHANGED lifeVars, conf' = conf
    PROVE  /\ base_URL' \in BOOLEAN /\ cred' \in BOOLEAN
           /\ CredInv'
           /\ hist \subseteq hist' /\ hist' \subseteq hist \union {"signOnFailed"}
<1> USE DEF ConnInv, lifeVars
<1>1. conf.url \in BOOLEAN
  BY ConnectorAssumption DEF LifeTypeOK, Configurations
<1>2. NeedsCredentials' = NeedsCredentials
  BY DEF NeedsCredentials, AsksAD
<1>3. CASE base_URL /\ UNCHANGED <<connVars, hist>>
  <2>1. base_URL' = base_URL /\ cred' = cred /\ hist' = hist
    BY <1>3 DEF connVars
  <2> QED
    BY <1>2, <2>1 DEF CredInv, LifeTypeOK
<1>4. CASE /\ ~base_URL /\ conf.url
           /\ NeedsCredentials => var["curl"] = "live"
           /\ MaySignOn
           /\ base_URL' = TRUE
           /\ cred' = NeedsCredentials
           /\ UNCHANGED hist
  <2>1. cred' \in BOOLEAN /\ base_URL' \in BOOLEAN
    BY <1>4 DEF NeedsCredentials
  <2>2. NeedsCredentials /\ ~Failed => H5_rest_initialized_g
    BY <1>4, TheResources DEF LeftoversInv, Freed
  <2>3. CredInv'
    <3> SUFFICES ASSUME NeedsCredentials', hist' \cap {"initFailed", "signOnFailed"} = {}
                 PROVE  H5_rest_initialized_g' /\ cred'
      BY DEF CredInv
    <3>1. NeedsCredentials /\ ~Failed
      BY <1>2, <1>4 DEF Failed
    <3> QED
      BY <1>4, <2>2, <3>1
  <2> QED
    BY <1>4, <2>1, <2>3
<1>5. CASE ConnectFails
  <2>1. /\ base_URL' = conf.url
        /\ hist' = IF conf.url THEN hist \union {"signOnFailed"} ELSE hist
        /\ cred' = cred
    BY <1>5 DEF ConnectFails
  <2>2. CredInv'
    BY <2>1 DEF CredInv
  <2> QED
    BY <1>1, <2>1, <2>2 DEF LifeTypeOK
<1> QED
  BY <1>3, <1>4, <1>5 DEF ConnectSucceeds

\* Anything live that H5_rest_term frees belongs to an initialized connector.
LEMMA LiveWhenInitialized ==
    ASSUME ConnInv, NEW r \in Freed, var[r] = "live"
    PROVE  H5_rest_initialized_g \/ Failed
  BY TheResources DEF ConnInv, LeftoversInv, Freed

LEMMA SetFaplStep == ConnInv /\ SetFapl => ConnInv'
<1> SUFFICES ASSUME ConnInv, SetFapl
             PROVE  ConnInv'
  OBVIOUS
<1>1. UNCHANGED lifeVars /\ conf' = conf /\ files' = files /\ up' = up
  BY DEF SetFapl, viewVars
<1>2. /\ base_URL' \in BOOLEAN /\ cred' \in BOOLEAN
      /\ CredInv'
      /\ hist \subseteq hist' /\ hist' \subseteq hist \union {"signOnFailed"}
  BY <1>1, ConnectStep DEF SetFapl
<1>3. up' \in BOOLEAN /\ NoCrash' /\ FilesInv'
  BY <1>1, <1>2 DEF ConnInv, LifeTypeOK, NoCrash, FilesInv, Failed, lifeVars
<1> QED
  BY <1>1, <1>2, <1>3, QuietStep

LEMMA FileOpenStep == \A f \in Files : ConnInv /\ FileOpen(f) => ConnInv'
<1> SUFFICES ASSUME NEW f \in Files, ConnInv, FileOpen(f)
             PROVE  ConnInv'
  OBVIOUS
<1>1. UNCHANGED lifeVars /\ conf' = conf /\ up
  BY DEF FileOpen
<1>2. /\ base_URL' \in BOOLEAN /\ cred' \in BOOLEAN
      /\ CredInv'
      /\ hist \subseteq hist' /\ hist' \subseteq hist \union {"signOnFailed"}
  BY <1>1, ConnectStep DEF FileOpen
<1>3. H5_rest_initialized_g => var["curl"] = "live" /\ var["buffer"] = "live" /\ var["tables"] = "live"
  BY TheResources DEF ConnInv, ResourcesAccounted
<1>4. \/ files' = files /\ up' = up
      \/ files' = files \union {f} /\ up' = up /\ var["tables"] = "live"
      \/ files' = files /\ up' = FALSE /\ var["curl"] = "live"
            /\ ~(var["buffer"] = "live" /\ var["tables"] = "live")
  BY DEF FileOpen, Requests, Breaks
<1>5. up' \in BOOLEAN
  BY <1>4 DEF ConnInv, LifeTypeOK
<1>6. FilesInv'
  <2>1. var["tables"] = "live" => H5_rest_initialized_g \/ Failed
    BY LiveWhenInitialized DEF Freed
  <2> QED
    BY <1>1, <1>2, <1>4, <2>1 DEF FilesInv, ConnInv, Failed, lifeVars
<1>7. NoCrash'
  <2>1. var["curl"] = "live" => H5_rest_initialized_g \/ Failed
    BY LiveWhenInitialized DEF Freed
  <2> QED
    BY <1>1, <1>2, <1>3, <1>4, <2>1 DEF NoCrash, ConnInv, Failed
<1> QED
  BY <1>1, <1>2, <1>5, <1>6, <1>7, QuietStep

\* Steps that leave the connection alone, too.
LEMMA LocalStep ==
    ASSUME ConnInv, UNCHANGED <<lifeVars, connVars, conf>>, up' \in BOOLEAN,
           FilesInv', NoCrash', hist \subseteq hist', hist' \subseteq hist \union {"openFailed"}
    PROVE  ConnInv'
<1>1. CredInv'
  BY DEF ConnInv, CredInv, NeedsCredentials, AsksAD, lifeVars, connVars
<1>2. base_URL' \in BOOLEAN /\ cred' \in BOOLEAN
  BY DEF ConnInv, LifeTypeOK, connVars
<1> QED
  BY <1>1, <1>2, QuietStep

LEMMA FileCloseStep == \A f \in Files : ConnInv /\ FileClose(f) => ConnInv'
<1> SUFFICES ASSUME NEW f \in Files, ConnInv, FileClose(f)
             PROVE  ConnInv'
  OBVIOUS
<1>1. /\ UNCHANGED <<lifeVars, connVars, conf, up, hist>>
      /\ f \in files /\ files' = files \ {f}
  BY DEF FileClose
<1>2. up' \in BOOLEAN /\ FilesInv' /\ NoCrash'
  BY <1>1 DEF ConnInv, LifeTypeOK, FilesInv, NoCrash, Failed, lifeVars
<1> QED
  BY <1>1, <1>2, LocalStep

LEMMA DatasetOpenStep ==
    \A v \in Views, d \in Datasets : ConnInv /\ DatasetOpen(v, d) => ConnInv'
<1> SUFFICES ASSUME NEW v \in Views, NEW d \in Datasets, ConnInv, DatasetOpen(v, d)
             PROVE  ConnInv'
  OBVIOUS
<1>1. /\ UNCHANGED <<lifeVars, connVars, conf, files>>
      /\ hist \subseteq hist' /\ hist' \subseteq hist \union {"openFailed"}
      /\ FileOf[d] \in files
      /\ \/ up' = up
         \/ up' = FALSE /\ (var["tables"] # "live" \/ var["buffer"] # "live")
  BY DEF DatasetOpen, Crash, Breaks, lifeVars, connVars, viewVars
<1>2. FilesInv'
  BY <1>1 DEF ConnInv, FilesInv, Failed, lifeVars
<1>3. up' \in BOOLEAN
  BY <1>1 DEF ConnInv, LifeTypeOK
<1>4. H5_rest_initialized_g => var["buffer"] = "live" /\ var["tables"] = "live"
  BY TheResources DEF ConnInv, ResourcesAccounted
<1>5. H5_rest_initialized_g \/ Failed \/ "misused" \in hist
  BY <1>1 DEF ConnInv, FilesInv
<1>6. NoCrash'
  BY <1>1, <1>4, <1>5 DEF ConnInv, NoCrash, Failed
<1> QED
  BY <1>1, <1>2, <1>3, <1>6, LocalStep

LEMMA DatasetCloseStep == \A v \in Views : ConnInv /\ DatasetClose(v) => ConnInv'
<1> SUFFICES ASSUME NEW v \in Views, ConnInv, DatasetClose(v)
             PROVE  ConnInv'
  OBVIOUS
<1>1. UNCHANGED <<lifeVars, connVars, files, conf, up, hist>>
  BY DEF DatasetClose
<1>2. up' \in BOOLEAN /\ FilesInv' /\ NoCrash'
  BY <1>1 DEF ConnInv, LifeTypeOK, FilesInv, NoCrash, Failed, lifeVars
<1> QED
  BY <1>1, <1>2, LocalStep

LEMMA StutterStep == ConnInv /\ UNCHANGED vars => ConnInv'
<1> SUFFICES ASSUME ConnInv, UNCHANGED vars
             PROVE  ConnInv'
  OBVIOUS
<1>1. UNCHANGED <<lifeVars, connVars, files, conf, up, hist>>
  BY DEF vars, viewVars
<1>2. up' \in BOOLEAN /\ FilesInv' /\ NoCrash'
  BY <1>1 DEF ConnInv, LifeTypeOK, FilesInv, NoCrash, Failed, lifeVars
<1> QED
  BY <1>1, <1>2, LocalStep

LEMMA NextKeeps == ConnInv /\ [Next]_vars => ConnInv'
<1> SUFFICES ASSUME ConnInv, [Next]_vars
             PROVE  ConnInv'
  OBVIOUS
<1>1. CASE H5rest_init
  BY <1>1, H5rest_initStep
<1>2. CASE PluginLoaded
  BY <1>2, PluginLoadedStep
<1>3. CASE H5rest_term
  BY <1>3, H5rest_termStep
<1>4. CASE ClosedByHDF5
  BY <1>4, ClosedByHDF5Step
<1>5. CASE SetFapl
  BY <1>5, SetFaplStep
<1>6. CASE \E f \in Files : FileOpen(f) \/ FileClose(f)
  BY <1>6, FileOpenStep, FileCloseStep
<1>7. CASE \E v \in Views : \/ \E d \in Datasets : DatasetOpen(v, d)
                            \/ DatasetClose(v)
  BY <1>7, DatasetOpenStep, DatasetCloseStep
<1>8. CASE UNCHANGED vars
  BY <1>8, StutterStep
<1> QED
  BY <1>1, <1>2, <1>3, <1>4, <1>5, <1>6, <1>7, <1>8 DEF Next

(***************************************************************************)
(* Theorems                                                                *)
(***************************************************************************)

\* The invariant holds throughout, from the globals' first values on.
THEOREM ConnectorInvariant == Spec => []ConnInv
<1>1. Init => ConnInv
  BY InitEstablishes, ConnectorAssumption
<1> QED
  BY <1>1, NextKeeps, PTL DEF Spec

\* H5_rest_init, H5_rest_term and H5rest_term, in any order and any number:
\* an initialized connector has all it needs; what is lost, or an identifier
\* that makes H5rest_init fail for ever, goes back to an initialization that
\* failed, or (the pool, the error class) to HDF5 closing the connector.
THEOREM ConnectorAccounted == Spec => []ResourcesAccounted
<1>1. ConnInv => ResourcesAccounted
  BY DEF ConnInv
<1> QED
  BY <1>1, ConnectorInvariant, PTL

\* Neither H5rest_term nor a callback uses freed memory or NULL, unless an
\* initialization has failed or H5rest_term was called out of turn.
THEOREM ConnectorDoesNotCrash == Spec => []NoCrash
<1>1. ConnInv => NoCrash
  BY DEF ConnInv
<1> QED
  BY <1>1, ConnectorInvariant, PTL

\* Over any number of terminations, what H5_rest_set_connection_information
\* has signed on with is on the handle that requests use, unless a sign-on or
\* an initialization has failed.
THEOREM ConnectorSignedOn == Spec => []CredentialsFollow
<1>1. ConnInv => CredentialsFollow
  BY DEF ConnInv, CredInv, CredentialsFollow
<1> QED
  BY <1>1, ConnectorInvariant, PTL

(***************************************************************************)
(* Views of datasets                                                       *)
(***************************************************************************)

Holders(s) == {v \in OpenViews : view[v].space = s}

\* The types of the variables the views are kept in.
ViewTypeOK ==
    /\ view \in [Views -> [of : Datasets \union {None}, space : Spaces \union {None}]]
    /\ \A v \in OpenViews : view[v].of \in Datasets /\ view[v].space \in Spaces
    /\ refs \in [Spaces -> Nat]
    /\ table \in [Files -> Views \union {None}]

\* The table goes with the memory it is in.
TablesInv == var["tables"] # "live" => \A f \in Files : table[f] = None

ViewInv == ViewTypeOK /\ ViewsSound /\ TablesInv

\* The holders of a dataspace are finitely many.
LEMMA HoldersFinite ==
    \A s \in Spaces : IsFiniteSet(Holders(s)) /\ Cardinality(Holders(s)) \in Nat
  BY ConnectorAssumption, FS_Subset, FS_CardinalityType DEF Holders, OpenViews

\* The count of a dataspace, in terms of its holders.
LEMMA CountsHolders ==
    ASSUME ViewsSound
    PROVE  \A s \in Spaces : \/ refs[s] = Cardinality(Holders(s))
                             \/ refs[s] > Cardinality(Holders(s)) /\ "openFailed" \in hist
  BY DEF ViewsSound, Holders

LEMMA ViewsAtFirst == ConnectorAssumption /\ Init => ViewInv
<1> SUFFICES ASSUME ConnectorAssumption, Init
             PROVE  ViewInv
  OBVIOUS
<1>1. OpenViews = {}
  BY DEF Init, OpenViews
<1>2. ViewTypeOK
  BY <1>1 DEF Init, ViewTypeOK, Closed
<1>3. \A s \in Spaces : Cardinality({v \in OpenViews : view[v].space = s}) = 0
  <2>1. \A s \in Spaces : {v \in OpenViews : view[v].space = s} = {}
    BY <1>1
  <2> QED
    BY <2>1, FS_EmptySet
<1>4. ViewsSound /\ TablesInv
  BY <1>1, <1>3 DEF Init, ViewsSound, TablesInv
<1> QED
  BY <1>2, <1>4 DEF ViewInv

\* Steps that at most empty the table.
LEMMA TableStep ==
    ASSUME ViewInv, view' = view, refs' = refs, TablesInv',
           table' = table \/ table' = [f \in Files |-> None],
           hist \cap {"openFailed"} \subseteq hist'
    PROVE  ViewInv'
<1>1. OpenViews' = OpenViews
  BY DEF OpenViews
<1>2. ViewTypeOK'
  BY <1>1 DEF ViewInv, ViewTypeOK
<1>3. ViewsSound'
  BY <1>1 DEF ViewInv, ViewsSound
<1> QED
  BY <1>2, <1>3 DEF ViewInv

\* An initialization empties the table when it gets as far as making it.
LEMMA InitTable ==
    ASSUME LifeTypeOK, TablesInv, InitSucceeds \/ InitFails
    PROVE  /\ TablesInv'
           /\ table' = table \/ table' = [f \in Files |-> None]
<1>1. PICK n \in {0, 1, 2, 3, 4, 5}, next \in BOOLEAN : Making(n, next) /\ (n = 3 => ~next)
  <2>1. \/ \E n \in {0, 1, 2, 4}, next \in BOOLEAN : Making(n, next)
        \/ \E n \in {2, 3, 5} : Making(n, FALSE)
    BY TheFirst DEF InitSucceeds, InitFails
  <2>2. CASE \E n \in {0, 1, 2, 4}, next \in BOOLEAN : Making(n, next)
    <3>1. PICK n \in {0, 1, 2, 4}, next \in BOOLEAN : Making(n, next)
      BY <2>2
    <3>2. n \in {0, 1, 2, 3, 4, 5} /\ n # 3
      BY <3>1
    <3> QED
      BY <3>1, <3>2
  <2>3. CASE \E n \in {2, 3, 5} : Making(n, FALSE)
    BY <2>3
  <2> QED
    BY <2>1, <2>2, <2>3
<1>2. FirstMade(3) = {"pool", "curl", "buffer"}
  <2>1. 1..3 = {1, 2, 3}
    OBVIOUS
  <2> QED
    BY <2>1 DEF FirstMade, Made
<1>3. CASE "tables" \in FirstMade(n)
  BY <1>1, <1>3, TheResources DEF Making, VarAfter, TablesInv
<1>4. CASE "tables" \notin FirstMade(n)
  <2>1. n \in {0, 1, 2, 3}
    BY <1>4, TheFirst, TheResources
  <2>2. ~(next /\ "tables" \in FirstMade(n + 1))
    BY <1>1, <1>2, <2>1, TheFirst
  <2>3. var'["tables"] = var["tables"] /\ table' = table
    BY <1>1, <1>4, <2>2, TheResources DEF Making, VarAfter
  <2> QED
    BY <2>3 DEF TablesInv
<1> QED
  BY <1>3, <1>4

\* A termination empties the table when it frees it.
LEMMA TermTable ==
    ASSUME TablesInv, NEW gone, RestTerm(gone), Forget, Freed \cap gone \subseteq Gone
    PROVE  /\ TablesInv'
           /\ table' = table \/ table' = [f \in Files |-> None]
<1>1. CASE H5_rest_initialized_g
  BY <1>1 DEF Forget, TablesInv
<1>2. CASE ~H5_rest_initialized_g
  <2>1. "tables" \notin gone
    BY <1>2 DEF Freed, Gone
  <2>2. var'["tables"] = var["tables"] /\ table' = table
    BY <1>2, <2>1, TheResources DEF RestTerm, Forget
  <2> QED
    BY <2>2 DEF TablesInv
<1> QED
  BY <1>1, <1>2

\* Two views of different datasets do not meet in a dataspace when a new view
\* takes the one of a view in the table, or one that nobody holds.
LEMMA SpaceIsForOne ==
    ASSUME ViewInv, NEW d \in Datasets, NEW s \in Spaces, SpaceFor(d, s)
    PROVE  /\ \A w \in OpenViews : view[w].space = s => view[w].of = d
           /\ refs' \in [Spaces -> Nat]
           /\ refs' = [refs EXCEPT ![s] = refs[s] + 1]
<1> USE DEF ViewInv, ViewTypeOK
<1>1. CASE Shared(d) # {}
  <2>1. s \in Shared(d) /\ refs' = [refs EXCEPT ![s] = refs[s] + 1]
    BY <1>1 DEF SpaceFor, TakeSpace
  <2>2. PICK w \in InTable : view[w].of = d /\ view[w].space = s
    BY <2>1 DEF Shared
  <2>3. w \in OpenViews
    BY <2>2 DEF InTable, ViewsSound
  <2>4. \A u \in OpenViews : view[u].space = s => view[u].of = d
    BY <2>2, <2>3 DEF ViewsSound
  <2> QED
    BY <2>1, <2>4
<1>2. CASE Shared(d) = {}
  <2>1. refs[s] = 0 /\ refs' = [refs EXCEPT ![s] = 1]
    BY <1>2 DEF SpaceFor, FreeSpaces
  <2>2. Cardinality(Holders(s)) = 0
    BY <2>1, HoldersFinite, CountsHolders
  <2>3. Holders(s) = {}
    BY <2>2, HoldersFinite, FS_EmptySet
  <2> QED
    BY <2>1, <2>3 DEF Holders
<1> QED
  BY <1>1, <1>2

\* RV_dataset_open.
LEMMA OpenKeepsViews ==
    \A v \in Views, d \in Datasets : ViewInv /\ DatasetOpen(v, d) => ViewInv'
<1> SUFFICES ASSUME NEW v \in Views, NEW d \in Datasets, ViewInv, DatasetOpen(v, d)
             PROVE  ViewInv'
  OBVIOUS
<1> USE DEF ViewInv, ViewTypeOK
<1>1. CASE Crash
  <2>1. view' = view /\ refs' = refs /\ table' = table /\ hist' = hist /\ TablesInv'
    BY <1>1 DEF Crash, viewVars, TablesInv
  <2> QED
    BY <2>1, TableStep
<1>2. CASE ~Crash
  <2>1. PICK s \in Spaces :
           /\ SpaceFor(d, s)
           /\ \/ /\ view' = [view EXCEPT ![v] = [of |-> d, space |-> s]]
                 /\ table' = [table EXCEPT ![FileOf[d]] = v]
                 /\ UNCHANGED hist
              \/ /\ hist' = hist \union {"openFailed"}
                 /\ UNCHANGED <<view, table>>
    BY <1>2 DEF DatasetOpen
  <2>2. view[v] = Closed /\ var["tables"] = "live" /\ var' = var
    BY <1>2 DEF DatasetOpen, lifeVars
  <2>3. TablesInv'
    BY <2>2 DEF TablesInv
  <2>4. /\ \A w \in OpenViews : view[w].space = s => view[w].of = d
        /\ refs' \in [Spaces -> Nat]
        /\ refs' = [refs EXCEPT ![s] = refs[s] + 1]
    BY <2>1, SpaceIsForOne
  <2>5. \A t \in Spaces : \/ refs[t] = Cardinality(Holders(t))
                          \/ refs[t] > Cardinality(Holders(t)) /\ "openFailed" \in hist
    BY CountsHolders
  <2>6. CASE /\ view' = [view EXCEPT ![v] = [of |-> d, space |-> s]]
             /\ table' = [table EXCEPT ![FileOf[d]] = v]
             /\ UNCHANGED hist
    <3>1. 0 \notin Spaces /\ [of |-> d, space |-> s] # Closed
      BY DEF Spaces, Closed, None
    <3>2. OpenViews' = OpenViews \union {v} /\ v \notin OpenViews
      BY <2>2, <2>6, <3>1 DEF OpenViews
    <3>3. \A w \in OpenViews : view'[w] = view[w]
      BY <2>6, <3>2 DEF OpenViews
    <3>4. view'[v] = [of |-> d, space |-> s]
      BY <2>6
    <3>5. ViewTypeOK'
      <4>1. view' \in [Views -> [of : Datasets \union {None}, space : Spaces \union {None}]]
        BY <2>6
      <4>2. \A w \in OpenViews' : view'[w].of \in Datasets /\ view'[w].space \in Spaces
        BY <3>2, <3>3, <3>4
      <4>3. table' \in [Files -> Views \union {None}]
        BY <2>6
      <4> QED
        BY <2>4, <4>1, <4>2, <4>3
    <3>6. \A f \in Files : table'[f] # None =>
             table'[f] \in OpenViews' /\ FileOf[view'[table'[f]].of] = f
      <4>1. FileOf[d] \in Files
        BY DEF Files
      <4> QED
        BY <2>6, <3>2, <3>3, <3>4, <4>1 DEF ViewsSound
    <3>7. \A u, w \in OpenViews' : view'[u].space = view'[w].space => view'[u].of = view'[w].of
      BY <2>4, <3>2, <3>3, <3>4 DEF ViewsSound
    <3>8. ASSUME NEW t \in Spaces
          PROVE  \/ refs'[t] = Cardinality(Holders(t)')
                 \/ refs'[t] > Cardinality(Holders(t)') /\ "openFailed" \in hist'
      <4>1. CASE t = s
        <5>1. Holders(t)' = Holders(t) \union {v} /\ v \notin Holders(t)
          BY <3>2, <3>3, <3>4, <4>1 DEF Holders
        <5>2. Cardinality(Holders(t)') = Cardinality(Holders(t)) + 1
          BY <5>1, HoldersFinite, FS_AddElement
        <5> QED
          BY <2>4, <2>5, <2>6, <4>1, <5>2, HoldersFinite
      <4>2. CASE t # s
        <5>1. Holders(t)' = Holders(t)
          BY <3>2, <3>3, <3>4, <4>2 DEF Holders
        <5> QED
          BY <2>4, <2>5, <2>6, <4>2, <5>1
      <4> QED
        BY <4>1, <4>2
    <3>9. ViewsSound'
      BY <3>6, <3>7, <3>8 DEF ViewsSound, Holders
    <3> QED
      BY <2>3, <3>5, <3>9
  <2>7. CASE hist' = hist \union {"openFailed"} /\ UNCHANGED <<view, table>>
    <3>1. OpenViews' = OpenViews
      BY <2>7 DEF OpenViews
    <3>2. \A t \in Spaces : Holders(t)' = Holders(t)
      BY <2>7, <3>1 DEF Holders
    <3>3. ViewTypeOK'
      BY <2>4, <2>7, <3>1
    <3>4. \A t \in Spaces : \/ refs'[t] = Cardinality(Holders(t)')
                            \/ refs'[t] > Cardinality(Holders(t)') /\ "openFailed" \in hist'
      BY <2>4, <2>5, <2>7, <3>2, HoldersFinite
    <3>5. ViewsSound'
      BY <2>7, <3>1, <3>4 DEF ViewsSound, Holders
    <3> QED
      BY <2>3, <3>3, <3>5
  <2> QED
    BY <2>1, <2>6, <2>7
<1> QED
  BY <1>1, <1>2

\* RV_dataset_close.
LEMMA CloseKeepsViews == \A v \in Views : ViewInv /\ DatasetClose(v) => ViewInv'
<1> SUFFICES ASSUME NEW v \in Views, ViewInv, DatasetClose(v)
             PROVE  ViewInv'
  OBVIOUS
<1> USE DEF ViewInv, ViewTypeOK
<1> DEFINE s == view[v].space
           f == FileOf[view[v].of]
<1>1. /\ v \in OpenViews /\ view' = [view EXCEPT ![v] = Closed]
      /\ refs' = [refs EXCEPT ![s] = refs[s] - 1]
      /\ table' = IF var["tables"] = "live" THEN [table EXCEPT ![f] = None] ELSE table
      /\ var' = var /\ hist' = hist
  BY DEF DatasetClose, OpenViews, Remove, lifeVars
<1>2. s \in Spaces /\ view[v].of \in Datasets /\ f \in Files
  BY <1>1 DEF Files
<1>3. OpenViews' = OpenViews \ {v}
  BY <1>1 DEF OpenViews
<1>4. \A w \in OpenViews' : view'[w] = view[w]
  BY <1>1, <1>3 DEF OpenViews
<1>5. \A t \in Spaces : \/ refs[t] = Cardinality(Holders(t))
                        \/ refs[t] > Cardinality(Holders(t)) /\ "openFailed" \in hist
  BY CountsHolders
<1>6. \A t \in Spaces \ {s} : Holders(t)' = Holders(t)
  BY <1>1, <1>3, <1>4 DEF Holders
<1>7. Cardinality(Holders(s)) > 0 /\ Cardinality(Holders(s) \ {v}) = Cardinality(Holders(s)) - 1
  <2>1. v \in Holders(s)
    BY <1>1 DEF Holders
  <2> QED
    BY <1>2, <2>1, HoldersFinite, FS_RemoveElement, FS_EmptySet
<1>8. {w \in OpenViews' : view'[w].space = s} = Holders(s) \ {v}
  BY <1>3, <1>4 DEF Holders
<1> HIDE DEF s
<1>9. ViewTypeOK'
  <2>1. view' \in [Views -> [of : Datasets \union {None}, space : Spaces \union {None}]]
    BY <1>1 DEF Closed
  <2>2. \A w \in OpenViews' : view'[w].of \in Datasets /\ view'[w].space \in Spaces
    BY <1>3, <1>4
  <2>3. refs' \in [Spaces -> Nat]
    BY <1>1, <1>2, <1>5, <1>7, HoldersFinite
  <2>4. table' \in [Files -> Views \union {None}]
    BY <1>1
  <2> QED
    BY <2>1, <2>2, <2>3, <2>4
<1>10. \A t \in Spaces :
          LET holders == Cardinality({w \in OpenViews' : view'[w].space = t}) IN
          refs'[t] = holders \/ (refs'[t] > holders /\ "openFailed" \in hist')
  <2> SUFFICES ASSUME NEW t \in Spaces
               PROVE  LET holders == Cardinality({w \in OpenViews' : view'[w].space = t}) IN
                      refs'[t] = holders \/ (refs'[t] > holders /\ "openFailed" \in hist')
    OBVIOUS
  <2>1. CASE t = s
    <3>1. refs'[s] = refs[s] - 1 /\ refs[s] \in Nat /\ Cardinality(Holders(s)) \in Nat
      BY <1>1, <1>2, HoldersFinite
    <3>2. Cardinality({w \in OpenViews' : view'[w].space = s}) = Cardinality(Holders(s)) - 1
      BY <1>7, <1>8
    <3>3. \/ refs[s] = Cardinality(Holders(s))
          \/ refs[s] > Cardinality(Holders(s)) /\ "openFailed" \in hist'
      BY <1>1, <1>2, <1>5
    <3> QED
      BY <2>1, <3>1, <3>2, <3>3
  <2>2. CASE t # s
    <3>1. {w \in OpenViews' : view'[w].space = t} = Holders(t)
      BY <1>6, <2>2 DEF Holders
    <3> QED
      BY <1>1, <1>5, <2>2, <3>1
  <2> QED
    BY <2>1, <2>2
<1>11. ASSUME NEW g \in Files, table'[g] # None
       PROVE  table'[g] \in OpenViews' /\ FileOf[view'[table'[g]].of] = g
  <2>0. var["tables"] = "live"
    BY <1>1, <1>11 DEF TablesInv
  <2>1. table'[g] = table[g] /\ g # f
    BY <1>1, <1>2, <1>11, <2>0
  <2>2. table[g] \in OpenViews /\ FileOf[view[table[g]].of] = g
    BY <1>11, <2>1 DEF ViewsSound
  <2>3. table[g] # v
    BY <2>1, <2>2
  <2> QED
    BY <1>3, <1>4, <2>1, <2>2, <2>3
<1>12. \A u, w \in OpenViews' : view'[u].space = view'[w].space => view'[u].of = view'[w].of
  BY <1>3, <1>4 DEF ViewsSound
<1>13. ViewsSound'
  BY <1>10, <1>11, <1>12 DEF ViewsSound
<1>14. TablesInv'
  BY <1>1 DEF TablesInv
<1> QED
  BY <1>9, <1>13, <1>14

\* Any step.  Only what the life of the connector does to the table is left.
LEMMA NextKeepsViews == ConnInv /\ ViewInv /\ [Next]_vars => ViewInv'
<1> SUFFICES ASSUME ConnInv, ViewInv, [Next]_vars
             PROVE  ViewInv'
  OBVIOUS
<1> USE DEF ViewInv
<1>1. CASE H5rest_init
  <2>1. view' = view /\ refs' = refs
    BY <1>1 DEF H5rest_init
  <2>2. CASE InitSucceeds \/ InitFails
    <3>1. hist \cap {"openFailed"} \subseteq hist'
      BY <2>2 DEF InitSucceeds, InitFails
    <3> QED
      BY <2>1, <2>2, <3>1, InitTable, TableStep DEF ConnInv
  <2>3. CASE var' = var /\ table' = table /\ hist' = hist
    <3>1. TablesInv'
      BY <2>3 DEF TablesInv
    <3> QED
      BY <2>1, <2>3, <3>1, TableStep
  <2> QED
    BY <1>1, <2>2, <2>3 DEF H5rest_init
<1>2. CASE PluginLoaded
  <2>1. view' = view /\ refs' = refs /\ (InitSucceeds \/ InitFails)
    BY <1>2 DEF PluginLoaded
  <2>2. hist \cap {"openFailed"} \subseteq hist'
    BY <2>1 DEF InitSucceeds, InitFails
  <2> QED
    BY <2>1, <2>2, InitTable, TableStep DEF ConnInv
<1>3. CASE H5rest_term
  <2>1. view' = view /\ refs' = refs /\ hist \cap {"openFailed"} \subseteq hist' /\ Forget
    BY <1>3 DEF H5rest_term
  <2>2. PICK gone : RestTerm(gone) /\ Freed \cap gone \subseteq Gone
    BY <1>3 DEF H5rest_term, Freed
  <2> QED
    BY <2>1, <2>2, TermTable, TableStep
<1>4. CASE ClosedByHDF5
  <2>1. view' = view /\ refs' = refs /\ hist \cap {"openFailed"} \subseteq hist' /\ Forget
    BY <1>4 DEF ClosedByHDF5
  <2>2. RestTerm(Gone) /\ Freed \cap Gone \subseteq Gone
    BY <1>4 DEF ClosedByHDF5
  <2> QED
    BY <2>1, <2>2, TermTable, TableStep
<1>5. ASSUME view' = view, refs' = refs, table' = table, var' = var, hist \subseteq hist'
      PROVE  ViewInv'
  <2>1. TablesInv'
    BY <1>5 DEF TablesInv
  <2> QED
    BY <1>5, <2>1, TableStep
<1>6. CASE SetFapl
  <2>1. hist \subseteq hist'
    BY <1>6 DEF SetFapl, ConnectSucceeds, ConnectFails
  <2> QED
    BY <1>5, <1>6, <2>1 DEF SetFapl, lifeVars, viewVars
<1>7. ASSUME NEW f \in Files, FileOpen(f) \/ FileClose(f)
      PROVE  ViewInv'
  <2>1. hist \subseteq hist'
    BY <1>7 DEF FileOpen, FileClose, ConnectSucceeds, ConnectFails
  <2> QED
    BY <1>5, <1>7, <2>1 DEF FileOpen, FileClose, lifeVars
<1>8. CASE \E v \in Views : \/ \E d \in Datasets : DatasetOpen(v, d)
                            \/ DatasetClose(v)
  BY <1>8, OpenKeepsViews, CloseKeepsViews
<1>9. CASE UNCHANGED vars
  BY <1>5, <1>9 DEF vars, lifeVars, viewVars
<1> QED
  BY <1>1, <1>2, <1>3, <1>4, <1>6, <1>7, <1>8, <1>9 DEF Next

\* Opening and closing views of datasets in any order, through failures and
\* terminations: an entry of the table names an open view of its file,
\* a dataspace is shared by views of one dataset only, and H5Iinc_ref and
\* H5Sclose keep its count exact, until an open has failed half way.
THEOREM ConnectorViews == Spec => []ViewsSound
<1>1. Init => ViewInv
  BY ViewsAtFirst, ConnectorAssumption
<1>2. ViewInv => ViewsSound
  BY DEF ViewInv
<1> QED
  BY <1>1, <1>2, ConnectorInvariant, NextKeepsViews, PTL DEF Spec

=============================================================================
