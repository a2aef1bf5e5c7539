------------------------------ MODULE Connector ------------------------------
(***************************************************************************)
(* The connector from H5rest_init to H5rest_term, rest_vol.c: the globals  *)
(* it makes and destroys, its registration with HDF5, how the first use    *)
(* finds the server and signs on, and the table of open datasets through   *)
(* which two views of one dataset are to share a dataspace                 *)
(* (rest_vol_dataset.c).  What a single callback does with the curl handle *)
(* is in Session and Vol; here is what one call leaves for the next.       *)
(*                                                                         *)
(* FUNC_GOTO_ERROR returns, so the H5rest_term() behind the label done of  *)
(* H5rest_init and H5_rest_init is never reached, and a failed call leaves *)
(* what it had made.                                                       *)
(***************************************************************************)
EXTENDS Integers, Sequences, FiniteSets

CONSTANTS MaxInits,   \* bound: calls of H5_rest_init
          Confs,      \* the configurations considered, a subset of Configurations
          FileOf,     \* the datasets, and the file of each
          Views       \* handles of datasets the application may hold

Configurations ==
    [url : BOOLEAN,    \* an endpoint: HSDS_ENDPOINT, or hs_endpoint in .hscfg
     env : BOOLEAN,    \* it comes from the environment
     user : BOOLEAN,   \* a user name or password
     ids : BOOLEAN,    \* the identifiers of Active Directory
     token : {"absent", "valid", "expired"}]   \* .hstokencfg

ASSUME ConnectorAssumption ==
    /\ MaxInits \in Nat \ {0}
    /\ Confs \subseteq Configurations
    /\ \A c \in Confs : c.env => c.url
    /\ IsFiniteSet(Views)

Datasets == DOMAIN FileOf
Files == {FileOf[d] : d \in Datasets}

\* What H5_rest_init makes, in this order: the pool, the curl handle, the
\* response buffer, the type-info tables, the error class with its messages.
Made == <<"pool", "curl", "buffer", "tables", "errors">>
Resources == {Made[n] : n \in DOMAIN Made}
Spaces == 1..(Cardinality(Views) + 1)
None == 0
Closed == [of |-> None, space |-> None]

VARIABLES
    registered,            \* with the HDF5 library
    H5_rest_id_g,          \* "none", "valid", or "stale": an identifier HDF5 has closed
    H5_rest_initialized_g,
    var,                   \* of each resource: its global is "null", "live" or "dead"
    live,                  \* of each resource: how many of it exist
    conf,                  \* the environment and the files in $HOME
    base_URL,              \* has it been set?
    cred,                  \* the credentials of the configuration are on this curl handle
    files,                 \* the open files
    view,                  \* of each handle: its dataset and its dataspace
    refs,                  \* of each dataspace: its reference count in HDF5
    table,                 \* of each file: the view its entry in the table names
    inits,                 \* how often H5_rest_init was called
    up,                    \* the process lives
    hist                   \* history, see Happenings

Happenings == {"initFailed",     \* an H5_rest_init failed
               "signOnFailed",   \* since base_URL was set, a sign-on failed
               "openFailed",     \* an RV_dataset_open failed half way
               "closedByHDF5",   \* HDF5 closed the connector
               "terminated",     \* H5rest_term was called since the last H5_rest_init
               "misused"}        \* it was called twice, or without init, or with files open

lifeVars == <<registered, H5_rest_id_g, H5_rest_initialized_g, var, live, inits>>
connVars == <<base_URL, cred>>
viewVars == <<files, view, refs, table>>
vars == <<lifeVars, connVars, viewVars, conf, up, hist>>

Init ==
    /\ registered = FALSE /\ H5_rest_id_g = "none" /\ H5_rest_initialized_g = FALSE
    /\ var = [r \in Resources |-> "null"] /\ live = [r \in Resources |-> 0]
    /\ inits = 0
    /\ conf \in Confs
    /\ base_URL = FALSE /\ cred = FALSE
    /\ files = {}
    /\ view = [v \in Views |-> Closed]
    /\ refs = [s \in Spaces |-> 0]
    /\ table = [f \in Files |-> None]
    /\ up = TRUE
    /\ hist = {}

\* A wild or NULL pointer is used: the process ends.
Crash ==
    /\ up' = FALSE
    /\ UNCHANGED <<registered, H5_rest_id_g, H5_rest_initialized_g, var, live, inits, connVars,
                   viewVars, conf, hist>>

OpenViews == {v \in Views : view[v] # Closed}

-----------------------------------------------------------------------------
(* H5_rest_init: the pool comes first, before the look at initialized, and *)
(* whatever the globals held is overwritten.  (The callers never call it   *)
(* when the connector is initialized.)                                     *)

FirstMade(n) == {Made[m] : m \in 1..n}

\* The globals after the first n were made and the next one (if next) was
\* assigned the NULL it got.
VarAfter(n, next) ==
    [r \in Resources |-> IF r \in FirstMade(n) THEN "live"
                         ELSE IF next /\ r \in FirstMade(n + 1) THEN "null"
                         ELSE var[r]]

Making(n, next) ==
    /\ var' = VarAfter(n, next)
    /\ live' = [r \in Resources |-> IF r \in FirstMade(n) THEN live[r] + 1 ELSE live[r]]
    /\ table' = IF "tables" \in FirstMade(n) THEN [f \in Files |-> None] ELSE table
    /\ cred' = (cred /\ "curl" \notin FirstMade(n) /\ VarAfter(n, next)["curl"] = "live")
    /\ inits < MaxInits
    /\ inits' = inits + 1

InitSucceeds ==
    /\ Making(Len(Made), FALSE)
    /\ H5_rest_initialized_g' = TRUE
    /\ hist' = hist \ {"terminated"}
    /\ UNCHANGED base_URL

\* It fails for want of the pool, the handle, the buffer or the error class,
\* at an option that the handle refuses (behind the handle or the buffer), or
\* with all of them made and a message missing.
InitFails ==
    /\ \/ \E n \in {0, 1, 2, 4}, next \in BOOLEAN : Making(n, next)
       \/ \E n \in {2, 3, Len(Made)} : Making(n, FALSE)
    /\ hist' = (hist \ {"terminated"}) \union {"initFailed"}
    /\ UNCHANGED <<H5_rest_initialized_g, base_URL>>

\* H5rest_init.
H5rest_init ==
    /\ up
    /\ UNCHANGED <<files, view, refs, conf, up>>
    /\ \/ /\ H5_rest_id_g = "stale"                  \* H5Iget_type fails
          /\ UNCHANGED <<registered, H5_rest_id_g, H5_rest_initialized_g, var, live, inits,
                         connVars, table, hist>>
       \/ /\ H5_rest_id_g # "stale"
          /\ ~registered                             \* H5VLregister_connector
          /\ \/ InitSucceeds /\ registered' = TRUE /\ H5_rest_id_g' = "valid"
             \/ InitFails /\ UNCHANGED <<registered, H5_rest_id_g>>
       \/ /\ H5_rest_id_g # "stale"
          /\ registered
          /\ H5_rest_id_g' = "valid"                 \* H5VLget_connector_id_by_name
          /\ UNCHANGED registered
          /\ \/ ~H5_rest_initialized_g /\ (InitSucceeds \/ InitFails)
             \/ /\ H5_rest_initialized_g
                /\ UNCHANGED <<H5_rest_initialized_g, var, live, inits, connVars, table, hist>>

\* HDF5 loads the connector as a plugin: it calls H5_rest_init, and nothing
\* sets H5_rest_id_g.
PluginLoaded ==
    /\ up /\ ~registered
    /\ \/ InitSucceeds /\ registered' = TRUE
       \/ InitFails /\ UNCHANGED registered
    /\ UNCHANGED <<H5_rest_id_g, files, view, refs, conf, up>>

-----------------------------------------------------------------------------
(* Termination. *)

\* Faulty variant: the pool is destroyed here, too.
FreedWithPool == {"buffer", "curl", "tables", "pool"}

\* What H5_rest_term frees.
Freed == {"buffer", "curl", "tables"}

\* All but pool are reset.
AfterTerm(r) == IF r = "pool" THEN "dead" ELSE "null"

\* Faulty variant: base_URL outlives the handle it was set up for.
RestTermKeepsURL(gone) ==
    /\ live' = [r \in Resources |-> IF r \in gone THEN live[r] - 1 ELSE live[r]]
    /\ var' = [r \in Resources |-> IF r \in gone THEN AfterTerm(r) ELSE var[r]]
    /\ UNCHANGED base_URL

\* H5_rest_term of an initialized connector (Freed), and what H5rest_term
\* destroys besides.
RestTerm(gone) ==
    /\ live' = [r \in Resources |-> IF r \in gone THEN live[r] - 1 ELSE live[r]]
    /\ var' = [r \in Resources |-> IF r \in gone THEN AfterTerm(r) ELSE var[r]]
    /\ base_URL' = (base_URL /\ ~(Freed \subseteq gone))

\* Faulty variant: the look at initialized is missing.
GoneAlways == Freed

\* The part that is skipped when the connector is not initialized.
Gone == IF H5_rest_initialized_g THEN Freed ELSE {}

Forget ==
    /\ H5_rest_initialized_g' = FALSE
    /\ cred' = (cred /\ ~H5_rest_initialized_g)
    /\ table' = IF H5_rest_initialized_g THEN [f \in Files |-> None] ELSE table

Misuse == IF "terminated" \in hist \/ inits = 0 \/ files # {} THEN {"misused"} ELSE {}

\* H5rest_term.  pool is not reset, so that a second call passes a pointer
\* to freed memory to threadpool_destroy, and without a pool it passes NULL.
H5rest_term ==
    /\ up
    /\ hist' = (hist \union Misuse \union {"terminated"})
                  \ (IF H5_rest_initialized_g THEN {"signOnFailed"} ELSE {})
    /\ \/ /\ var["pool"] = "live"
          /\ RestTerm(Gone \union {"pool"} \union {r \in {"errors"} : var[r] = "live"})
          /\ UNCHANGED up
       \/ /\ var["pool"] # "live"
          /\ RestTerm(Gone)
          /\ up' = FALSE
       \/ /\ var["pool"] = "dead"          \* the memory may still look like a pool
          /\ RestTerm(Gone)
          /\ UNCHANGED up
    /\ Forget
    /\ H5_rest_id_g' = IF H5_rest_initialized_g THEN "none" ELSE H5_rest_id_g
    /\ UNCHANGED <<registered, inits, conf, files, view, refs>>

\* HDF5 closes the connector: the last reference to it is given up, or H5close.
\* It holds a reference for every open file.
ClosedByHDF5 ==
    /\ up /\ registered
    /\ files = {}
    /\ registered' = FALSE
    /\ RestTerm(Gone)
    /\ Forget
    /\ H5_rest_id_g' = IF H5_rest_initialized_g THEN "none"
                       ELSE IF H5_rest_id_g = "valid" THEN "stale" ELSE H5_rest_id_g
    /\ hist' = (hist \union {"closedByHDF5"})
                  \ (IF H5_rest_initialized_g THEN {"signOnFailed"} ELSE {})
    /\ UNCHANGED <<inits, conf, up, files, view, refs>>

-----------------------------------------------------------------------------
(* H5_rest_set_connection_information, H5_rest_authenticate_with_AD.       *)

\* With the endpoint in the environment Active Directory is asked whenever
\* there is no user; with .hscfg when the identifiers are there, too.
AsksAD == IF conf.env THEN ~conf.user ELSE conf.ids
NeedsCredentials == conf.user \/ AsksAD

\* A token of .hstokencfg is used while it is valid, and never renewed.
MaySignOn == ~AsksAD \/ conf.token # "expired"
MustSignOn == ~AsksAD \/ conf.token = "valid"

\* base_URL is set before the sign-on; once it is, nothing else is looked at.
ConnectSucceeds ==
    \/ base_URL /\ UNCHANGED <<connVars, hist>>
    \/ /\ ~base_URL /\ conf.url
       /\ NeedsCredentials => var["curl"] = "live"
       /\ MaySignOn
       /\ base_URL' = TRUE
       /\ cred' = NeedsCredentials
       /\ UNCHANGED hist

ConnectFails ==
    /\ ~base_URL
    /\ ~conf.url \/ (NeedsCredentials /\ (var["curl"] # "live" \/ ~MustSignOn))
    /\ base_URL' = conf.url
    /\ hist' = IF conf.url THEN hist \union {"signOnFailed"} ELSE hist
    /\ UNCHANGED cred

\* Requests can be made; without a buffer the answer is written to NULL.
Requests == var["curl"] = "live"
Breaks == Requests /\ var["buffer"] # "live"

\* H5Pset_fapl_rest_vol.
SetFapl ==
    /\ up
    /\ H5_rest_id_g = "valid"
    /\ ConnectSucceeds \/ ConnectFails
    /\ UNCHANGED <<lifeVars, viewVars, conf, up>>

\* RV_file_create, RV_file_open: the connection, then requests; a half-made
\* connector has a handle but no buffer or no tables.
FileOpen(f) ==
    /\ up /\ registered /\ f \notin files
    /\ \/ ConnectFails /\ UNCHANGED <<files, up>>
       \/ /\ ConnectSucceeds
          /\ \/ UNCHANGED <<files, up>>                        \* a request fails
             \/ /\ Requests
                /\ IF ~Breaks /\ var["tables"] = "live"
                   THEN files' = files \union {f} /\ UNCHANGED up
                   ELSE up' = FALSE /\ UNCHANGED files
    /\ UNCHANGED <<lifeVars, view, refs, table, conf>>

FileClose(f) ==
    /\ up /\ f \in files
    /\ \A v \in OpenViews : FileOf[view[v].of] # f
    /\ files' = files \ {f}
    /\ UNCHANGED <<lifeVars, connVars, view, refs, table, conf, up, hist>>

-----------------------------------------------------------------------------
(* Views of datasets.  The table is keyed by the object's own memory read  *)
(* as a string, that is by the address in its first field, domain: all     *)
(* objects of one file have one key.                                       *)

FreeSpaces == {s \in Spaces : refs[s] = 0}

\* Is there a view of d to share with?  The iteration meets one entry per file.
InTable == {table[f] : f \in Files} \ {None}
Shared(d) == {view[v].space : v \in {w \in InTable : view[w].of = d}}

\* Faulty variant: the dataspace is shared without being counted.
TakeSpaceUncounted(s) == UNCHANGED refs
TakeSpace(s) == refs' = [refs EXCEPT ![s] = @ + 1]

\* The dataspace of a new view: that of a view in the table, or a new one.
SpaceFor(d, s) ==
    IF Shared(d) # {} THEN s \in Shared(d) /\ TakeSpace(s)
    ELSE /\ s \in FreeSpaces
         /\ \A t \in FreeSpaces : s <= t
         /\ refs' = [refs EXCEPT ![s] = 1]

\* RV_dataset_open: the table is read first.
DatasetOpen(v, d) ==
    /\ up /\ view[v] = Closed /\ FileOf[d] \in files
    /\ IF var["tables"] # "live" \/ Breaks
       THEN Crash
       ELSE /\ Requests
            /\ \E s \in Spaces :
                  /\ SpaceFor(d, s)
                  /\ \/ /\ view' = [view EXCEPT ![v] = [of |-> d, space |-> s]]
                        /\ table' = [table EXCEPT ![FileOf[d]] = v]
                        /\ UNCHANGED hist
                     \/ /\ hist' = hist \union {"openFailed"}   \* the datatype is not understood
                        /\ "openFailed" \notin hist             \* (once: the dataspace is lost)
                        /\ UNCHANGED <<view, table>>
            /\ UNCHANGED <<lifeVars, connVars, files, conf, up>>

\* Faulty variant: the entry stays.
RemoveNothing(f) == UNCHANGED table

\* rv_hash_table_remove by the key of the file: whoever's entry it is.
Remove(f) == table' = IF var["tables"] = "live" THEN [table EXCEPT ![f] = None] ELSE table

DatasetClose(v) ==
    /\ up /\ view[v] # Closed
    /\ view' = [view EXCEPT ![v] = Closed]
    /\ refs' = [refs EXCEPT ![view[v].space] = @ - 1]
    /\ Remove(FileOf[view[v].of])
    /\ UNCHANGED <<lifeVars, connVars, files, conf, up, hist>>

-----------------------------------------------------------------------------
Next ==
    \/ H5rest_init \/ PluginLoaded \/ H5rest_term \/ ClosedByHDF5 \/ SetFapl
    \/ \E f \in Files : FileOpen(f) \/ FileClose(f)
    \/ \E v \in Views : \/ \E d \in Datasets : DatasetOpen(v, d)
                        \/ DatasetClose(v)

Spec == Init /\ [][Next]_vars

-----------------------------------------------------------------------------
(* Properties. *)

Surplus(r) == live[r] - (IF var[r] = "live" THEN 1 ELSE 0)

\* An initialized connector has all it needs.  Something is made twice, or
\* outlives the variable that named it, only after an initialization that
\* failed, or (the pool, the error class) when HDF5 closed the connector; and
\* only such a failure leaves an identifier behind that makes every later
\* H5rest_init fail.
ResourcesAccounted ==
    /\ H5_rest_initialized_g => \A r \in Resources : var[r] = "live"
    /\ \A r \in Resources :
          \/ Surplus(r) = 0
          \/ Surplus(r) > 0 /\ "initFailed" \in hist
          \/ Surplus(r) > 0 /\ "closedByHDF5" \in hist /\ r \notin Freed
    /\ H5_rest_id_g = "stale" => "initFailed" \in hist

\* Initialization and termination as the user's guide has them, repeated and
\* in whatever order with what HDF5 does, never use freed memory or NULL.
NoCrash == up \/ hist \cap {"initFailed", "misused"} # {}

\* Once connected, requests carry the configured credentials, over any number
\* of terminations, unless a sign-on has failed (base_URL then says that
\* nothing is left to do) or an initialization has.
CredentialsFollow ==
    H5_rest_initialized_g /\ base_URL /\ NeedsCredentials
        /\ hist \cap {"initFailed", "signOnFailed"} = {} => cred

\* An entry of the table names an open view of its file; views share a
\* dataspace only of one dataset, and it lives as long as they do: counted
\* exactly until an open fails.
ViewsSound ==
    /\ \A f \in Files : table[f] # None =>
          table[f] \in OpenViews /\ FileOf[view[table[f]].of] = f
    /\ \A v, w \in OpenViews : view[v].space = view[w].space => view[v].of = view[w].of
    /\ \A s \in Spaces :
          LET holders == Cardinality({v \in OpenViews : view[v].space = s}) IN
          refs[s] = holders \/ (refs[s] > holders /\ "openFailed" \in hist)

\* "If this is another view of an already-opened dataset, make them share the
\* same dataspace so that changes to it (e.g. resizes) are visible to both
\* views."
ViewsShare ==
    \A v, w \in OpenViews : view[v].of = view[w].of => view[v].space = view[w].space

=============================================================================
