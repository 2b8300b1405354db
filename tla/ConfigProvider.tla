---------------------------- MODULE ConfigProvider ----------------------------
(***************************************************************************)
(* The configuration provider (internal/config/provider.go), the file it    *)
(* watches, and the requests that read the configuration in force.          *)
(*                                                                         *)
(* Reading the file, here to hash it and there to load it, are steps of     *)
(* their own: the file may change in between.  A request reads the current  *)
(* configuration when it is classified, when its entry's lifetime is        *)
(* looked up, when it is routed, when what came back is evaluated, and when *)
(* a stale answer is considered; a reload may fall between any two.         *)
(***************************************************************************)
EXTENDS ConfigRules

CONSTANTS
  Documents,  \* what the file may be at first
  Revisions,  \* what it may be changed to
  Tenants,    \* one of them may have overrides
  MaxEdits    \* bound on the changes of the file

\* A RoutingRule as the decoder makes one: every field, with durations integers.
Decoded(rule) == rule = [f \in DOMAIN ZeroRule |-> rule[f]] /\ rule.maxStale \in Int

ASSUME ProviderAssumption ==
  /\ MaxEdits \in Nat
  /\ \A t \in DOMAIN Builtin : validateRule(Builtin[t]) /\ Decoded(Builtin[t])
  /\ \A doc \in Documents \cup Revisions : \A n \in DOMAIN doc.tenants :
       \A t \in DOMAIN doc.tenants[n].table : Decoded(doc.tenants[n].table[t])

VARIABLES
  file,      \* the document at path
  edits,     \* changes of the file still to come
  current,   \* Provider.current
  lastHash,  \* Provider.lastHash
  starter,   \* NewFileProvider: "loading", "loaded", "running" or "refused"
  watcher,   \* reloadIfChanged
  forced,    \* Reload, from an administrator or a test
  request,   \* one request: its request type, its tenant and its next read
  lost,      \* a read of a request found no rule
  unsure     \* history: lastHash is of content that is neither in force nor was refused

configVars == <<file, edits, current, lastHash, starter, watcher, forced, request, lost, unsure>>

Waiting == [pc |-> "idle"]

\* In place of a document: the file is missing for the moment, and in place of
\* a hash or of a configuration: there is none.
None == [kind |-> "none"]

\* Load: the file may be missing, or be refused.
Load == IF file = None THEN Rejected ELSE load(file)

\* hashFile: empty for a file that cannot be read.  A document that cannot be
\* parsed has a hash like any other.
hashFile == file

ConfigInit ==
  /\ file \in Documents
  /\ edits \in 0..MaxEdits
  /\ current = None /\ lastHash = None
  /\ starter = "loading"
  /\ watcher = Waiting /\ forced = Waiting
  /\ request = Waiting
  /\ lost = FALSE /\ unsure = FALSE

-----------------------------------------------------------------------------
(* NewFileProvider: load first, hash afterwards.                            *)

StartLoad ==
  /\ starter = "loading"
  /\ \E cfg \in {Load} :
       /\ current' = cfg
       /\ starter' = IF cfg = Rejected THEN "refused" ELSE "loaded"
  /\ UNCHANGED <<file, edits, lastHash, watcher, forced, request, lost, unsure>>

StartHash ==
  /\ starter = "loaded"
  /\ lastHash' = hashFile
  /\ starter' = "running"
  /\ unsure' = (current # Load)
  /\ UNCHANGED <<file, edits, current, watcher, forced, request, lost>>

-----------------------------------------------------------------------------
(* Watch and reloadIfChanged.  Nobody else reads or writes lastHash.        *)

WatchHash ==
  /\ starter = "running" /\ watcher = Waiting
  /\ hashFile \notin {None, lastHash}
  /\ watcher' = [pc |-> "changed", hash |-> hashFile]
  /\ UNCHANGED <<file, edits, current, lastHash, starter, forced, request, lost, unsure>>

\* A document that is refused is remembered, so as not to be refused again.
WatchRefused ==
  /\ watcher.pc = "changed" /\ Load = Rejected
  /\ lastHash' = watcher.hash
  /\ watcher' = Waiting
  /\ unsure' = (hashFile # watcher.hash)
  /\ UNCHANGED <<file, edits, current, starter, forced, request, lost>>

WatchLoad ==
  /\ watcher.pc = "changed"
  /\ \E cfg \in {Load} \ {Rejected} :
       watcher' = [pc |-> "loaded", hash |-> watcher.hash, cfg |-> cfg, from |-> hashFile]
  /\ UNCHANGED <<file, edits, current, lastHash, starter, forced, request, lost, unsure>>

\* Mutant: the file is hashed again when it has been loaded.
WatchSwapRehash ==
  /\ watcher.pc = "loaded"
  /\ current' = watcher.cfg
  /\ lastHash' = hashFile
  /\ watcher' = Waiting
  /\ unsure' = (watcher.from # watcher.hash)
  /\ UNCHANGED <<file, edits, starter, forced, request, lost>>

WatchSwap ==
  /\ watcher.pc = "loaded"
  /\ current' = watcher.cfg
  /\ lastHash' = watcher.hash
  /\ watcher' = Waiting
  /\ unsure' = (watcher.from # watcher.hash)
  /\ UNCHANGED <<file, edits, starter, forced, request, lost>>

Watch == WatchHash \/ WatchRefused \/ WatchLoad \/ WatchSwap

-----------------------------------------------------------------------------
(* Reload, which leaves the hash alone.  One that is refused changes nothing. *)

ReloadLoad ==
  /\ starter = "running" /\ forced = Waiting
  /\ \E cfg \in {Load} \ {Rejected} :
       forced' = [pc |-> "loaded", cfg |-> cfg, from |-> hashFile]
  /\ UNCHANGED <<file, edits, current, lastHash, starter, watcher, request, lost, unsure>>

ReloadSwap ==
  /\ forced.pc = "loaded"
  /\ current' = forced.cfg
  /\ forced' = Waiting
  /\ unsure' = (forced.from # lastHash)
  /\ UNCHANGED <<file, edits, lastHash, starter, watcher, request, lost>>

-----------------------------------------------------------------------------
(* The file and the requests.                                               *)

\* An operator, or the mount that swaps the file, changes it.
EditFile(doc) ==
  /\ edits > 0 /\ starter # "refused"
  /\ file' = doc /\ file' # file
  /\ edits' = edits - 1
  /\ UNCHANGED <<current, lastHash, starter, watcher, forced, request, lost, unsure>>

\* Classify: the route names one of the built-in request types.
ReadToClassify(tenant, type) ==
  /\ starter = "running" /\ request = Waiting
  /\ lost' = (lost \/ ~Found(current, type))
  /\ request' = [pc |-> "ttl", tenant |-> tenant, type |-> type]
  /\ UNCHANGED <<file, edits, current, lastHash, starter, watcher, forced, unsure>>

\* The later reads, in their order; a request may be done after each of them.
\* The evaluation asks for the defaults alone.
Later == [ttl |-> "route", route |-> "evaluate", evaluate |-> "stale", stale |-> "done"]

ReadAgain ==
  /\ request.pc \in DOMAIN Later
  /\ lost' = (lost \/ (request.pc # "evaluate" /\ ~Found(current, request.type)))
  /\ request' \in {Waiting} \cup {[pc |-> n, tenant |-> request.tenant, type |-> request.type] :
                               n \in {Later[request.pc]} \ {"done"}}
  /\ UNCHANGED <<file, edits, current, lastHash, starter, watcher, forced, unsure>>

ConfigNext ==
  \/ StartLoad \/ StartHash
  \/ Watch \/ ReloadLoad \/ ReloadSwap
  \/ \E doc \in Revisions \cup {None} : EditFile(doc)
  \/ \E tenant \in Tenants, type \in DOMAIN Builtin : ReadToClassify(tenant, type)
  \/ ReadAgain

\* The process starts, the ticker ticks, and who has loaded goes on to swap.
ConfigFairness == WF_configVars(StartLoad \/ StartHash) /\ WF_configVars(Watch) /\ WF_configVars(ReloadSwap)

ConfigSpec == ConfigInit /\ [][ConfigNext]_configVars /\ ConfigFairness

-----------------------------------------------------------------------------
(* Properties                                                               *)

InForce == starter \in {"loaded", "running"}

\* The ceiling that serveStale applies: none if it is not positive.
ceiling(tenant, type) ==
  LET rule == ResolveRule(current, tenant, type)
  IN  IF rule.maxStale # 0 THEN rule.maxStale ELSE ResolveDefaults(current, tenant).maxStale

\* A max_stale below zero is refused nowhere in a patch.
patchedBelowZero(tenant, type) == ResolveRule(current, tenant, type).maxStale < 0

\* Stale answers always have an age limit: whatever the file, the environment
\* and a tenant's override say, a rule that comes out of ResolveRule allowing
\* stale answers bounds them, although only its parts were validated.  The one
\* exception is a negative max_stale in the override.
StaleIsBounded ==
  InForce =>
    \A tenant \in Tenants, type \in DOMAIN Builtin :
      ResolveRule(current, tenant, type).allowStale /\ ~patchedBelowZero(tenant, type)
        => ceiling(tenant, type) > 0

\* A request that is classified under one configuration and cached, routed and
\* degraded under later ones finds its rule every time, whatever is removed
\* from the file meanwhile.
RuleNeverLost == ~lost

\* Hot reload gets there: a valid file that is left alone is in force in the
\* end, whatever was changed, refused or missing between a hash and the load
\* that belongs to it.  Not so while the remembered hash is of other content
\* than what is in force: that of NewFileProvider, taken after the load; that
\* of a load that a forced reload has undone; or that of content which came
\* back after a change between the hash and the load.  The watcher then takes
\* the file for known until its next change.
Converges ==
  <>[](starter = "running" /\ Load # Rejected => current = Load \/ unsure)

=============================================================================
