----------------------------- MODULE PluginHost -----------------------------
(***************************************************************************)
(* The life of one sandboxed plugin: what the operator asks for (enable,   *)
(* disable, update in place, uninstall, install), the worker thread that   *)
(* runs it, what the worker registers at the host, the calls that wait for *)
(* it, the capability calls it makes, its package directory, and restarts  *)
(* of the process.                                                         *)
(*                                                                         *)
(* Operations on a plugin id are chained (PluginsService.serialize), so    *)
(* one is under way at a time; it waits for a reply of the worker, for a   *)
(* time limit or for the end of the thread.  What it does between two      *)
(* awaits is a sequence of steps nothing interleaves with, except the end  *)
(* of the process: op.at is then one of the points in Sync.                *)
(*                                                                         *)
(* Every start of a worker has a host object and a number of its own; the  *)
(* number is used again once nobody refers to it.                          *)
(***************************************************************************)
EXTENDS Integers, FiniteSets

CONSTANTS
  Versions,      (* packages of the plugin *)
  Broken,        (* those loadPlugin rejects *)
  HookCalls,     (* calls of the host into the worker: hooks ... *)
  PlainCalls,    (* ... and webhooks, searches, health checks *)
  Caps,          (* capability calls the worker makes *)
  MaxCaps,       (* maxInFlightCaps *)
  MaxTraffic     (* bound: calls at the same time, either way, and losses *)

ASSUME PluginAssumption ==
  /\ Versions \subseteq Nat \ {0} /\ Broken \subseteq Versions
  /\ HookCalls \cap PlainCalls = {}
  /\ IsFiniteSet(HookCalls) /\ IsFiniteSet(PlainCalls) /\ IsFiniteSet(Caps)
  /\ MaxCaps \in Nat \ {0} /\ MaxTraffic \in Nat

Calls == HookCalls \cup PlainCalls
Gens  == 1..Cardinality(Calls) + Cardinality(Caps) + 2

VARIABLES
  plugin,      (* the loader's entry: loaded, status, version *)
  noted,       (* the registry's entry in memory, and enabledByOperator in it *)
  stored,      (* the same in the registry file *)
  disk,        (* the package directory, its .bak and its .new *)
  sandboxHost, (* sandboxHosts: the generation of the live host, or 0 *)
  worker,      (* the threads *)
  killed,      (* threads that were told to end (terminate) *)
  subscribed,  (* live hosts whose worker has subscribed its hook *)
  shims,       (* HookManager: the generations with a registered shim *)
  search,      (* the search provider's transport, or 0 *)
  op,          (* the operation under way *)
  call,        (* calls into the worker *)
  inFlight,    (* inFlightHookEvents of each host *)
  cap,         (* capability calls at the host *)
  slots,       (* inFlightCaps of each host *)
  decision,    (* history: what the operator was last told about enabling *)
  forfeit      (* history: what a restart or a refused file operation has lost *)

files    == <<noted, stored, disk>>
registry == <<subscribed, shims, search>>
threads  == <<worker, killed>>
traffic  == <<call, inFlight, cap, slots>>
history  == <<decision, forfeit>>
vars     == <<plugin, files, sandboxHost, threads, registry, op, traffic, history>>

-----------------------------------------------------------------------------
Status  == {"installed", "enabled", "disabled", "error"}
Kinds   == {"none", "enable", "restore", "revert", "disable", "uninstall", "update", "rollback", "shutdown"}
Raising == {"load", "onLoad", "onEnable", "failing"}
Ending  == {"onDisable", "onUnload", "stopping"}
Sync    == {"up", "broke", "down", "delete", "swap", "swapped", "moved", "back", "gone", "reload", "exit"}

\* A directory is missing, or half there, or a package.
Missing == 0
Half    == -1
Loadable == Versions \ Broken

\* Bound on the calls under way and on what refused file operations have lost.
Room == Cardinality({c \in Calls : call[c].at # "idle"}) + Cardinality({k \in Caps : cap[k].at # "idle"})
          + Cardinality(forfeit) + Cardinality({noted, stored}) - 1 < MaxTraffic

\* "backup": a restart has dropped the backup while the package in its place
\*           does not load, or a removal that was refused has torn it;
\* "left":   an operation has ended on a refused file operation with the plugin
\*           out of the loader, or a backup has stayed behind: until a restart;
\* "registry": a restart has read a registry file whose last write had failed.
Losses == {"backup", "left", "registry"}

Unloaded == [loaded |-> FALSE, status |-> "installed", version |-> Missing]
NoOp     == [kind |-> "none", at |-> "rest", gen |-> 0, was |-> FALSE]
IdleCall == [at |-> "idle", gen |-> 0]

Loaded(v) == [loaded |-> TRUE, status |-> "installed", version |-> v]
Enabled   == plugin.loaded /\ plugin.status = "enabled"
Up(g)     == worker[g] = "up"

\* The event loop is free: no operation is between two awaits.
Free == op.at \notin Sync

\* A number for the next worker: nobody refers to it any more.
Fresh == CHOOSE g \in Gens :
           /\ ~Up(g) /\ g # sandboxHost
           /\ \A c \in Calls : call[c].gen # g
           /\ \A k \in Caps : cap[k].gen # g

TypeOK ==
  /\ plugin \in [loaded : BOOLEAN, status : Status, version : Versions \cup {Missing}]
  /\ {noted, stored} \subseteq [entry : BOOLEAN, enabledByOperator : BOOLEAN]
  /\ disk \in [live : Versions \cup {Missing, Half}, bak : Versions \cup {Missing, Half},
               new : Versions \cup {Missing}]
  /\ sandboxHost \in Gens \cup {0}
  /\ worker \in [Gens -> {"up", "ended"}]
  /\ killed \subseteq Gens /\ subscribed \subseteq Gens /\ shims \subseteq Gens
  /\ search \in Gens \cup {0}
  /\ op \in [kind : Kinds, at : {"rest"} \cup Raising \cup Ending \cup Sync,
             gen : Gens \cup {0}, was : BOOLEAN]
  /\ call \in [Calls -> [at : {"idle", "held", "pending"}, gen : Gens \cup {0}]]
  /\ inFlight \in [Gens -> 0..Cardinality(HookCalls)]
  /\ cap \in [Caps -> [at : {"idle", "running"}, gen : Gens \cup {0}]]
  /\ slots \in [Gens -> 0..MaxCaps]
  /\ decision \in BOOLEAN /\ forfeit \subseteq Losses

Init ==
  /\ plugin = Unloaded
  /\ noted = [entry |-> FALSE, enabledByOperator |-> FALSE] /\ stored = noted
  /\ disk = [live |-> Missing, bak |-> Missing, new |-> Missing]
  /\ sandboxHost = 0
  /\ worker = [g \in Gens |-> "ended"]
  /\ killed = {} /\ subscribed = {} /\ shims = {} /\ search = 0
  /\ op = NoOp
  /\ call = [c \in Calls |-> IdleCall]
  /\ inFlight = [g \in Gens |-> 0]
  /\ cap = [k \in Caps |-> IdleCall]
  /\ slots = [g \in Gens |-> 0]
  /\ decision = FALSE /\ forfeit = {}

-----------------------------------------------------------------------------
(* The registry (PluginStorageService) and the file system. *)

\* saveRegistry: the entry in memory is changed; a write that fails is logged.
Save(e)      == noted' = e /\ stored' \in {e} \cup (IF Room THEN {stored} ELSE {})
\* Two saves in one turn, of the status and of the decision.
SaveTwice(e) == noted' = e /\ stored' \in {e} \cup (IF Room THEN {noted, stored} ELSE {})

Decided(d) == [noted EXCEPT !.enabledByOperator = d]

\* Mutant: what is loaded is not enabled, and that is taken for the decision.
EntryForgets(e, loaded) == [entry |-> e.entry \/ loaded, enabledByOperator |-> e.enabledByOperator /\ ~loaded]

\* ensureRegistryEntry: the status starts anew, the decision stays.
Entry(e, loaded) == [e EXCEPT !.entry = @ \/ loaded]

\* recoverInterruptedUpdates: the backup takes the place of a missing live
\* directory or is dropped; what is refused stays for the next start.  (So does
\* a staging tree; nothing reads it before the next update replaces it.)
Recoveries(d) ==
  IF d.live = Missing THEN {[d EXCEPT !.new = Missing], [live |-> d.bak, bak |-> Missing, new |-> Missing]}
  ELSE {[d EXCEPT !.bak = b, !.new = Missing] : b \in {Missing, d.bak}}

\* The backup cannot be removed; the rollback will find it whole, or torn.
BackupStays ==
  \E b \in {Half, disk.bak} :
    /\ disk' = [disk EXCEPT !.bak = b]
    /\ forfeit' = IF b = Half THEN forfeit \cup {"backup"} ELSE forfeit

-----------------------------------------------------------------------------
(* PluginLoaderService.enablePlugin and PluginSandboxBridge.enableSandboxed. *)

\* A new host takes the plugin's place in sandboxHosts and load() is posted.
Raise(kind) ==
  LET g == Fresh
  IN  /\ worker' = [worker EXCEPT ![g] = "up"]
      /\ inFlight' = [inFlight EXCEPT ![g] = 0] /\ slots' = [slots EXCEPT ![g] = 0]
      /\ sandboxHost' = g
      /\ op' = [kind |-> kind, at |-> "load", gen |-> g, was |-> op.was]

\* load(), onLoad and onEnable are answered one after the other.
Raised ==
  /\ op.at \in {"load", "onLoad", "onEnable"} /\ Up(op.gen)
  /\ op' = [op EXCEPT !.at = CASE op.at = "load" -> "onLoad"
                               [] op.at = "onLoad" -> "onEnable"
                               [] op.at = "onEnable" -> "up"]
  /\ UNCHANGED <<plugin, files, sandboxHost, threads, registry, traffic, history>>

\* Mutant: load() is given no time limit.
RefusedUntimed ==
  /\ op.at \in {"onLoad", "onEnable"}
  /\ op' = [op EXCEPT !.at = "failing"]
  /\ sandboxHost' = 0 /\ search' = 0 /\ killed' = killed \cup {op.gen}
  /\ UNCHANGED <<plugin, files, worker, subscribed, shims, traffic, history>>

\* One of them is answered with an error, or not in time: the host is dropped,
\* and the end of its thread is waited for.
Refused ==
  /\ op.at \in {"load", "onLoad", "onEnable"}
  /\ op' = [op EXCEPT !.at = "failing"]
  /\ sandboxHost' = 0 /\ search' = 0 /\ killed' = killed \cup {op.gen}
  /\ UNCHANGED <<plugin, files, worker, subscribed, shims, traffic, history>>

\* The worker is up; who asked goes on in the same turn.
EnableDone ==
  /\ op.at = "up"
  /\ plugin' = [plugin EXCEPT !.status = "enabled"]
  /\ IF op.kind = "enable"
     THEN SaveTwice(Decided(TRUE)) /\ decision' = TRUE
     ELSE Save(noted) /\ UNCHANGED decision
  /\ disk' = IF op.kind = "update" THEN [disk EXCEPT !.bak = Missing] ELSE disk
  /\ op' = NoOp
  /\ UNCHANGED <<sandboxHost, threads, registry, traffic, forfeit>>

\* An update that cannot remove the backup takes the new version down again.
EnableUndone ==
  /\ op.at = "up" /\ op.kind = "update"
  /\ plugin' = [plugin EXCEPT !.status = "enabled"]
  /\ Save(noted) /\ BackupStays
  /\ op' = [op EXCEPT !.kind = "rollback", !.at = "onDisable"]
  /\ UNCHANGED <<sandboxHost, threads, registry, traffic, decision>>

\* Mutant: a failed enable leaves its hooks.
EnableFailedKeepsHooks ==
  /\ op.at = "broke"
  /\ plugin' = [plugin EXCEPT !.status = "error"] /\ Save(noted)
  /\ op' = IF op.kind = "update" THEN [op EXCEPT !.at = "back"] ELSE NoOp
  /\ UNCHANGED <<disk, sandboxHost, threads, registry, traffic, history>>

\* The catch of enablePlugin; an update goes back to the version before.
EnableFailed ==
  /\ op.at = "broke"
  /\ plugin' = [plugin EXCEPT !.status = "error"] /\ Save(noted)
  /\ shims' = {}
  /\ op' = IF op.kind = "update" THEN [op EXCEPT !.at = "back"] ELSE NoOp
  /\ UNCHANGED <<disk, sandboxHost, threads, subscribed, search, traffic, history>>

-----------------------------------------------------------------------------
(* PluginLoaderService.disablePlugin and PluginSandboxBridge.teardownSandboxed. *)

\* Its first part: onDisable is posted to the live host.
Lower(kind) == op' = [kind |-> kind, at |-> "onDisable", gen |-> sandboxHost, was |-> TRUE]

\* onDisable, then onUnload if the plugin goes away, then terminate(): answered,
\* refused or given up after its time, the teardown goes on.
Lowered ==
  /\ op.at \in {"onDisable", "onUnload"}
  /\ IF op.at = "onDisable" /\ op.kind \in {"update", "rollback", "uninstall"}
     THEN op' = [op EXCEPT !.at = "onUnload"] /\ UNCHANGED killed
     ELSE op' = [op EXCEPT !.at = "stopping"] /\ killed' = killed \cup {op.gen}
  /\ UNCHANGED <<plugin, files, sandboxHost, worker, registry, traffic, history>>

\* The tail of disablePlugin, and in the same turn what follows for the caller.
DisableDone ==
  /\ op.at = "down"
  /\ shims' = {} /\ search' = 0
  /\ plugin' = IF op.kind \in {"update", "rollback", "uninstall"} THEN Unloaded
               ELSE [plugin EXCEPT !.status = "disabled"]
  /\ IF op.kind = "disable"
     THEN SaveTwice(Decided(FALSE)) /\ decision' = FALSE
     ELSE Save(noted) /\ UNCHANGED decision
  /\ op' = CASE op.kind = "disable"   -> NoOp
             [] op.kind = "shutdown"  -> [op EXCEPT !.at = "exit"]
             [] op.kind = "uninstall" -> [op EXCEPT !.at = "delete"]
             [] op.kind = "update"    -> [op EXCEPT !.at = "swap"]
             [] op.kind = "rollback"  -> [op EXCEPT !.kind = "update", !.at = "back"]
  /\ UNCHANGED <<disk, sandboxHost, threads, subscribed, traffic, forfeit>>

-----------------------------------------------------------------------------
(* What the operator asks for (PluginsService), one operation at a time. *)

Resting == op.kind = "none"

Enable ==
  /\ Resting /\ plugin.loaded
  /\ IF Enabled
     THEN /\ Save(Decided(TRUE)) /\ decision' = TRUE
          /\ UNCHANGED <<sandboxHost, worker, op, inFlight, slots>>
     ELSE Raise("enable") /\ UNCHANGED <<noted, stored, decision>>
  /\ UNCHANGED <<plugin, disk, killed, registry, call, cap, forfeit>>

\* Without a running plugin only the decision is withdrawn.
Disable ==
  /\ Resting /\ (plugin.loaded \/ noted.entry)
  /\ IF Enabled
     THEN Lower("disable") /\ UNCHANGED <<noted, stored, decision>>
     ELSE /\ Save(Decided(FALSE)) /\ decision' = FALSE
          /\ UNCHANGED op
  /\ UNCHANGED <<plugin, disk, sandboxHost, threads, registry, traffic, forfeit>>

Install(v) ==
  /\ Resting /\ ~plugin.loaded /\ disk.live = Missing /\ v \in Loadable
  /\ disk' = [disk EXCEPT !.live = v]
  /\ plugin' = Loaded(v)
  /\ Save(Entry(noted, TRUE))
  /\ UNCHANGED <<sandboxHost, threads, registry, op, traffic, history>>

Uninstall ==
  /\ Resting /\ plugin.loaded
  /\ IF Enabled
     THEN Lower("uninstall") /\ UNCHANGED plugin
     ELSE op' = [NoOp EXCEPT !.kind = "uninstall", !.at = "delete"] /\ plugin' = Unloaded
  /\ UNCHANGED <<files, sandboxHost, threads, registry, traffic, history>>

\* The registry's entry, then the directory, which may stay behind in part.
Erase ==
  /\ op.at = "delete"
  /\ \/ /\ noted.entry
        /\ Save([entry |-> FALSE, enabledByOperator |-> FALSE]) /\ decision' = FALSE
        /\ UNCHANGED <<disk, op>>
     \/ /\ ~noted.entry /\ disk.live # Half
        /\ disk' = [disk EXCEPT !.live = Half] /\ UNCHANGED <<noted, stored, decision, op>>
     \/ /\ ~noted.entry /\ disk.live = Half
        /\ disk' = [disk EXCEPT !.live = Missing] /\ op' = NoOp /\ UNCHANGED <<noted, stored, decision>>
  /\ UNCHANGED <<plugin, sandboxHost, threads, registry, traffic, forfeit>>

\* The directory cannot be removed: what is left of it stays.
EraseRefused ==
  /\ op.at = "delete" /\ ~noted.entry
  /\ op' = NoOp
  /\ UNCHANGED <<plugin, files, sandboxHost, threads, registry, traffic, history>>

\* PluginsService.updatePackageInner: the new tree is staged before the running
\* plugin is stopped.
Update(v) ==
  /\ Resting /\ plugin.loaded
  /\ disk' = [disk EXCEPT !.new = v]
  /\ IF Enabled
     THEN Lower("update") /\ UNCHANGED plugin
     ELSE op' = [kind |-> "update", at |-> "swap", gen |-> 0, was |-> FALSE] /\ plugin' = Unloaded
  /\ UNCHANGED <<noted, stored, sandboxHost, threads, registry, traffic, history>>

\* A backup of before is removed, live becomes the backup, staging live.
Swap ==
  /\ \/ /\ op.at = "swap"
        /\ disk' = [disk EXCEPT !.bak = disk.live, !.live = Missing]
        /\ op' = [op EXCEPT !.at = "moved"]
     \/ /\ op.at = "moved"
        /\ disk' = [live |-> disk.new, bak |-> disk.bak, new |-> Missing]
        /\ op' = [op EXCEPT !.at = "swapped"]
  /\ UNCHANGED <<plugin, noted, stored, sandboxHost, threads, registry, traffic, history>>

\* One of these is refused: live is as it was, the staging tree is dropped.
SwapRefused ==
  /\ op.at \in {"swap", "moved"} /\ disk' \in {d \in Recoveries(disk) : d.live # Missing}
  /\ op' = [op EXCEPT !.at = "reload"]
  /\ UNCHANGED <<plugin, noted, stored, sandboxHost, threads, registry, traffic, history>>

\* The catch is refused as well, at the rename that would restore the live
\* directory or at the removal of the staging tree: the plugin stays unloaded.
SwapStuck ==
  /\ op.at \in {"swap", "moved"} /\ disk' \in Recoveries(disk)
  /\ op' = NoOp /\ forfeit' = forfeit \cup {"left"}
  /\ UNCHANGED <<plugin, noted, stored, sandboxHost, threads, registry, traffic, decision>>

\* The new version is loaded, and started if the old one was running; if not,
\* the update is done.
SwapLoads ==
  /\ op.at = "swapped" /\ disk.live \in Loadable
  /\ plugin' = Loaded(disk.live) /\ Save(Entry(noted, TRUE))
  /\ IF op.was THEN Raise("update") /\ UNCHANGED disk
     ELSE /\ disk' = [disk EXCEPT !.bak = Missing] /\ op' = NoOp
          /\ UNCHANGED <<sandboxHost, worker, inFlight, slots>>
  /\ UNCHANGED <<killed, registry, call, cap, history>>

\* The package does not load or the plugin's state is not copied into it; or it
\* is loaded, not to be started, and the backup cannot be removed.
SwapFails ==
  /\ op.at = "swapped"
  /\ op' = [op EXCEPT !.at = "back"]
  /\ \/ UNCHANGED <<plugin, files, forfeit>>
     \/ /\ disk.live \in Loadable /\ ~op.was
        /\ plugin' = Loaded(disk.live) /\ Save(Entry(noted, TRUE)) /\ BackupStays
  /\ UNCHANGED <<sandboxHost, threads, registry, traffic, decision>>

\* Mutant: the failed version stays in the loader.
RollBackKeeps ==
  /\ op.at = "back"
  /\ disk' = [disk EXCEPT !.live = Half]
  /\ op' = [op EXCEPT !.at = "gone"]
  /\ UNCHANGED <<plugin, noted, stored, sandboxHost, threads, registry, traffic, history>>

\* The rollback: out of the loader, the directory away file by file ...
RollBack ==
  /\ op.at = "back"
  /\ plugin' = Unloaded
  /\ disk' = [disk EXCEPT !.live = Half]
  /\ op' = [op EXCEPT !.at = "gone"]
  /\ UNCHANGED <<noted, stored, sandboxHost, threads, registry, traffic, history>>

\* ... and the backup in its place.
PutBack ==
  /\ op.at = "gone"
  /\ IF disk.live = Half
     THEN disk' = [disk EXCEPT !.live = Missing] /\ UNCHANGED op
     ELSE disk' = [disk EXCEPT !.live = disk.bak, !.bak = Missing] /\ op' = [op EXCEPT !.at = "reload"]
  /\ UNCHANGED <<plugin, noted, stored, sandboxHost, threads, registry, traffic, history>>

\* Removal or rename is refused, or what is back cannot be read: the plugin
\* stays unloaded.
RollBackRefused ==
  /\ op.at \in {"back", "gone", "reload"}
  /\ plugin' = Unloaded
  /\ op' = NoOp /\ forfeit' = forfeit \cup {"left"}
  /\ UNCHANGED <<files, sandboxHost, threads, registry, traffic, decision>>

\* loadPlugin refuses a torn package and a plugin that is loaded; the error is
\* dropped.
Reload ==
  /\ op.at = "reload"
  /\ IF plugin.loaded \/ disk.live \notin Loadable
     THEN op' = NoOp /\ UNCHANGED <<plugin, noted, stored, sandboxHost, worker, inFlight, slots>>
     ELSE /\ plugin' = Loaded(disk.live) /\ Save(Entry(noted, TRUE))
          /\ IF op.was THEN Raise("revert")
             ELSE op' = NoOp /\ UNCHANGED <<sandboxHost, worker, inFlight, slots>>
  /\ UNCHANGED <<disk, killed, registry, call, cap, history>>

\* onModuleDestroy; the process ends afterwards.
Shutdown ==
  /\ Resting /\ Enabled
  /\ Lower("shutdown")
  /\ UNCHANGED <<plugin, files, sandboxHost, threads, registry, traffic, history>>

-----------------------------------------------------------------------------
(* The worker. *)

\* Its plugin subscribes a hook: a shim, once for each host.
Subscribe(g) ==
  /\ Free /\ Up(g) /\ g \notin subscribed
  /\ subscribed' = subscribed \cup {g} /\ shims' = shims \cup {g}
  /\ UNCHANGED <<plugin, files, sandboxHost, threads, search, op, traffic, history>>

\* It declares itself a search provider: the transport is the host of now.
ProvideSearch(g) ==
  /\ Free /\ Up(g) /\ sandboxHost # 0
  /\ search' = sandboxHost
  /\ UNCHANGED <<plugin, files, sandboxHost, threads, subscribed, shims, op, traffic, history>>

PendingOn(g) == {c \in Calls : call[c].at = "pending" /\ call[c].gen = g}

\* PluginWorkerHost.handleExit: whoever waits is answered, the exit handler of
\* the bridge follows, and an operation that waits for this worker goes on.
Exit(g) ==
  /\ Free /\ Up(g)
  /\ worker' = [worker EXCEPT ![g] = "ended"]
  /\ call' = [c \in Calls |-> IF c \in PendingOn(g) THEN IdleCall ELSE call[c]]
  /\ inFlight' = [inFlight EXCEPT ![g] = @ - Cardinality(PendingOn(g) \cap HookCalls)]
  /\ search' = 0
  /\ IF g \in killed
     THEN UNCHANGED <<plugin, noted, stored, shims>>
     ELSE plugin' = [plugin EXCEPT !.status = "error"] /\ shims' = {} /\ Save(noted)
  /\ sandboxHost' = 0
  /\ op' = IF op.gen # g \/ Resting THEN op
           ELSE [op EXCEPT !.at = IF op.at \in Raising THEN "broke" ELSE "down"]
  /\ killed' = killed \ {g} /\ subscribed' = subscribed \ {g}
  /\ UNCHANGED <<disk, cap, slots, history>>

-----------------------------------------------------------------------------
(* Calls into the worker, and its calls of the host. *)

\* A caller takes the host of now and waits for something else before it
\* dispatches: the handover of the chat, the instance of a webhook.
Hold(c) ==
  /\ Free /\ call[c].at = "idle" /\ sandboxHost # 0 /\ Room
  /\ call' = [call EXCEPT ![c] = [at |-> "held", gen |-> sandboxHost]]
  /\ UNCHANGED <<plugin, files, sandboxHost, threads, registry, op, inFlight, cap, slots, history>>

\* Mutant: the host is not asked whether its worker has ended.
DispatchBlind(c) ==
  /\ Free /\ call[c].at = "held"
  /\ call' = [call EXCEPT ![c].at = "pending"]
  /\ inFlight' = IF c \in HookCalls THEN [inFlight EXCEPT ![call[c].gen] = @ + 1] ELSE inFlight
  /\ UNCHANGED <<plugin, files, sandboxHost, threads, registry, op, cap, slots, history>>

\* dispatchHook, dispatchWebhook, dispatchSearch, healthCheck: a dead worker is
\* answered for at once.
Dispatch(c) ==
  /\ Free /\ call[c].at = "held"
  /\ IF Up(call[c].gen)
     THEN /\ call' = [call EXCEPT ![c].at = "pending"]
          /\ inFlight' = IF c \in HookCalls THEN [inFlight EXCEPT ![call[c].gen] = @ + 1] ELSE inFlight
     ELSE call' = [call EXCEPT ![c] = IdleCall] /\ UNCHANGED inFlight
  /\ UNCHANGED <<plugin, files, sandboxHost, threads, registry, op, cap, slots, history>>

\* The answer, or the time limit, whichever is first; the other finds no entry.
Settle(c) ==
  /\ Free /\ call[c].at = "pending"
  /\ call' = [call EXCEPT ![c] = IdleCall]
  /\ inFlight' = IF c \in HookCalls THEN [inFlight EXCEPT ![call[c].gen] = @ - 1] ELSE inFlight
  /\ UNCHANGED <<plugin, files, sandboxHost, threads, registry, op, cap, slots, history>>

\* Mutant: one call more than the limit.
AskLoose(k, g) ==
  /\ Free /\ Up(g) /\ cap[k].at = "idle"
  /\ slots[g] <= MaxCaps /\ Room
  /\ cap' = [cap EXCEPT ![k] = [at |-> "running", gen |-> g]]
  /\ slots' = [slots EXCEPT ![g] = @ + 1]
  /\ UNCHANGED <<plugin, files, sandboxHost, threads, registry, op, call, inFlight, history>>

\* handleCapRequest; over the limit the worker is refused and nothing changes.
Ask(k, g) ==
  /\ Free /\ Up(g) /\ cap[k].at = "idle"
  /\ slots[g] < MaxCaps /\ Room
  /\ cap' = [cap EXCEPT ![k] = [at |-> "running", gen |-> g]]
  /\ slots' = [slots EXCEPT ![g] = @ + 1]
  /\ UNCHANGED <<plugin, files, sandboxHost, threads, registry, op, call, inFlight, history>>

\* The work ends, maybe after its worker; or it takes too long (withCapTimeout),
\* its slot is free, and its end will be discarded.
Done(k) ==
  /\ Free /\ cap[k].at = "running"
  /\ slots' = [slots EXCEPT ![cap[k].gen] = @ - 1]
  /\ cap' = [cap EXCEPT ![k] = IdleCall]
  /\ UNCHANGED <<plugin, files, sandboxHost, threads, registry, op, call, inFlight, history>>

-----------------------------------------------------------------------------
(* A restart: the end of the process, at any point, and the next start up to *)
(* the first await of onApplicationBootstrap.                                *)

\* What has been lost once the recovery has left d.
Lost(d, loads) ==
  {l \in Losses : \/ l # "left" /\ l \in forfeit
                  \/ l = "left" /\ d.bak # Missing
                  \/ l = "backup" /\ ~loads /\ disk.live # Missing /\ d.bak # disk.bak
                  \/ l = "registry" /\ stored # noted}

Restart ==
  \E d \in Recoveries(disk) :
    LET loads == d.live \in Loadable
        wants == loads /\ stored.enabledByOperator
    IN  /\ disk' = d
        /\ plugin' = IF loads THEN Loaded(d.live) ELSE Unloaded
        /\ noted' = Entry(stored, loads) /\ stored' \in {noted', stored}
        /\ op' = IF wants THEN [NoOp EXCEPT !.kind = "restore", !.at = "exit"] ELSE NoOp
        /\ forfeit' = Lost(d, loads)
        /\ worker' = [g \in Gens |-> "ended"]
        /\ sandboxHost' = 0 /\ killed' = {} /\ subscribed' = {} /\ shims' = {} /\ search' = 0
        /\ call' = [c \in Calls |-> IdleCall] /\ inFlight' = [g \in Gens |-> 0]
        /\ cap' = [k \in Caps |-> IdleCall] /\ slots' = [g \in Gens |-> 0]
        /\ UNCHANGED decision

\* onApplicationBootstrap, before the first request is let in.
Restore ==
  /\ op.kind = "restore" /\ op.at = "exit"
  /\ Raise("restore")
  /\ UNCHANGED <<plugin, files, killed, registry, call, cap, history>>

-----------------------------------------------------------------------------
\* What goes on by itself: time limits, threads that were told to end, and
\* everything that follows in the same turn of the event loop.
Proceed ==
  \/ Refused \/ Lowered \/ EnableDone \/ EnableFailed \/ DisableDone \/ Erase \/ Swap
  \/ SwapLoads \/ SwapFails \/ RollBack \/ PutBack \/ Reload \/ Restore
  \/ \E g \in killed : Exit(g)
  \/ op.kind = "shutdown" /\ op.at = "exit" /\ Restart

Operator == \/ Enable \/ Disable \/ Uninstall
            \/ \E v \in Versions : Install(v) \/ Update(v)
            \/ Shutdown
Worker   == \/ Raised
            \/ \E g \in Gens : Exit(g) \/ Subscribe(g) \/ ProvideSearch(g)
            \/ \E k \in Caps, g \in Gens : Ask(k, g)
Traffic  == \/ \E c \in Calls : Hold(c) \/ Dispatch(c) \/ Settle(c)
            \/ \E k \in Caps : Done(k)

\* File operations that are refused.
Refusals == Room /\ (EnableUndone \/ EraseRefused \/ SwapRefused \/ SwapStuck \/ RollBackRefused)

Next == Proceed \/ Operator \/ Worker \/ Traffic \/ Refusals \/ Restart

Spec == Init /\ [][Next]_vars

\* Timers fire, terminate() ends a thread, a turn of the event loop ends, and
\* its queue does not pass over a timer for ever (a call's steps are possible
\* only between two turns, hence SF).
\* Workers, capabilities, operators and the file system owe nothing.
Fairness == WF_vars(Proceed) /\ \A c \in Calls : SF_vars(Dispatch(c) \/ Settle(c))

FairSpec == Spec /\ Fairness

-----------------------------------------------------------------------------
\* Between two turns of the event loop no shim and no search provider points to
\* a worker that has ended, and at most one worker of the plugin runs.  When no
\* operation is under way an enabled plugin has a live worker behind the host
\* that calls are sent to, and one that is not enabled has left nothing behind,
\* however its last worker ended: a crash at any await of an enable or disable,
\* a time limit, a subscription that arrives after the failure
\* (enableSandboxed, teardownSandboxed, buildWorkerExitHandler).
ServedIffEnabled ==
  Free =>
    /\ shims \subseteq {g \in Gens : Up(g)} /\ (search # 0 => Up(search))
    /\ \A g, h \in Gens : Up(g) /\ Up(h) => g = h
    /\ Resting => IF Enabled THEN sandboxHost # 0 /\ Up(sandboxHost)
                             ELSE sandboxHost = 0 /\ \A g \in Gens : ~Up(g)

\* No caller is left waiting for a worker that has ended; the events the host
\* believes in flight, by which it refuses re-entrant hooks, are those of the
\* calls not settled yet; and the capability slots in use are those of the
\* calls that are running: time limits, late answers and crashes leak none.
CallsAddUp ==
  Free =>
    /\ \A c \in Calls : call[c].at = "pending" => Up(call[c].gen)
    /\ \A g \in Gens :
         /\ inFlight[g] = Cardinality(PendingOn(g) \cap HookCalls)
         /\ slots[g] = Cardinality({k \in Caps : cap[k] = [at |-> "running", gen |-> g]})

\* Between operations a plugin that is loaded is loaded from the package its
\* directory holds, and only one whose registry entry wants it runs.  An
\* installed plugin is loaded and no backup is left over, and the registry's
\* decision is the one the operator was told, whatever an update met (a package
\* that does not load, an enable that fails, a crash of the worker, a restart
\* at any point, refused file operations it recovers from), except after the
\* losses the code accepts, each in forfeit from the step it happens in:
\* - "backup": a restart while the directory holds a package that does not load
\*   drops the backup, and a refused removal may tear it;
\* - "left": the error path of an update or the recovery at the start is refused
\*   a file operation itself; the next start that is not puts it right;
\* - "registry": the process restarts after a write of the registry has failed.
InstallKept ==
  Resting =>
    /\ plugin.loaded => plugin.version = disk.live /\ disk.live \in Loadable
    /\ Enabled => noted.enabledByOperator
    /\ noted.entry /\ forfeit = {} => plugin.loaded /\ disk.bak = Missing
    /\ "registry" \notin forfeit => noted.enabledByOperator = decision

\* An operation ends, although the worker may never answer, unless the process
\* is restarted again and again; so does a call.
OperationsEnd ==
  /\ <>[][~Restart]_vars => (~Resting ~> Resting)
  /\ \A c \in Calls : call[c].at # "idle" ~> call[c].at = "idle"
=============================================================================
