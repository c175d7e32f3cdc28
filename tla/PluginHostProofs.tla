------------------------- MODULE PluginHostProofs --------------------------
(***************************************************************************)
(* What holds of a sandboxed plugin's life for any packages, calls,        *)
(* capability calls and limits.                                            *)
(*                                                                         *)
(* Three invariants say what each point of an operation finds: Engine of   *)
(* the worker, the host and what is registered, Package of the directory   *)
(* and the decision, Counted of the calls.                                 *)
(***************************************************************************)
EXTENDS PluginHost, FiniteSetTheorems, TLAPS

PluginType == [loaded : BOOLEAN, status : Status, version : Versions \cup {Missing}]
StoredType == [entry : BOOLEAN, enabledByOperator : BOOLEAN]
DiskType   == [live : Versions \cup {Missing, Half}, bak : Versions \cup {Missing, Half}, new : Versions \cup {Missing}]
Places     == {"rest"} \cup Raising \cup Ending \cup Sync
OpType     == [kind : Kinds, at : Places, gen : Gens \cup {0}, was : BOOLEAN]
CallType   == [at : {"idle", "held", "pending"}, gen : Gens \cup {0}]
CapType    == [at : {"idle", "running"}, gen : Gens \cup {0}]

-----------------------------------------------------------------------------
(* The worker *)

\* The only worker is that of generation g, and what is registered is its own.
Only(g) == /\ g \in Gens /\ \A h \in Gens : Up(h) <=> h = g
           /\ shims \subseteq {g} /\ search \in {0, g}

Alone == sandboxHost = 0 /\ search = 0 /\ killed = {} /\ \A h \in Gens : ~Up(h)
Clean == Alone /\ shims = {}

Starting == {"load", "onLoad", "onEnable", "up"}
Lowering == {"onDisable", "onUnload"}
Starters == {"enable", "restore", "revert", "update"}
Stoppers == {"disable", "uninstall", "update", "rollback", "shutdown"}

\* What each point of an operation finds.
Engine ==
  /\ op.kind = "none" <=> op.at = "rest"
  /\ op.at = "rest" =>
       /\ op = NoOp
       /\ Enabled => Only(sandboxHost) /\ killed = {}
       /\ ~Enabled => Clean
  /\ op.at \in Starting => sandboxHost = op.gen /\ Only(op.gen) /\ killed = {}
  /\ op.at = "failing" => sandboxHost = 0 /\ search = 0 /\ Only(op.gen) /\ killed = {op.gen}
  /\ op.at \in Starting \cup {"failing", "broke"} => plugin.loaded /\ ~Enabled /\ op.kind \in Starters
  /\ op.at \in Lowering => sandboxHost = op.gen /\ Only(op.gen) /\ killed = {}
  /\ op.at = "stopping" => sandboxHost = op.gen /\ Only(op.gen) /\ killed = {op.gen}
  /\ op.at \in Lowering \cup {"stopping"} => Enabled
  /\ op.at \in Lowering \cup {"stopping", "down"} => plugin.loaded /\ op.kind \in Stoppers
  /\ op.at \in {"broke", "down"} => Alone
  /\ op.at \in {"delete", "swap", "moved", "swapped", "back", "gone", "reload", "exit"} => Clean /\ ~Enabled
  /\ op.at = "delete" => op.kind = "uninstall"
  /\ op.at \in {"swap", "moved", "swapped", "back", "gone", "reload"} => op.kind = "update"
  /\ op.at = "exit" => op.kind \in {"shutdown", "restore"}

-----------------------------------------------------------------------------
(* The package *)

\* The plugin is loaded from the package in its directory.
Settled == plugin.loaded /\ plugin.version = disk.live /\ disk.live \in Loadable /\ noted.entry

\* Unless it has been lost, the backup of an update is there while it is needed,
\* and at no other time; and an installed plugin has a package that loads.
Backed == forfeit \subseteq {"left"} => disk.bak \in Loadable
Tidy   == forfeit = {} => disk.bak = Missing
Kept   == forfeit \subseteq {"left"} /\ noted.entry => disk.live \in Loadable \/ disk.bak \in Loadable

Package ==
  /\ Kept
  /\ op.at = "rest" =>
       /\ plugin.loaded => Settled
       /\ forfeit = {} /\ noted.entry => plugin.loaded
       /\ Tidy
  /\ op.at \in Starting \cup {"failing", "broke"} =>
       /\ Settled
       /\ IF op.kind = "update" THEN Backed ELSE Tidy
  /\ op.at \in Ending \cup {"down", "exit"} =>
       /\ Settled
       /\ IF op.kind = "rollback" THEN Backed ELSE Tidy
       /\ op.kind = "update" => disk.new \in Versions
  /\ op.at = "delete" => ~plugin.loaded /\ Tidy
  /\ op.at \in {"swap", "moved", "swapped", "back", "gone", "reload"} => noted.entry
  /\ op.at \in {"swap", "moved", "swapped", "gone", "reload"} => ~plugin.loaded
  /\ op.at \in {"swap", "reload"} => Tidy
  /\ op.at \in {"moved", "swapped", "back", "gone"} => Backed
  /\ op.at \in {"swap", "moved"} => disk.new \in Versions
  /\ op.at = "swap" => disk.live \in Loadable
  /\ op.at = "moved" => disk.live = Missing

\* Only a plugin that is wanted is started again.
Wanted ==
  /\ "registry" \notin forfeit => noted.enabledByOperator = decision
  /\ Enabled => noted.enabledByOperator
  /\ op.kind \in {"update", "revert", "rollback"} /\ op.was => noted.enabledByOperator
  /\ op.kind \in {"update", "revert"} /\ op.at \in Starting \cup {"failing", "broke"} => op.was
  /\ op.kind = "rollback" => op.was
  /\ op.kind = "restore" => noted.enabledByOperator

-----------------------------------------------------------------------------
(* The calls *)

HookPending(g) == {c \in HookCalls : call[c].at = "pending" /\ call[c].gen = g}
Running(g)     == {k \in Caps : cap[k].at = "running" /\ cap[k].gen = g}

Counted ==
  /\ \A c \in Calls : call[c].at # "idle" => call[c].gen \in Gens
  /\ \A k \in Caps : cap[k].at # "idle" => cap[k].gen \in Gens
  /\ \A c \in Calls : call[c].at = "pending" => Up(call[c].gen)
  /\ \A g \in Gens : inFlight[g] = Cardinality(HookPending(g)) /\ slots[g] = Cardinality(Running(g))

-----------------------------------------------------------------------------
(* Numbers for workers *)

LEMMA Finite ==
  /\ IsFiniteSet(Calls) /\ IsFiniteSet(HookCalls) /\ IsFiniteSet(Caps) /\ HookCalls \subseteq Calls
  /\ Cardinality(Calls) \in Nat /\ Cardinality(HookCalls) \in Nat /\ Cardinality(Caps) \in Nat
  /\ 0 \notin Gens /\ MaxCaps \in Nat /\ Gens \subseteq Nat
<1>1. IsFiniteSet(Calls) /\ IsFiniteSet(HookCalls) /\ IsFiniteSet(Caps) /\ HookCalls \subseteq Calls
  BY PluginAssumption, FS_Union DEF PluginAssumption, Calls
<1>2. Cardinality(Calls) \in Nat /\ Cardinality(HookCalls) \in Nat /\ Cardinality(Caps) \in Nat
  BY <1>1, FS_CardinalityType
<1>3. MaxCaps \in Nat
  BY PluginAssumption DEF PluginAssumption
<1> QED
  BY <1>1, <1>2, <1>3 DEF Gens

(* The numbers some calls refer to are no more than the calls. *)
LEMMA Named ==
  ASSUME NEW S, IsFiniteSet(S), NEW f
  PROVE  /\ IsFiniteSet({f[c].gen : c \in S})
         /\ Cardinality({f[c].gen : c \in S}) <= Cardinality(S)
<1> DEFINE T == {f[c].gen : c \in S}
<1> DEFINE h == [c \in S |-> f[c].gen]
<1>1. h \in Surjection(S, T)
  BY DEF Surjection
<1> QED
  BY <1>1, FS_Surjection

(* There is a number left when no worker runs. *)
LEMMA FreshIs ==
  ASSUME \A h \in Gens : ~Up(h), sandboxHost = 0
  PROVE  /\ Fresh \in Gens
         /\ \A c \in Calls : call[c].gen # Fresh
         /\ \A k \in Caps : cap[k].gen # Fresh
<1> DEFINE A == {call[c].gen : c \in Calls}
<1> DEFINE B == {cap[k].gen : k \in Caps}
<1>1. /\ IsFiniteSet(A) /\ Cardinality(A) <= Cardinality(Calls)
      /\ IsFiniteSet(B) /\ Cardinality(B) <= Cardinality(Caps)
  BY Finite, Named
<1> HIDE DEF A, B
<1>2. IsFiniteSet(A \cup B) /\ Cardinality(A \cup B) <= Cardinality(Calls) + Cardinality(Caps)
  <2>1. /\ IsFiniteSet(A \cup B) /\ Cardinality(A \cup B) = Cardinality(A) + Cardinality(B) - Cardinality(A \cap B)
        /\ IsFiniteSet(A \cap B)
    BY <1>1, FS_Union, FS_Intersection
  <2>2. Cardinality(A) \in Nat /\ Cardinality(B) \in Nat /\ Cardinality(A \cap B) \in Nat
    BY <1>1, <2>1, FS_CardinalityType
  <2> QED
    BY <1>1, <2>1, <2>2, Finite
<1>3. IsFiniteSet(Gens) /\ Cardinality(Gens) = Cardinality(Calls) + Cardinality(Caps) + 2
  <2>1. PICK n \in Int : n = Cardinality(Calls) + Cardinality(Caps) + 2 /\ n >= 1
    BY Finite
  <2>2. Gens = 1..n
    BY <2>1 DEF Gens
  <2>3. IsFiniteSet(1..n) /\ Cardinality(1..n) = n
    BY <2>1, FS_Interval
  <2> QED
    BY <2>1, <2>2, <2>3
<1>4. \E g \in Gens : g \notin A \cup B
  <2> SUFFICES ASSUME Gens \subseteq A \cup B PROVE FALSE
    OBVIOUS
  <2>1. Cardinality(Gens) <= Cardinality(A \cup B)
    BY <1>2, FS_Subset
  <2>2. Cardinality(A \cup B) \in Nat
    BY <1>2, FS_CardinalityType
  <2> QED
    BY <1>2, <1>3, <2>1, <2>2, Finite
<1>5. \E g \in Gens : ~Up(g) /\ g # sandboxHost /\ (\A c \in Calls : call[c].gen # g) /\ (\A k \in Caps : cap[k].gen # g)
  <2>1. PICK g \in Gens : g \notin A \cup B
    BY <1>4
  <2>2. g # 0 /\ ~Up(g) /\ (\A c \in Calls : call[c].gen # g) /\ (\A k \in Caps : cap[k].gen # g)
    BY <2>1, Finite DEF A, B
  <2> QED
    BY <2>2
<1> QED
  BY <1>5 DEF Fresh

(* A new worker: the only one, and no call refers to it. *)
LEMMA NewWorkerAlone ==
  ASSUME TypeOK, Clean, NEW kind \in Kinds, Raise(kind), UNCHANGED <<killed, shims, search>>
  PROVE  /\ op' = [kind |-> kind, at |-> "load", gen |-> sandboxHost', was |-> op.was]
         /\ sandboxHost' \in Gens /\ Only(sandboxHost)' /\ killed' = {}
         /\ worker' \in [Gens -> {"up", "ended"}]
         /\ \A c \in Calls : call[c].gen # sandboxHost'
         /\ \A k \in Caps : cap[k].gen # sandboxHost'
         /\ inFlight' = [inFlight EXCEPT ![sandboxHost'] = 0] /\ slots' = [slots EXCEPT ![sandboxHost'] = 0]
<1>1. PICK g \in Gens : /\ g = Fresh
                        /\ \A c \in Calls : call[c].gen # g
                        /\ \A k \in Caps : cap[k].gen # g
  BY FreshIs DEF Clean, Alone
<1>2. /\ worker' = [worker EXCEPT ![g] = "up"] /\ sandboxHost' = g
      /\ inFlight' = [inFlight EXCEPT ![g] = 0] /\ slots' = [slots EXCEPT ![g] = 0]
      /\ op' = [kind |-> kind, at |-> "load", gen |-> g, was |-> op.was]
  BY <1>1 DEF Raise
<1>3. worker \in [Gens -> {"up", "ended"}] /\ \A h \in Gens : worker[h] # "up"
  BY DEF TypeOK, Clean, Alone, Up
<1>4. worker' \in [Gens -> {"up", "ended"}] /\ \A h \in Gens : worker'[h] = "up" <=> h = g
  BY <1>2, <1>3
<1>5. shims' = {} /\ search' = 0 /\ killed' = {}
  BY DEF Clean, Alone
<1>6. Only(sandboxHost)'
  BY <1>2, <1>4, <1>5 DEF Only, Up
<1> QED
  BY <1>1, <1>2, <1>4, <1>5, <1>6

-----------------------------------------------------------------------------
(* Operations *)

\* The types of what operations write, and of what calls write.
OpTyped ==
  /\ plugin \in PluginType /\ noted \in StoredType /\ stored \in StoredType /\ disk \in DiskType
  /\ sandboxHost \in Gens \cup {0} /\ worker \in [Gens -> {"up", "ended"}]
  /\ killed \subseteq Gens /\ subscribed \subseteq Gens /\ shims \subseteq Gens /\ search \in Gens \cup {0}
  /\ op \in OpType /\ decision \in BOOLEAN /\ forfeit \subseteq Losses

Sound == OpTyped /\ Engine /\ Package /\ Wanted

\* Expanded in every step of an operation.
LEMMA OpTypes ==
  ASSUME OpTyped
  PROVE  /\ op.kind \in Kinds /\ op.at \in Places /\ op.gen \in Gens \cup {0} /\ op.was \in BOOLEAN
         /\ plugin.loaded \in BOOLEAN /\ plugin.status \in Status /\ plugin.version \in Versions \cup {Missing}
         /\ noted.entry \in BOOLEAN /\ noted.enabledByOperator \in BOOLEAN
         /\ disk.live \in Versions \cup {Missing, Half} /\ disk.bak \in Versions \cup {Missing, Half}
         /\ disk.new \in Versions \cup {Missing}
BY DEF OpTyped, OpType, PluginType, StoredType, DiskType

(* A write of the registry, which may fail. *)
LEMMA Saves ==
  ASSUME OpTyped, NEW e \in StoredType, Save(e) \/ SaveTwice(e)
  PROVE  noted' = e /\ stored' \in StoredType
BY DEF OpTyped, Save, SaveTwice

LEMMA Decides ==
  ASSUME OpTyped, NEW d \in BOOLEAN
  PROVE  /\ Decided(d) \in StoredType /\ Decided(d).entry = noted.entry
         /\ Decided(d).enabledByOperator = d
BY DEF OpTyped, StoredType, Decided

LEMMA Enters ==
  ASSUME OpTyped
  PROVE  /\ Entry(noted, TRUE) \in StoredType /\ Entry(noted, TRUE).entry = TRUE
         /\ Entry(noted, TRUE).enabledByOperator = noted.enabledByOperator
         /\ noted.entry => Entry(noted, TRUE) = noted
<1>1. noted \in StoredType
  BY DEF OpTyped
<1>2. noted.entry \in BOOLEAN
  BY <1>1 DEF StoredType
<1>3. Entry(noted, TRUE) = [noted EXCEPT !.entry = TRUE]
  BY <1>1, <1>2 DEF Entry
<1>4. noted = [entry |-> noted.entry, enabledByOperator |-> noted.enabledByOperator]
  BY <1>1 DEF StoredType
<1> QED
  BY <1>1, <1>2, <1>3, <1>4 DEF StoredType

(* A step of an operation from one point to the next. *)
LEMMA Moving ==
  ASSUME OpTyped, NEW p \in Places, op' = [op EXCEPT !.at = p]
  PROVE  op' \in OpType /\ op'.at = p /\ op'.kind = op.kind /\ op'.gen = op.gen /\ op'.was = op.was
BY DEF OpTyped, OpType

LEMMA OnRaised == ASSUME Sound, Raised PROVE Sound'
<1>1. OpTyped /\ Engine /\ Package /\ Wanted
  BY DEF Sound
<1>2. PICK p \in {"onLoad", "onEnable", "up"} : op' = [op EXCEPT !.at = p]
  BY DEF Raised
<1>3. op' \in OpType /\ op'.at = p /\ op'.kind = op.kind /\ op'.gen = op.gen /\ op'.was = op.was
  BY <1>1, <1>2, Moving DEF Places, Raising, Sync
<1>4. /\ UNCHANGED <<plugin, noted, stored, disk, sandboxHost, worker, killed, subscribed, shims, search, decision, forfeit>>
      /\ op.at \in {"load", "onLoad", "onEnable"}
  BY DEF Raised, files, threads, registry, history
<1>5. OpTyped'
  BY <1>1, <1>3, <1>4 DEF OpTyped
<1>6. Engine'
  BY <1>1, <1>3, <1>4 DEF Engine, Only, Alone, Clean, Up, Enabled, Starting, Lowering
<1>7. Package'
  BY <1>1, <1>3, <1>4 DEF Package, Settled, Kept, Tidy, Backed, Starting, Ending
<1>8. Wanted'
  BY <1>1, <1>3, <1>4 DEF Wanted, Enabled, Starting
<1> QED
  BY <1>5, <1>6, <1>7, <1>8 DEF Sound

LEMMA OnRefused == ASSUME Sound, Refused PROVE Sound'
<1>1. OpTyped /\ Engine /\ Package /\ Wanted
  BY DEF Sound
<1>3. op' \in OpType /\ op'.at = "failing" /\ op'.kind = op.kind /\ op'.gen = op.gen /\ op'.was = op.was
  BY <1>1, Moving DEF Places, Raising, Refused
<1>4. /\ UNCHANGED <<plugin, noted, stored, disk, worker, subscribed, shims, decision, forfeit>>
      /\ op.at \in {"load", "onLoad", "onEnable"}
      /\ sandboxHost' = 0 /\ search' = 0 /\ killed' = killed \cup {op.gen}
  BY DEF Refused, files, history
<1>5. OpTyped'
  BY <1>1, <1>3, <1>4 DEF OpTyped, Engine, Starting, Only
<1>6. Engine'
  BY <1>1, <1>3, <1>4 DEF Engine, Only, Alone, Clean, Up, Enabled, Starting, Lowering
<1>7. Package'
  BY <1>1, <1>3, <1>4 DEF Package, Settled, Kept, Tidy, Backed, Starting, Ending
<1>8. Wanted'
  BY <1>1, <1>3, <1>4 DEF Wanted, Enabled, Starting
<1> QED
  BY <1>5, <1>6, <1>7, <1>8 DEF Sound

LEMMA NoOpIs == NoOp \in OpType /\ NoOp.at = "rest" /\ NoOp.kind = "none" /\ NoOp.gen = 0 /\ NoOp.was = FALSE
BY DEF NoOp, OpType, Kinds, Places

LEMMA OnEnableDone == ASSUME Sound, EnableDone PROVE Sound'
<1>1. OpTyped /\ Engine /\ Package /\ Wanted
  BY DEF Sound
<1>2. NoOp \in OpType /\ NoOp.at = "rest" /\ NoOp.kind = "none" /\ NoOp.gen = 0 /\ NoOp.was = FALSE
  BY NoOpIs
<1>3. /\ UNCHANGED <<sandboxHost, worker, killed, subscribed, shims, search, forfeit>>
      /\ op' = NoOp /\ op.at = "up" /\ plugin' = [plugin EXCEPT !.status = "enabled"]
  BY DEF EnableDone, threads, registry
<1>4. /\ plugin' \in PluginType /\ plugin'.status = "enabled" /\ plugin'.loaded = plugin.loaded
      /\ plugin'.version = plugin.version
  BY <1>1, <1>3 DEF OpTyped, PluginType, Status
<1>5. /\ noted' \in StoredType /\ stored' \in StoredType /\ decision' \in BOOLEAN /\ noted'.entry = noted.entry
      /\ op.kind = "enable" => noted'.enabledByOperator = TRUE /\ decision' = TRUE
      /\ op.kind # "enable" => noted' = noted /\ decision' = decision
  <2>1. CASE op.kind = "enable"
    BY <1>1, <2>1, Decides, Saves DEF EnableDone
  <2>2. CASE op.kind # "enable"
    BY <1>1, <2>2, Saves DEF EnableDone, OpTyped
  <2> QED
    BY <2>1, <2>2
<1>6. /\ disk' \in DiskType /\ disk'.live = disk.live
      /\ op.kind = "update" => disk'.bak = Missing
      /\ op.kind # "update" => disk' = disk
  BY <1>1 DEF EnableDone, OpTyped, DiskType
<1>7. OpTyped'
  BY <1>1, <1>2, <1>3, <1>4, <1>5, <1>6 DEF OpTyped
<1>8. Engine'
  BY <1>1, <1>2, <1>3, <1>4 DEF Engine, Only, Alone, Clean, Up, Enabled, Starting, Lowering
<1>9. Package'
  BY <1>1, <1>2, <1>3, <1>4, <1>5, <1>6 DEF Package, Settled, Kept, Tidy, Backed, Starting, Ending
<1>10. Wanted'
  BY <1>1, <1>2, <1>3, <1>4, <1>5 DEF Engine, Wanted, Enabled, Starting, Starters
<1> QED
  BY <1>7, <1>8, <1>9, <1>10 DEF Sound

(* The first part of the teardown of a version whose backup cannot be removed. *)
LEMMA BackupThere ==
  ASSUME OpTyped, BackupStays
  PROVE  /\ disk' \in DiskType /\ disk'.live = disk.live /\ disk'.new = disk.new
         /\ disk'.bak = disk.bak \/ (disk'.bak = Half /\ "backup" \in forfeit')
         /\ forfeit \subseteq forfeit' /\ forfeit' \subseteq Losses
         /\ "registry" \in forfeit' <=> "registry" \in forfeit
<1>1. PICK b \in {Half, disk.bak} :
        /\ disk' = [disk EXCEPT !.bak = b]
        /\ forfeit' = IF b = Half THEN forfeit \cup {"backup"} ELSE forfeit
  BY DEF BackupStays
<1>2. disk \in DiskType /\ forfeit \subseteq Losses
  BY DEF OpTyped
<1>3. disk' \in DiskType /\ disk'.live = disk.live /\ disk'.new = disk.new /\ disk'.bak = b
  BY <1>1, <1>2 DEF DiskType
<1> QED
  BY <1>1, <1>2, <1>3 DEF Losses

LEMMA OnEnableUndone == ASSUME Sound, EnableUndone PROVE Sound'
<1>1. OpTyped /\ Engine /\ Package /\ Wanted
  BY DEF Sound
<1>2. /\ UNCHANGED <<sandboxHost, worker, killed, subscribed, shims, search, decision>>
      /\ op.at = "up" /\ op.kind = "update" /\ plugin' = [plugin EXCEPT !.status = "enabled"]
      /\ op' = [op EXCEPT !.kind = "rollback", !.at = "onDisable"]
  BY DEF EnableUndone, threads, registry
<1>3. /\ plugin' \in PluginType /\ plugin'.status = "enabled" /\ plugin'.loaded = plugin.loaded
      /\ plugin'.version = plugin.version
  BY <1>1, <1>2 DEF OpTyped, PluginType, Status
<1>4. noted' = noted /\ stored' \in StoredType
  BY <1>1, Saves DEF EnableUndone, OpTyped
<1>5. /\ disk' \in DiskType /\ disk'.live = disk.live
      /\ (disk'.bak = disk.bak \/ (disk'.bak = Half /\ "backup" \in forfeit'))
      /\ forfeit \subseteq forfeit' /\ forfeit' \subseteq Losses
      /\ "registry" \in forfeit' <=> "registry" \in forfeit
  BY <1>1, BackupThere DEF EnableUndone
<1>6. /\ op' \in OpType /\ op'.at = "onDisable" /\ op'.kind = "rollback" /\ op'.gen = op.gen /\ op'.was = op.was
  BY <1>1, <1>2 DEF OpTyped, OpType, Kinds, Places, Ending
<1>7. OpTyped'
  BY <1>1, <1>2, <1>3, <1>4, <1>5, <1>6 DEF OpTyped
<1>8. Engine'
  BY <1>1, <1>2, <1>3, <1>6 DEF Engine, Only, Alone, Clean, Up, Enabled, Starting, Lowering, Stoppers
<1>9. Package'
  BY <1>1, <1>2, <1>3, <1>4, <1>5, <1>6 DEF Package, Settled, Kept, Tidy, Backed, Starting, Ending
<1>10. Wanted'
  BY <1>1, <1>2, <1>3, <1>4, <1>5, <1>6 DEF Wanted, Enabled, Starting
<1> QED
  BY <1>7, <1>8, <1>9, <1>10 DEF Sound

LEMMA OnEnableFailed == ASSUME Sound, EnableFailed PROVE Sound'
<1>1. OpTyped /\ Engine /\ Package /\ Wanted
  BY DEF Sound
<1>2. /\ UNCHANGED <<noted, disk, sandboxHost, worker, killed, subscribed, search, decision, forfeit>>
      /\ op.at = "broke" /\ shims' = {} /\ plugin' = [plugin EXCEPT !.status = "error"]
      /\ stored' \in StoredType
  BY <1>1, Saves DEF EnableFailed, threads, history, OpTyped
<1>3. /\ plugin' \in PluginType /\ plugin'.status = "error" /\ plugin'.loaded = plugin.loaded
      /\ plugin'.version = plugin.version
  BY <1>1, <1>2 DEF OpTyped, PluginType, Status
<1>4. CASE op.kind = "update"
  <2>1. op' \in OpType /\ op'.at = "back" /\ op'.kind = op.kind /\ op'.gen = op.gen /\ op'.was = op.was
    BY <1>1, <1>4, Moving DEF EnableFailed, Places, Sync
  <2>2. OpTyped'
    BY <1>1, <1>2, <1>3, <2>1 DEF OpTyped
  <2>3. Engine'
    BY <1>1, <1>2, <1>3, <1>4, <2>1 DEF Engine, Only, Alone, Clean, Up, Enabled, Starting, Lowering
  <2>4. Package'
    BY <1>1, <1>2, <1>3, <1>4, <2>1 DEF Package, Settled, Kept, Tidy, Backed, Starting, Ending, Loadable
  <2>5. Wanted'
    BY <1>1, <1>2, <1>3, <1>4, <2>1 DEF Wanted, Enabled, Starting
  <2> QED
    BY <2>2, <2>3, <2>4, <2>5 DEF Sound
<1>5. CASE op.kind # "update"
  <2>1. op' = NoOp
    BY <1>5 DEF EnableFailed
  <2>2. OpTyped'
    BY <1>1, <1>2, <1>3, <2>1, NoOpIs DEF OpTyped
  <2>3. Engine'
    BY <1>1, <1>2, <1>3, <1>5, <2>1, NoOpIs DEF Engine, Only, Alone, Clean, Up, Enabled, Starting, Lowering
  <2>4. Package'
    BY <1>1, <1>2, <1>3, <1>5, <2>1, NoOpIs DEF Package, Settled, Kept, Tidy, Backed, Starting, Ending
  <2>5. Wanted'
    BY <1>1, <1>2, <1>3, <1>5, <2>1, NoOpIs DEF Wanted, Enabled, Starting
  <2> QED
    BY <2>2, <2>3, <2>4, <2>5 DEF Sound
<1> QED
  BY <1>4, <1>5

LEMMA OnLowered == ASSUME Sound, Lowered PROVE Sound'
<1>1. OpTyped /\ Engine /\ Package /\ Wanted
  BY DEF Sound
<1>2. /\ UNCHANGED <<plugin, noted, stored, disk, sandboxHost, worker, subscribed, shims, search, decision, forfeit>>
      /\ op.at \in {"onDisable", "onUnload"}
  BY DEF Lowered, files, registry, history
<1>3. /\ op' \in OpType /\ op'.kind = op.kind /\ op'.gen = op.gen /\ op'.was = op.was
      /\ (op'.at = "onUnload" /\ killed' = killed) \/ (op'.at = "stopping" /\ killed' = killed \cup {op.gen})
  BY <1>1, Moving DEF Lowered, Places, Ending
<1>5. OpTyped'
  BY <1>1, <1>2, <1>3 DEF OpTyped, Engine, Lowering, Only
<1>6. Engine'
  BY <1>1, <1>2, <1>3 DEF Engine, Only, Alone, Clean, Up, Enabled, Starting, Lowering
<1>7. Package'
  BY <1>1, <1>2, <1>3 DEF Package, Settled, Kept, Tidy, Backed, Starting, Ending
<1>8. Wanted'
  BY <1>1, <1>2, <1>3 DEF Wanted, Enabled, Starting
<1> QED
  BY <1>5, <1>6, <1>7, <1>8 DEF Sound

LEMMA Nothing == Unloaded \in PluginType /\ Unloaded.loaded = FALSE /\ Unloaded.status = "installed"
BY DEF Unloaded, PluginType, Status

LEMMA OnDisableDone == ASSUME Sound, DisableDone PROVE Sound'
<1>1. OpTyped /\ Engine /\ Package /\ Wanted
  BY DEF Sound
<1>2. /\ UNCHANGED <<disk, sandboxHost, worker, killed, subscribed, forfeit>>
      /\ op.at = "down" /\ shims' = {} /\ search' = 0
      /\ op.kind \in {"disable", "uninstall", "update", "rollback", "shutdown"}
  BY <1>1 DEF DisableDone, threads, Engine, Stoppers
<1>3. /\ plugin' \in PluginType
      /\ op.kind \in {"update", "rollback", "uninstall"} => plugin'.loaded = FALSE /\ plugin'.status = "installed"
      /\ op.kind \notin {"update", "rollback", "uninstall"} =>
           plugin'.loaded = plugin.loaded /\ plugin'.status = "disabled" /\ plugin'.version = plugin.version
  BY <1>1, Nothing DEF DisableDone, OpTyped, PluginType, Status
<1>4. /\ noted' \in StoredType /\ stored' \in StoredType /\ decision' \in BOOLEAN /\ noted'.entry = noted.entry
      /\ op.kind = "disable" => noted'.enabledByOperator = FALSE /\ decision' = FALSE
      /\ op.kind # "disable" => noted' = noted /\ decision' = decision
  <2>1. CASE op.kind = "disable"
    BY <1>1, <2>1, Decides, Saves DEF DisableDone
  <2>2. CASE op.kind # "disable"
    BY <1>1, <2>2, Saves DEF DisableDone, OpTyped
  <2> QED
    BY <2>1, <2>2
<1>5. CASE op.kind = "disable"
  <2>1. op' = NoOp
    BY <1>5 DEF DisableDone
  <2>2. OpTyped'
    BY <1>1, <1>2, <1>3, <1>4, <2>1, NoOpIs DEF OpTyped
  <2>3. Engine'
    BY <1>1, <1>2, <1>3, <1>5, <2>1, NoOpIs DEF Engine, Only, Alone, Clean, Up, Enabled, Starting, Lowering
  <2>4. Package'
    BY <1>1, <1>2, <1>3, <1>4, <1>5, <2>1, NoOpIs DEF Package, Settled, Kept, Tidy, Backed, Starting, Ending
  <2>5. Wanted'
    BY <1>1, <1>2, <1>3, <1>4, <1>5, <2>1, NoOpIs DEF Wanted, Enabled, Starting
  <2> QED
    BY <2>2, <2>3, <2>4, <2>5 DEF Sound
<1>6. CASE op.kind # "disable"
  <2>1. /\ op' \in OpType /\ op'.gen = op.gen /\ op'.was = op.was
        /\ op'.kind = IF op.kind = "rollback" THEN "update" ELSE op.kind
        /\ op.kind = "shutdown" => op'.at = "exit"
        /\ op.kind = "uninstall" => op'.at = "delete"
        /\ op.kind = "update" => op'.at = "swap"
        /\ op.kind = "rollback" => op'.at = "back"
    <3>1. CASE op.kind = "shutdown"
      BY <1>1, <3>1, Moving DEF DisableDone, Places, Sync
    <3>2. CASE op.kind = "uninstall"
      BY <1>1, <3>2, Moving DEF DisableDone, Places, Sync
    <3>3. CASE op.kind = "update"
      BY <1>1, <3>3, Moving DEF DisableDone, Places, Sync
    <3>4. CASE op.kind = "rollback"
      <4>1. op' = [op EXCEPT !.kind = "update", !.at = "back"]
        BY <3>4 DEF DisableDone
      <4> QED
        BY <1>1, <3>4, <4>1 DEF OpTyped, OpType, Kinds, Places, Sync
    <3> QED
      BY <1>2, <1>6, <3>1, <3>2, <3>3, <3>4
  <2>2. OpTyped'
    BY <1>1, <1>2, <1>3, <1>4, <2>1 DEF OpTyped
  <2>3. Engine'
    BY <1>1, <1>2, <1>3, <1>6, <2>1 DEF Engine, Only, Alone, Clean, Up, Enabled, Starting, Lowering
  <2>4. Package'
    BY <1>1, <1>2, <1>3, <1>4, <1>6, <2>1 DEF Package, Settled, Kept, Tidy, Backed, Starting, Ending
  <2>5. Wanted'
    BY <1>1, <1>2, <1>3, <1>4, <1>6, <2>1 DEF Wanted, Enabled, Starting
  <2> QED
    BY <2>2, <2>3, <2>4, <2>5 DEF Sound
<1> QED
  BY <1>5, <1>6

(* A worker is raised: what is left to show of the package and the decision. *)
LEMMA RaisedFor ==
  ASSUME OpTyped, TypeOK, Clean, NEW kind \in Starters, Raise(kind), UNCHANGED <<killed, shims, search, subscribed>>,
         plugin' \in PluginType, plugin'.loaded, plugin'.status # "enabled",
         UNCHANGED <<noted, disk, decision, forfeit>>, stored' \in StoredType
  PROVE  /\ OpTyped' /\ Engine'
         /\ op'.at = "load" /\ op'.kind = kind /\ op'.was = op.was
<1>1. /\ op' = [kind |-> kind, at |-> "load", gen |-> sandboxHost', was |-> op.was]
      /\ sandboxHost' \in Gens /\ Only(sandboxHost)' /\ killed' = {}
      /\ worker' \in [Gens -> {"up", "ended"}]
  BY NewWorkerAlone DEF Starters, Kinds
<1>2. /\ op' \in OpType /\ op'.at = "load" /\ op'.kind = kind /\ op'.was = op.was /\ op'.gen = sandboxHost'
  BY <1>1, OpTypes DEF OpType, Starters, Kinds, Places, Raising
<1>3. OpTyped'
  BY <1>1, <1>2 DEF OpTyped
<1>4. Only(op.gen)'
  BY <1>1, <1>2 DEF Only, Up
<1>5. Engine'
  BY <1>1, <1>2, <1>4 DEF Engine, Enabled, Starting, Lowering, Starters
<1> QED
  BY <1>2, <1>3, <1>5

LEMMA OnEnable == ASSUME Sound, TypeOK, Enable PROVE Sound'
<1>1. OpTyped /\ Engine /\ Package /\ Wanted
  BY DEF Sound
<1>2. /\ UNCHANGED <<plugin, disk, killed, shims, subscribed, search, forfeit>>
      /\ plugin.loaded /\ op.kind = "none" /\ op.at = "rest" /\ op = NoOp
  BY <1>1 DEF Enable, registry, Resting, Engine
<1>3. CASE Enabled
  <2>1. /\ noted' \in StoredType /\ noted'.entry = noted.entry /\ noted'.enabledByOperator = TRUE /\ decision' = TRUE
        /\ stored' \in StoredType
        /\ UNCHANGED <<sandboxHost, worker, op>>
    BY <1>1, <1>3, Decides, Saves DEF Enable
  <2>2. OpTyped'
    BY <1>1, <1>2, <2>1 DEF OpTyped
  <2>3. Engine'
    BY <1>1, <1>2, <2>1 DEF Engine, Only, Alone, Clean, Up, Enabled, Starting, Lowering
  <2>4. Package'
    BY <1>1, <1>2, <2>1 DEF Package, Settled, Kept, Tidy, Backed, Starting, Ending
  <2>5. Wanted'
    BY <1>1, <1>2, <2>1 DEF Wanted, Enabled, Starting
  <2> QED
    BY <2>2, <2>3, <2>4, <2>5 DEF Sound
<1>4. CASE ~Enabled
  <2>1. Raise("enable") /\ noted' = noted /\ decision' = decision /\ stored' \in StoredType
    BY <1>1, <1>4 DEF Enable, OpTyped
  <2>2. Clean /\ plugin.status # "enabled" /\ plugin' \in PluginType /\ "enable" \in Starters
    BY <1>1, <1>2, <1>4 DEF Engine, Enabled, OpTyped, Starters
  <2>3. /\ OpTyped' /\ Engine'
        /\ op'.at = "load" /\ op'.kind = "enable" /\ op'.was = op.was
    BY <1>1, <1>2, <2>1, <2>2, RaisedFor
  <2>4. Package'
    BY <1>1, <1>2, <2>1, <2>3 DEF Package, Settled, Kept, Tidy, Backed, Starting, Ending
  <2>5. Wanted'
    BY <1>1, <1>2, <1>4, <2>1, <2>3 DEF Wanted, Enabled, Starting
  <2> QED
    BY <2>3, <2>4, <2>5 DEF Sound
<1> QED
  BY <1>3, <1>4

(* The first part of a teardown. *)
LEMMA Lowers ==
  ASSUME OpTyped, Engine, op.at = "rest", Enabled, NEW kind \in Stoppers, Lower(kind),
         UNCHANGED <<plugin, sandboxHost, worker, killed, shims, subscribed, search, noted, stored, decision, forfeit>>, disk' \in DiskType
  PROVE  OpTyped' /\ Engine' /\ op'.at = "onDisable" /\ op'.kind = kind /\ op'.was
<1>1. sandboxHost \in Gens /\ Only(sandboxHost) /\ killed = {}
  BY DEF Engine, Only
<1>2. /\ op' \in OpType /\ op'.at = "onDisable" /\ op'.kind = kind /\ op'.was /\ op'.gen = sandboxHost
  BY <1>1 DEF Lower, OpType, Stoppers, Kinds, Places, Ending
<1>3. OpTyped'
  BY <1>2 DEF OpTyped
<1>4. Only(op.gen)'
  BY <1>1, <1>2 DEF Only, Up
<1>5. Engine'
  BY <1>1, <1>2, <1>4 DEF Engine, Enabled, Starting, Lowering, Stoppers
<1> QED
  BY <1>2, <1>3, <1>5

LEMMA OnDisable == ASSUME Sound, Disable PROVE Sound'
<1>1. OpTyped /\ Engine /\ Package /\ Wanted
  BY DEF Sound
<1>2. /\ UNCHANGED <<plugin, disk, sandboxHost, worker, killed, shims, subscribed, search, forfeit>>
      /\ op.kind = "none" /\ op.at = "rest" /\ op = NoOp
  BY <1>1 DEF Disable, registry, threads, Resting, Engine
<1>3. CASE ~Enabled
  <2>1. /\ noted' \in StoredType /\ noted'.entry = noted.entry /\ noted'.enabledByOperator = FALSE /\ decision' = FALSE
        /\ stored' \in StoredType /\ op' = op
    BY <1>1, <1>3, Decides, Saves DEF Disable
  <2>2. OpTyped'
    BY <1>1, <1>2, <2>1 DEF OpTyped
  <2>3. Engine'
    BY <1>1, <1>2, <2>1 DEF Engine, Only, Alone, Clean, Up, Enabled, Starting, Lowering
  <2>4. Package'
    BY <1>1, <1>2, <2>1 DEF Package, Settled, Kept, Tidy, Backed, Starting, Ending
  <2>5. Wanted'
    BY <1>1, <1>2, <1>3, <2>1 DEF Wanted, Enabled, Starting
  <2> QED
    BY <2>2, <2>3, <2>4, <2>5 DEF Sound
<1>4. CASE Enabled
  <2>1. Lower("disable") /\ noted' = noted /\ stored' = stored /\ decision' = decision
    BY <1>4 DEF Disable
  <2>2. "disable" \in Stoppers /\ disk' \in DiskType
    BY <1>1, <1>2 DEF OpTyped, Stoppers
  <2>3. OpTyped' /\ Engine' /\ op'.at = "onDisable" /\ op'.kind = "disable" /\ op'.was
    BY <1>1, <1>2, <1>4, <2>1, <2>2, Lowers
  <2>4. Package'
    BY <1>1, <1>2, <1>4, <2>1, <2>3 DEF Package, Settled, Kept, Tidy, Backed, Enabled, Starting, Ending
  <2>5. Wanted'
    BY <1>1, <1>2, <1>4, <2>1, <2>3 DEF Wanted, Enabled, Starting
  <2> QED
    BY <2>3, <2>4, <2>5 DEF Sound
<1> QED
  BY <1>3, <1>4

LEMMA OnInstall == ASSUME Sound, NEW v \in Versions, Install(v) PROVE Sound'
<1>1. OpTyped /\ Engine /\ Package /\ Wanted
  BY DEF Sound
<1>2. /\ UNCHANGED <<sandboxHost, worker, killed, shims, subscribed, search, op, decision, forfeit>>
      /\ op.kind = "none" /\ op.at = "rest" /\ op = NoOp /\ ~plugin.loaded /\ v \in Loadable
  BY <1>1 DEF Install, registry, threads, history, Resting, Engine
<1>3. /\ plugin' \in PluginType /\ plugin'.loaded /\ plugin'.status = "installed" /\ plugin'.version = v
  BY DEF Install, Loaded, PluginType, Status
<1>4. /\ disk' \in DiskType /\ disk'.live = v /\ disk'.bak = disk.bak
      /\ noted' \in StoredType /\ noted'.entry = TRUE /\ noted'.enabledByOperator = noted.enabledByOperator
      /\ stored' \in StoredType
  BY <1>1, Enters, Saves DEF Install, OpTyped, DiskType
<1>5. OpTyped'
  BY <1>1, <1>2, <1>3, <1>4 DEF OpTyped
<1>6. Engine'
  BY <1>1, <1>2, <1>3 DEF Engine, Only, Alone, Clean, Up, Enabled, Starting, Lowering
<1>7. Package'
  BY <1>1, <1>2, <1>3, <1>4 DEF Package, Settled, Kept, Tidy, Backed, Starting, Ending
<1>8. Wanted'
  BY <1>1, <1>2, <1>3, <1>4 DEF Wanted, Enabled, Starting
<1> QED
  BY <1>5, <1>6, <1>7, <1>8 DEF Sound

LEMMA OnUninstall == ASSUME Sound, Uninstall PROVE Sound'
<1>1. OpTyped /\ Engine /\ Package /\ Wanted
  BY DEF Sound
<1>2. /\ UNCHANGED <<noted, stored, disk, sandboxHost, worker, killed, shims, subscribed, search, decision, forfeit>>
      /\ op.kind = "none" /\ op.at = "rest" /\ op = NoOp /\ plugin.loaded
  BY <1>1 DEF Uninstall, files, registry, threads, history, Resting, Engine
<1>3. CASE ~Enabled
  <2>1. /\ op' = [NoOp EXCEPT !.kind = "uninstall", !.at = "delete"] /\ plugin' = Unloaded
    BY <1>3 DEF Uninstall
  <2>2. /\ op' \in OpType /\ op'.at = "delete" /\ op'.kind = "uninstall"
    BY <2>1 DEF NoOp, OpType, Kinds, Places, Sync
  <2>3. OpTyped'
    BY <1>1, <1>2, <2>1, <2>2, Nothing DEF OpTyped
  <2>4. Engine'
    BY <1>1, <1>2, <1>3, <2>1, <2>2, Nothing DEF Engine, Only, Alone, Clean, Up, Enabled, Starting, Lowering
  <2>5. Package'
    BY <1>1, <1>2, <2>1, <2>2, Nothing DEF Package, Settled, Kept, Tidy, Backed, Starting, Ending
  <2>6. Wanted'
    BY <1>1, <1>2, <2>1, <2>2, Nothing DEF Wanted, Enabled, Starting
  <2> QED
    BY <2>3, <2>4, <2>5, <2>6 DEF Sound
<1>4. CASE Enabled
  <2>1. Lower("uninstall") /\ plugin' = plugin
    BY <1>4 DEF Uninstall
  <2>2. "uninstall" \in Stoppers /\ disk' \in DiskType
    BY <1>1, <1>2 DEF OpTyped, Stoppers
  <2>3. OpTyped' /\ Engine' /\ op'.at = "onDisable" /\ op'.kind = "uninstall" /\ op'.was
    BY <1>1, <1>2, <1>4, <2>1, <2>2, Lowers
  <2>4. Package'
    BY <1>1, <1>2, <1>4, <2>1, <2>3 DEF Package, Settled, Kept, Tidy, Backed, Enabled, Starting, Ending
  <2>5. Wanted'
    BY <1>1, <1>2, <1>4, <2>1, <2>3 DEF Wanted, Enabled, Starting
  <2> QED
    BY <2>3, <2>4, <2>5 DEF Sound
<1> QED
  BY <1>3, <1>4

LEMMA OnErase == ASSUME Sound, Erase \/ EraseRefused PROVE Sound'
<1>1. OpTyped /\ Engine /\ Package /\ Wanted
  BY DEF Sound
<1>2. /\ UNCHANGED <<plugin, sandboxHost, worker, killed, shims, subscribed, search, forfeit>>
      /\ op.kind = "uninstall" /\ op.at = "delete" /\ ~plugin.loaded
  BY <1>1 DEF Erase, EraseRefused, registry, threads, history, Engine, Package
<1>3. disk' \in DiskType /\ disk'.bak = disk.bak
  BY <1>1 DEF Erase, EraseRefused, files, OpTyped, DiskType
<1>4. CASE noted.entry
  <2>1. /\ op' = op /\ disk' = disk
        /\ Save([entry |-> FALSE, enabledByOperator |-> FALSE]) /\ decision' = FALSE
    BY <1>4 DEF Erase, EraseRefused
  <2>2. /\ noted' \in StoredType /\ noted'.entry = FALSE /\ noted'.enabledByOperator = FALSE
        /\ stored' \in StoredType
    <3>1. [entry |-> FALSE, enabledByOperator |-> FALSE] \in StoredType
      BY DEF StoredType
    <3> QED
      BY <1>1, <2>1, <3>1, Saves
  <2>3. OpTyped'
    BY <1>1, <1>2, <1>3, <2>1, <2>2 DEF OpTyped
  <2>4. Engine'
    BY <1>1, <1>2, <2>1 DEF Engine, Only, Alone, Clean, Up, Enabled, Starting, Lowering
  <2>5. Package'
    BY <1>1, <1>2, <2>1, <2>2 DEF Package, Settled, Kept, Tidy, Backed, Starting, Ending
  <2>6. Wanted'
    BY <1>1, <1>2, <2>1, <2>2 DEF Wanted, Enabled, Starting
  <2> QED
    BY <2>3, <2>4, <2>5, <2>6 DEF Sound
<1>5. CASE ~noted.entry
  <2>1. (op' = op \/ op' = NoOp) /\ noted' = noted /\ stored' = stored /\ decision' = decision
    BY <1>5 DEF Erase, EraseRefused, files, history
  <2>2. OpTyped'
    BY <1>1, <1>2, <1>3, <2>1, NoOpIs DEF OpTyped
  <2>3. Engine'
    BY <1>1, <1>2, <2>1, NoOpIs DEF Engine, Only, Alone, Clean, Up, Enabled, Starting, Lowering
  <2>4. Package'
    BY <1>1, <1>2, <1>3, <1>5, <2>1, NoOpIs DEF Package, Settled, Kept, Tidy, Backed, Starting, Ending
  <2>5. Wanted'
    BY <1>1, <1>2, <2>1, NoOpIs DEF Wanted, Enabled, Starting
  <2> QED
    BY <2>2, <2>3, <2>4, <2>5 DEF Sound
<1> QED
  BY <1>4, <1>5

LEMMA OnUpdate == ASSUME Sound, NEW v \in Versions, Update(v) PROVE Sound'
<1>1. OpTyped /\ Engine /\ Package /\ Wanted
  BY DEF Sound
<1>2. /\ UNCHANGED <<noted, stored, sandboxHost, worker, killed, shims, subscribed, search, decision, forfeit>>
      /\ op.kind = "none" /\ op.at = "rest" /\ op = NoOp /\ plugin.loaded
  BY <1>1 DEF Update, registry, threads, history, Resting, Engine
<1>3. disk' \in DiskType /\ disk'.live = disk.live /\ disk'.bak = disk.bak /\ disk'.new = v
  BY <1>1 DEF Update, OpTyped, DiskType
<1>4. CASE ~Enabled
  <2>1. op' = [kind |-> "update", at |-> "swap", gen |-> 0, was |-> FALSE] /\ plugin' = Unloaded
    BY <1>4 DEF Update
  <2>2. /\ op' \in OpType /\ op'.at = "swap" /\ op'.kind = "update" /\ ~op'.was
    BY <2>1 DEF OpType, Kinds, Places, Sync
  <2>3. OpTyped'
    BY <1>1, <1>2, <1>3, <2>1, <2>2, Nothing DEF OpTyped
  <2>4. Engine'
    BY <1>1, <1>2, <1>4, <2>1, <2>2, Nothing DEF Engine, Only, Alone, Clean, Up, Enabled, Starting, Lowering
  <2>5. Package'
    BY <1>1, <1>2, <1>3, <2>1, <2>2, Nothing DEF Package, Settled, Kept, Tidy, Backed, Starting, Ending
  <2>6. Wanted'
    BY <1>1, <1>2, <2>1, <2>2, Nothing DEF Wanted, Enabled, Starting
  <2> QED
    BY <2>3, <2>4, <2>5, <2>6 DEF Sound
<1>5. CASE Enabled
  <2>1. Lower("update") /\ plugin' = plugin
    BY <1>5 DEF Update
  <2>2. "update" \in Stoppers
    BY DEF Stoppers
  <2>3. OpTyped' /\ Engine' /\ op'.at = "onDisable" /\ op'.kind = "update" /\ op'.was
    BY <1>1, <1>2, <1>3, <1>5, <2>1, <2>2, Lowers
  <2>4. Package'
    BY <1>1, <1>2, <1>3, <1>5, <2>1, <2>3 DEF Package, Settled, Kept, Tidy, Backed, Enabled, Starting, Ending
  <2>5. Wanted'
    BY <1>1, <1>2, <1>5, <2>1, <2>3 DEF Wanted, Enabled, Starting
  <2> QED
    BY <2>3, <2>4, <2>5 DEF Sound
<1> QED
  BY <1>4, <1>5

(* Steps on the directory and the loader that go to the next point. *)
LEMMA Filing ==
  ASSUME OpTyped, Engine, Wanted,
         op.at \in {"swap", "moved", "swapped", "back", "gone"},
         NEW p \in {"swap", "moved", "swapped", "back", "gone", "reload"}, op' = [op EXCEPT !.at = p],
         plugin' \in PluginType, plugin' = plugin \/ plugin'.status # "enabled",
         UNCHANGED <<noted, sandboxHost, worker, killed, shims, subscribed, search, decision>>,
         stored' \in StoredType, disk' \in DiskType,
         forfeit' \subseteq Losses, "registry" \in forfeit' <=> "registry" \in forfeit
  PROVE  OpTyped' /\ Engine' /\ Wanted' /\ op'.at = p
<1>1. op' \in OpType /\ op'.at = p /\ op'.kind = op.kind /\ op'.gen = op.gen /\ op'.was = op.was
  BY Moving DEF Places, Sync
<1>2. OpTyped'
  BY <1>1 DEF OpTyped
<1>3. plugin'.status = "enabled" /\ plugin'.loaded => plugin.status = "enabled" /\ plugin.loaded
  OBVIOUS
<1>4. Engine'
  BY <1>1, <1>3 DEF Engine, Only, Alone, Clean, Up, Enabled, Starting, Lowering
<1>5. Wanted'
  BY <1>1, <1>3 DEF Wanted, Enabled, Starting
<1> QED
  BY <1>1, <1>2, <1>4, <1>5

(* An update ends here, with the plugin out of the loader. *)
LEMMA GivesUp ==
  ASSUME OpTyped, Engine, Wanted,
         op.at \in {"swap", "moved", "back", "gone", "reload"}, op' = NoOp, plugin' \in PluginType, ~plugin'.loaded,
         UNCHANGED <<noted, stored, sandboxHost, worker, killed, shims, subscribed, search, decision>>,
         disk' \in DiskType, forfeit' = forfeit \cup {"left"}, Kept'
  PROVE  Sound'
<1>1. OpTyped'
  BY NoOpIs DEF OpTyped, Losses
<1>2. Engine'
  BY NoOpIs DEF Engine, Only, Alone, Clean, Up, Enabled, Starting, Lowering
<1>3. Package'
  BY NoOpIs DEF Package, Settled, Tidy, Backed, Starting, Ending
<1>4. Wanted'
  BY NoOpIs DEF Wanted, Enabled, Starting
<1> QED
  BY <1>1, <1>2, <1>3, <1>4 DEF Sound

LEMMA Packages == Missing \notin Loadable /\ Half \notin Loadable /\ Loadable \subseteq Versions /\ Missing # Half
BY PluginAssumption DEF PluginAssumption, Loadable, Missing, Half

(* What a recovery may leave. *)
LEMMA Recovers ==
  ASSUME OpTyped, NEW d \in Recoveries(disk)
  PROVE  /\ d \in DiskType
         /\ disk.live # Missing => d.live = disk.live /\ d.bak \in {Missing, disk.bak}
         /\ disk.live = Missing => \/ d.live = Missing /\ d.bak = disk.bak
                                   \/ d.live = disk.bak /\ d.bak = Missing
<1>1. disk \in DiskType
  BY DEF OpTyped
<1>2. CASE disk.live = Missing
  <2>1. d \in {[disk EXCEPT !.new = Missing], [live |-> disk.bak, bak |-> Missing, new |-> Missing]}
    BY <1>2 DEF Recoveries
  <2> QED
    BY <1>1, <1>2, <2>1 DEF DiskType
<1>3. CASE disk.live # Missing
  <2>1. PICK b \in {Missing, disk.bak} : d = [disk EXCEPT !.bak = b, !.new = Missing]
    BY <1>3 DEF Recoveries
  <2> QED
    BY <1>1, <1>3, <2>1 DEF DiskType
<1> QED
  BY <1>2, <1>3

LEMMA OnSwap == ASSUME Sound, Swap \/ SwapRefused PROVE Sound'
<1>1. OpTyped /\ Engine /\ Package /\ Wanted
  BY DEF Sound
<1>2. /\ UNCHANGED <<plugin, noted, stored, sandboxHost, worker, killed, shims, subscribed, search, decision, forfeit>>
      /\ op.at \in {"swap", "moved"}
  BY DEF Swap, SwapRefused, registry, threads, history
<1>3. PICK p \in {"moved", "swapped", "reload"} :
        /\ op' = [op EXCEPT !.at = p]
        /\ p = "moved" => op.at = "swap" /\ disk' = [disk EXCEPT !.bak = disk.live, !.live = Missing]
        /\ p = "swapped" => op.at = "moved" /\ disk' = [live |-> disk.new, bak |-> disk.bak, new |-> Missing]
        /\ p = "reload" => disk' \in Recoveries(disk) /\ disk'.live # Missing
  BY DEF Swap, SwapRefused
<1>5. /\ disk \in DiskType
      /\ op.at = "swap" => disk.live \in Loadable /\ Tidy
      /\ op.at = "moved" => disk.live = Missing /\ Backed
      /\ disk.new \in Versions /\ ~plugin.loaded /\ noted.entry
  BY <1>1, <1>2 DEF Package, OpTyped
<1>6. /\ disk' \in DiskType
      /\ p = "moved" => disk'.live = Missing /\ disk'.bak \in Loadable /\ disk'.new \in Versions
      /\ p = "swapped" => disk'.bak = disk.bak /\ op.at = "moved"
      /\ p = "reload" => \/ op.at = "swap" /\ disk'.live = disk.live /\ disk'.bak \in {Missing, disk.bak}
                         \/ op.at = "moved" /\ disk'.live = disk.bak /\ disk'.bak = Missing
  <2>1. CASE p = "moved"
    BY <1>3, <1>5, <2>1, Packages DEF DiskType
  <2>2. CASE p = "swapped"
    BY <1>3, <1>5, <2>2, Packages DEF DiskType
  <2>3. CASE p = "reload"
    BY <1>1, <1>2, <1>3, <1>5, <2>3, Recovers, Packages
  <2> QED
    BY <2>1, <2>2, <2>3
<1>7. OpTyped' /\ Engine' /\ Wanted' /\ op'.at = p
  BY <1>1, <1>2, <1>3, <1>6, Filing DEF OpTyped
<1>8. Package'
  BY <1>2, <1>5, <1>6, <1>7 DEF Package, Settled, Kept, Tidy, Backed, Starting, Ending
<1> QED
  BY <1>7, <1>8 DEF Sound

LEMMA OnGiveUp == ASSUME Sound, SwapStuck \/ RollBackRefused PROVE Sound'
<1>1. OpTyped /\ Engine /\ Package /\ Wanted
  BY DEF Sound
<1>2. /\ UNCHANGED <<noted, stored, sandboxHost, worker, killed, shims, subscribed, search, decision>>
      /\ op.at \in {"swap", "moved", "back", "gone", "reload"} /\ op' = NoOp
      /\ forfeit' = forfeit \cup {"left"}
  BY DEF SwapStuck, RollBackRefused, registry, threads, files
<1>3. CASE SwapStuck
  <2>1. /\ plugin' = plugin /\ disk' \in Recoveries(disk) /\ op.at \in {"swap", "moved"}
        /\ ~plugin.loaded
    BY <1>1, <1>3 DEF SwapStuck, Package
  <2>2. /\ disk' \in DiskType
        /\ disk.live # Missing => disk'.live = disk.live
        /\ disk.live = Missing => disk'.bak = disk.bak \/ disk'.live = disk.bak
    BY <1>1, <2>1, Recovers
  <2>3. Kept'
    BY <1>1, <1>2, <2>1, <2>2, Packages DEF Package, Kept, Backed
  <2> QED
    BY <1>1, <1>2, <2>1, <2>2, <2>3, GivesUp DEF OpTyped
<1>4. CASE RollBackRefused
  <2>1. plugin' = Unloaded /\ disk' = disk
    BY <1>4 DEF RollBackRefused, files
  <2>2. Kept'
    BY <1>1, <1>2, <2>1 DEF Package, Kept
  <2> QED
    BY <1>1, <1>2, <2>1, <2>2, Nothing, GivesUp DEF OpTyped
<1> QED
  BY <1>3, <1>4

LEMMA OnRollBack == ASSUME Sound, RollBack PROVE Sound'
<1>1. OpTyped /\ Engine /\ Package /\ Wanted
  BY DEF Sound
<1>2. /\ UNCHANGED <<noted, stored, sandboxHost, worker, killed, shims, subscribed, search, decision, forfeit>>
      /\ op.at = "back" /\ plugin' = Unloaded /\ op' = [op EXCEPT !.at = "gone"]
      /\ disk' = [disk EXCEPT !.live = Half]
  BY DEF RollBack, registry, threads, history
<1>3. disk' \in DiskType /\ disk'.live = Half /\ disk'.bak = disk.bak
  BY <1>1, <1>2 DEF OpTyped, DiskType
<1>4. OpTyped' /\ Engine' /\ Wanted' /\ op'.at = "gone"
  BY <1>1, <1>2, <1>3, Nothing, Filing DEF OpTyped
<1>5. Package'
  BY <1>1, <1>2, <1>3, <1>4, Nothing DEF Package, Settled, Kept, Tidy, Backed, Starting, Ending
<1> QED
  BY <1>4, <1>5 DEF Sound

LEMMA OnPutBack == ASSUME Sound, PutBack PROVE Sound'
<1>1. OpTyped /\ Engine /\ Package /\ Wanted
  BY DEF Sound
<1>2. /\ UNCHANGED <<plugin, noted, stored, sandboxHost, worker, killed, shims, subscribed, search, decision, forfeit>>
      /\ op.at = "gone"
  BY DEF PutBack, registry, threads, history
<1>3. PICK p \in {"gone", "reload"} :
        /\ op' = [op EXCEPT !.at = p]
        /\ p = "gone" => disk' = [disk EXCEPT !.live = Missing]
        /\ p = "reload" => disk' = [disk EXCEPT !.live = disk.bak, !.bak = Missing]
  <2>1. op = [op EXCEPT !.at = "gone"]
    BY <1>1, <1>2 DEF OpTyped, OpType
  <2> QED
    BY <2>1 DEF PutBack
<1>4. Backed /\ disk \in DiskType
  BY <1>1, <1>2 DEF Package, OpTyped
<1>5. /\ disk' \in DiskType
      /\ p = "gone" => disk'.live = Missing /\ disk'.bak = disk.bak
      /\ p = "reload" => disk'.live = disk.bak /\ disk'.bak = Missing
  BY <1>3, <1>4 DEF DiskType
<1>6. OpTyped' /\ Engine' /\ Wanted' /\ op'.at = p
  BY <1>1, <1>2, <1>3, <1>5, Filing DEF OpTyped
<1>7. Package'
  BY <1>1, <1>2, <1>4, <1>5, <1>6 DEF Package, Settled, Kept, Tidy, Backed, Starting, Ending
<1> QED
  BY <1>6, <1>7 DEF Sound

LEMMA OnSwapLoads == ASSUME Sound, TypeOK, SwapLoads PROVE Sound'
<1>1. OpTyped /\ Engine /\ Package /\ Wanted
  BY DEF Sound
<1>2. /\ UNCHANGED <<killed, shims, subscribed, search, decision, forfeit>>
      /\ op.at = "swapped" /\ op.kind = "update" /\ disk.live \in Loadable
      /\ plugin' = Loaded(disk.live) /\ noted.entry
  BY <1>1 DEF SwapLoads, registry, history, Engine, Package
<1>3. noted' = noted /\ stored' \in StoredType
  BY <1>1, <1>2, Enters, Saves DEF SwapLoads
<1>4. /\ plugin' \in PluginType /\ plugin'.loaded /\ plugin'.status = "installed" /\ plugin'.version = disk.live
  BY <1>2, Packages DEF Loaded, PluginType, Status
<1>5. CASE op.was
  <2>1. Raise("update") /\ disk' = disk
    BY <1>5 DEF SwapLoads
  <2>2. Clean /\ "update" \in Starters
    BY <1>1, <1>2 DEF Engine, Starters
  <2>3. /\ OpTyped' /\ Engine'
        /\ op'.at = "load" /\ op'.kind = "update" /\ op'.was = op.was
    BY <1>1, <1>2, <1>3, <1>4, <2>1, <2>2, RaisedFor
  <2>4. Package'
    BY <1>1, <1>2, <1>3, <1>4, <2>1, <2>3 DEF Package, Settled, Kept, Tidy, Backed, Starting, Ending
  <2>5. Wanted'
    BY <1>1, <1>2, <1>3, <1>4, <1>5, <2>3 DEF Wanted, Enabled, Starting
  <2> QED
    BY <2>3, <2>4, <2>5 DEF Sound
<1>6. CASE ~op.was
  <2>1. /\ disk' = [disk EXCEPT !.bak = Missing] /\ op' = NoOp
        /\ UNCHANGED <<sandboxHost, worker>>
    BY <1>6 DEF SwapLoads
  <2>2. disk' \in DiskType /\ disk'.live = disk.live /\ disk'.bak = Missing
    BY <1>1, <2>1 DEF OpTyped, DiskType
  <2>3. OpTyped'
    BY <1>1, <1>2, <1>3, <1>4, <2>1, <2>2, NoOpIs DEF OpTyped
  <2>4. Engine'
    BY <1>1, <1>2, <1>4, <2>1, NoOpIs DEF Engine, Only, Alone, Clean, Up, Enabled, Starting, Lowering
  <2>5. Package'
    BY <1>1, <1>2, <1>3, <1>4, <2>1, <2>2, NoOpIs DEF Package, Settled, Kept, Tidy, Backed, Starting, Ending
  <2>6. Wanted'
    BY <1>1, <1>2, <1>3, <1>4, <2>1, NoOpIs DEF Wanted, Enabled, Starting
  <2> QED
    BY <2>3, <2>4, <2>5, <2>6 DEF Sound
<1> QED
  BY <1>1, <1>5, <1>6, OpTypes

LEMMA OnSwapFails == ASSUME Sound, SwapFails PROVE Sound'
<1>1. OpTyped /\ Engine /\ Package /\ Wanted
  BY DEF Sound
<1>2. /\ UNCHANGED <<sandboxHost, worker, killed, shims, subscribed, search, decision>>
      /\ op.at = "swapped" /\ op' = [op EXCEPT !.at = "back"] /\ noted.entry /\ Backed
  BY <1>1 DEF SwapFails, registry, threads, Package
<1>3. /\ plugin' \in PluginType /\ (plugin' = plugin \/ plugin'.status # "enabled")
      /\ noted' = noted /\ stored' \in StoredType
      /\ disk' \in DiskType /\ disk'.live = disk.live
      /\ (disk'.bak = disk.bak \/ (disk'.bak = Half /\ "backup" \in forfeit'))
      /\ forfeit \subseteq forfeit' /\ forfeit' \subseteq Losses
      /\ ("registry" \in forfeit' <=> "registry" \in forfeit)
  <2>1. CASE UNCHANGED <<plugin, files, forfeit>>
    BY <1>1, <2>1 DEF files, OpTyped
  <2>2. CASE /\ disk.live \in Loadable /\ plugin' = Loaded(disk.live)
             /\ Save(Entry(noted, TRUE)) /\ BackupStays
    <3>1. plugin' \in PluginType /\ plugin'.status # "enabled"
      BY <2>2, Packages DEF Loaded, PluginType, Status
    <3>2. noted' = noted /\ stored' \in StoredType
      BY <1>1, <1>2, <2>2, Enters, Saves
    <3> QED
      BY <1>1, <2>2, <3>1, <3>2, BackupThere
  <2> QED
    BY <2>1, <2>2 DEF SwapFails
<1>4. OpTyped' /\ Engine' /\ Wanted' /\ op'.at = "back"
  BY <1>1, <1>2, <1>3, Filing
<1>5. Package'
  BY <1>1, <1>2, <1>3, <1>4 DEF Package, Settled, Kept, Tidy, Backed, Starting, Ending
<1> QED
  BY <1>4, <1>5 DEF Sound

LEMMA OnReload == ASSUME Sound, TypeOK, Reload PROVE Sound'
<1>1. OpTyped /\ Engine /\ Package /\ Wanted
  BY DEF Sound
<1>2. /\ UNCHANGED <<disk, killed, shims, subscribed, search, decision, forfeit>>
      /\ op.at = "reload" /\ op.kind = "update"
  BY <1>1 DEF Reload, registry, history, Engine
<1>3. ~plugin.loaded /\ noted.entry /\ Clean /\ Tidy /\ Kept
  BY <1>1, <1>2 DEF Package, Engine
<1>4. CASE disk.live \notin Loadable
  <2>1. op' = NoOp /\ UNCHANGED <<plugin, noted, stored, sandboxHost, worker>>
    BY <1>4 DEF Reload
  <2>2. OpTyped'
    BY <1>1, <1>2, <2>1, NoOpIs DEF OpTyped
  <2>3. Engine'
    BY <1>1, <1>2, <1>3, <2>1, NoOpIs DEF Engine, Only, Alone, Clean, Up, Enabled, Starting, Lowering
  <2>4. forfeit # {}
    BY <1>3, <1>4, Packages DEF Kept, Tidy
  <2>5. Package'
    BY <1>2, <1>3, <2>1, <2>4, NoOpIs DEF Package, Settled, Kept, Tidy, Backed, Starting, Ending
  <2>6. Wanted'
    BY <1>1, <1>2, <2>1, NoOpIs DEF Wanted, Enabled, Starting
  <2> QED
    BY <2>2, <2>3, <2>5, <2>6 DEF Sound
<1>5. CASE disk.live \in Loadable
  <2>1. /\ plugin' = Loaded(disk.live) /\ Save(Entry(noted, TRUE))
        /\ op.was => Raise("revert")
        /\ ~op.was => op' = NoOp /\ UNCHANGED <<sandboxHost, worker>>
    BY <1>3, <1>5 DEF Reload
  <2>2. noted' = noted /\ stored' \in StoredType
    BY <1>1, <1>3, <2>1, Enters, Saves
  <2>3. /\ plugin' \in PluginType /\ plugin'.loaded /\ plugin'.status = "installed" /\ plugin'.version = disk.live
    BY <1>5, <2>1, Packages DEF Loaded, PluginType, Status
  <2>4. CASE op.was
    <3>1. "revert" \in Starters
      BY DEF Starters
    <3>2. /\ OpTyped' /\ Engine'
          /\ op'.at = "load" /\ op'.kind = "revert" /\ op'.was = op.was
      BY <1>1, <1>2, <1>3, <2>1, <2>2, <2>3, <2>4, <3>1, RaisedFor
    <3>3. Package'
      BY <1>2, <1>3, <1>5, <2>2, <2>3, <3>2 DEF Package, Settled, Kept, Tidy, Backed, Starting, Ending
    <3>4. Wanted'
      BY <1>1, <1>2, <2>2, <2>3, <2>4, <3>2 DEF Wanted, Enabled, Starting
    <3> QED
      BY <3>2, <3>3, <3>4 DEF Sound
  <2>5. CASE ~op.was
    <3>1. op' = NoOp /\ UNCHANGED <<sandboxHost, worker>>
      BY <2>1, <2>5
    <3>2. OpTyped'
      BY <1>1, <1>2, <2>2, <2>3, <3>1, NoOpIs DEF OpTyped
    <3>3. Engine'
      BY <1>1, <1>2, <1>3, <2>3, <3>1, NoOpIs DEF Engine, Only, Alone, Clean, Up, Enabled, Starting, Lowering
    <3>4. Package'
      BY <1>2, <1>3, <1>5, <2>2, <2>3, <3>1, NoOpIs DEF Package, Settled, Kept, Tidy, Backed, Starting, Ending
    <3>5. Wanted'
      BY <1>1, <1>2, <2>2, <2>3, <3>1, NoOpIs DEF Wanted, Enabled, Starting
    <3> QED
      BY <3>2, <3>3, <3>4, <3>5 DEF Sound
  <2> QED
    BY <1>1, <2>4, <2>5, OpTypes
<1> QED
  BY <1>4, <1>5

LEMMA OnShutdown == ASSUME Sound, Shutdown PROVE Sound'
<1>1. OpTyped /\ Engine /\ Package /\ Wanted
  BY DEF Sound
<1>2. /\ UNCHANGED <<plugin, noted, stored, disk, sandboxHost, worker, killed, shims, subscribed, search, decision, forfeit>>
      /\ op.at = "rest" /\ Enabled /\ Lower("shutdown")
  BY <1>1 DEF Shutdown, files, registry, threads, history, Resting, Engine
<1>3. "shutdown" \in Stoppers /\ disk' \in DiskType
  BY <1>1, <1>2 DEF Stoppers, OpTyped
<1>4. OpTyped' /\ Engine' /\ op'.at = "onDisable" /\ op'.kind = "shutdown" /\ op'.was
  BY <1>1, <1>2, <1>3, Lowers
<1>5. Package'
  BY <1>1, <1>2, <1>4 DEF Package, Settled, Kept, Tidy, Backed, Enabled, Starting, Ending
<1>6. Wanted'
  BY <1>1, <1>2, <1>4 DEF Wanted, Enabled, Starting
<1> QED
  BY <1>4, <1>5, <1>6 DEF Sound

LEMMA OnRestore == ASSUME Sound, TypeOK, Restore PROVE Sound'
<1>1. OpTyped /\ Engine /\ Package /\ Wanted
  BY DEF Sound
<1>2. /\ UNCHANGED <<plugin, noted, stored, disk, killed, shims, subscribed, search, decision, forfeit>>
      /\ op.kind = "restore" /\ op.at = "exit" /\ Raise("restore") /\ stored' \in StoredType
  BY <1>1 DEF Restore, files, registry, history, OpTyped
<1>3. "restore" \in Starters /\ Clean /\ plugin' \in PluginType /\ plugin'.loaded /\ plugin'.status # "enabled"
  BY <1>1, <1>2 DEF Starters, Engine, Package, Settled, Ending, Enabled, OpTyped
<1>4. /\ OpTyped' /\ Engine'
      /\ op'.at = "load" /\ op'.kind = "restore" /\ op'.was = op.was
  BY <1>1, <1>2, <1>3, RaisedFor
<1>5. Package'
  BY <1>1, <1>2, <1>4 DEF Package, Settled, Kept, Tidy, Backed, Starting, Ending
<1>6. Wanted'
  BY <1>1, <1>2, <1>3, <1>4 DEF Wanted, Enabled, Starting
<1> QED
  BY <1>4, <1>5, <1>6 DEF Sound

(* A worker registers only while it is the one that runs. *)
LEMMA OnRegister == ASSUME Sound, NEW g \in Gens, Subscribe(g) \/ ProvideSearch(g) PROVE Sound'
<1>1. OpTyped /\ Engine /\ Package /\ Wanted
  BY DEF Sound
<1>2. /\ UNCHANGED <<plugin, noted, stored, disk, sandboxHost, worker, killed, op, decision, forfeit>>
      /\ Up(g) /\ op.at \notin Sync
      /\ subscribed' \subseteq subscribed \cup {g} /\ shims' \subseteq shims \cup {g}
      /\ search' = search \/ (search' = sandboxHost /\ sandboxHost # 0)
  BY DEF Subscribe, ProvideSearch, files, threads, history, Free
<1>3. OpTyped'
  BY <1>1, <1>2 DEF OpTyped
<1>4. Engine'
  BY <1>1, <1>2 DEF Engine, OpTyped, OpType, Places, Raising, Ending, Sync, Only, Alone, Clean, Up, Enabled, Starting, Lowering
<1>5. Package'
  BY <1>1, <1>2 DEF Package, Settled, Kept, Tidy, Backed, Starting, Ending
<1>6. Wanted'
  BY <1>1, <1>2 DEF Wanted, Enabled, Starting
<1> QED
  BY <1>3, <1>4, <1>5, <1>6 DEF Sound

LEMMA OnExit == ASSUME Sound, NEW g \in Gens, Exit(g) PROVE Sound'
<1>1. OpTyped /\ Engine /\ Package /\ Wanted
  BY DEF Sound
<1>2. /\ UNCHANGED <<noted, disk, decision, forfeit>> /\ stored' \in StoredType
      /\ op.at \notin Sync /\ Up(g)
      /\ worker' = [worker EXCEPT ![g] = "ended"] /\ search' = 0 /\ sandboxHost' = 0
      /\ killed' = killed \ {g} /\ subscribed' = subscribed \ {g}
      /\ g \in killed => plugin' = plugin /\ shims' = shims
      /\ g \notin killed => plugin' = [plugin EXCEPT !.status = "error"] /\ shims' = {}
  BY <1>1, Saves DEF Exit, history, Free, OpTyped
<1>3. /\ worker' \in [Gens -> {"up", "ended"}]
      /\ \A h \in Gens : worker'[h] = "up" <=> worker[h] = "up" /\ h # g
  BY <1>1, <1>2 DEF OpTyped
<1>4. /\ plugin' \in PluginType /\ plugin'.loaded = plugin.loaded /\ plugin'.version = plugin.version
      /\ g \notin killed => plugin'.status = "error"
  BY <1>1, <1>2 DEF OpTyped, PluginType, Status
<1>5. op.at \in {"rest", "load", "onLoad", "onEnable", "failing", "onDisable", "onUnload", "stopping"}
  BY <1>1, <1>2 DEF OpTyped, OpType, Places, Raising, Ending, Sync
<1>6. Only(g) /\ (op.at # "rest" => op.gen = g)
  BY <1>1, <1>2, <1>5 DEF Engine, Only, Clean, Alone, Starting, Lowering, Up
<1>7. CASE op.at = "rest"
  <2>1. op' = op /\ Enabled /\ g \notin killed
    BY <1>1, <1>2, <1>7 DEF Exit, Resting, Engine, Clean, Alone
  <2>2. OpTyped'
    BY <1>1, <1>2, <1>3, <1>4, <2>1 DEF OpTyped
  <2>3. Engine'
    BY <1>1, <1>2, <1>3, <1>4, <1>6, <1>7, <2>1 DEF Engine, Only, Alone, Clean, Up, Enabled, Starting, Lowering
  <2>4. Package'
    BY <1>1, <1>2, <1>4, <1>7, <2>1 DEF Package, Settled, Kept, Tidy, Backed, Starting, Ending
  <2>5. Wanted'
    BY <1>1, <1>2, <1>4, <1>7, <2>1 DEF Wanted, Enabled, Starting
  <2> QED
    BY <2>2, <2>3, <2>4, <2>5 DEF Sound
<1>8. CASE op.at # "rest"
  <2>1. PICK p \in {"broke", "down"} : op' = [op EXCEPT !.at = p] /\ (p = "broke" <=> op.at \in Raising)
    BY <1>1, <1>6, <1>8 DEF Exit, Resting, Engine
  <2>2. op' \in OpType /\ op'.at = p /\ op'.kind = op.kind /\ op'.gen = op.gen /\ op'.was = op.was
    BY <1>1, <2>1, Moving DEF Places, Sync
  <2>3. OpTyped'
    BY <1>1, <1>2, <1>3, <1>4, <2>2 DEF OpTyped
  <2>4. Alone'
    BY <1>1, <1>2, <1>3, <1>5, <1>6, <1>8 DEF Engine, Only, Alone, Up, Starting, Lowering
  <2>5. Engine'
    BY <1>1, <1>2, <1>4, <1>5, <1>8, <2>1, <2>2, <2>4 DEF Engine, Enabled, Starting, Lowering, Raising
  <2>6. Package'
    BY <1>1, <1>2, <1>4, <1>5, <1>8, <2>1, <2>2 DEF Package, Settled, Kept, Tidy, Backed, Starting, Ending, Raising
  <2>7. Wanted'
    BY <1>1, <1>2, <1>4, <1>5, <1>8, <2>1, <2>2 DEF Wanted, Enabled, Starting, Raising
  <2> QED
    BY <2>3, <2>5, <2>6, <2>7 DEF Sound
<1> QED
  BY <1>7, <1>8

LEMMA OnRestart == ASSUME Sound, Restart PROVE Sound'
<1>1. OpTyped /\ Engine /\ Package /\ Wanted
  BY DEF Sound
<1>2. PICK d \in Recoveries(disk) :
        LET loads == d.live \in Loadable
            wants == loads /\ stored.enabledByOperator
        IN  /\ disk' = d
            /\ plugin' = IF loads THEN Loaded(d.live) ELSE Unloaded
            /\ noted' = Entry(stored, loads) /\ stored' \in {noted', stored}
            /\ op' = IF wants THEN [NoOp EXCEPT !.kind = "restore", !.at = "exit"] ELSE NoOp
            /\ forfeit' = Lost(d, loads)
            /\ worker' = [g \in Gens |-> "ended"]
            /\ sandboxHost' = 0 /\ killed' = {} /\ subscribed' = {} /\ shims' = {} /\ search' = 0
            /\ decision' = decision
  BY DEF Restart
<1> DEFINE loads == d.live \in Loadable
<1>3. /\ d \in DiskType
      /\ disk.live # Missing => d.live = disk.live /\ d.bak \in {Missing, disk.bak}
      /\ disk.live = Missing => \/ d.live = Missing /\ d.bak = disk.bak
                                \/ d.live = disk.bak /\ d.bak = Missing
  BY <1>1, Recovers
<1>4. /\ noted' \in StoredType /\ stored' \in StoredType /\ noted'.enabledByOperator = stored.enabledByOperator
      /\ loads => noted'.entry
      /\ ~loads => noted'.entry = stored.entry
  <2>1. stored \in StoredType /\ noted' = Entry(stored, loads)
    BY <1>1, <1>2 DEF OpTyped
  <2>2. /\ Entry(stored, loads) \in StoredType
        /\ Entry(stored, loads).enabledByOperator = stored.enabledByOperator
        /\ Entry(stored, loads).entry = (stored.entry \/ loads)
    BY <2>1 DEF Entry, StoredType
  <2> QED
    BY <1>2, <2>1, <2>2 DEF StoredType
<1>5. /\ plugin' \in PluginType /\ plugin'.status = "installed"
      /\ loads => plugin'.loaded /\ plugin'.version = d.live
      /\ ~loads => ~plugin'.loaded
  <2>1. CASE loads
    <3>1. plugin' = Loaded(d.live) /\ d.live \in Versions
      BY <1>2, <2>1, Packages
    <3> QED
      BY <2>1, <3>1 DEF Loaded, PluginType, Status
  <2>2. CASE ~loads
    BY <1>2, <2>2, Nothing
  <2> QED
    BY <2>1, <2>2
<1>6. /\ op' \in OpType
      /\ loads /\ stored.enabledByOperator => op'.kind = "restore" /\ op'.at = "exit"
      /\ ~(loads /\ stored.enabledByOperator) => op' = NoOp
  <2>1. CASE loads /\ stored.enabledByOperator
    <3>1. op' = [NoOp EXCEPT !.kind = "restore", !.at = "exit"]
      BY <1>2, <2>1
    <3> QED
      BY <2>1, <3>1 DEF NoOp, OpType, Kinds, Places, Sync
  <2>2. CASE ~(loads /\ stored.enabledByOperator)
    BY <1>2, <2>2, NoOpIs
  <2> QED
    BY <2>1, <2>2
<1>7. /\ forfeit' \subseteq Losses
      /\ "left" \notin forfeit' => d.bak = Missing
      /\ "backup" \notin forfeit' => /\ "backup" \notin forfeit
                                     /\ loads \/ disk.live = Missing \/ d.bak = disk.bak
      /\ "registry" \notin forfeit' => "registry" \notin forfeit /\ stored = noted
  BY <1>1, <1>2 DEF Lost, Losses, OpTyped
<1>8. OpTyped'
  BY <1>1, <1>2, <1>3, <1>4, <1>5, <1>6, <1>7 DEF OpTyped
<1>9. Clean'
  BY <1>2 DEF Clean, Alone, Up
<1>10. Engine'
  BY <1>5, <1>6, <1>9, NoOpIs DEF Engine, Enabled, Starting, Lowering
<1>11. ASSUME forfeit' \subseteq {"left"}, noted'.entry
       PROVE  d.live \in Loadable \/ d.bak \in Loadable
  <2>1. CASE loads
    BY <2>1
  <2>2. CASE ~loads
    <3>1. forfeit \subseteq {"left"} /\ noted.entry
      BY <1>1, <1>4, <1>7, <1>11, <2>2 DEF OpTyped, Losses
    <3>2. disk.live \in Loadable \/ disk.bak \in Loadable
      BY <1>1, <3>1 DEF Package, Kept
    <3> QED
      BY <1>3, <1>7, <1>11, <2>2, <3>2, Packages
  <2> QED
    BY <2>1, <2>2
<1>12. forfeit' = {} => d.bak = Missing /\ (noted'.entry => loads)
  BY <1>7, <1>11, Packages
<1>13. Package'
  BY <1>2, <1>3, <1>4, <1>5, <1>6, <1>11, <1>12, NoOpIs
  DEF Package, Settled, Kept, Tidy, Backed, Starting, Ending
<1>14. Wanted'
  BY <1>1, <1>2, <1>4, <1>5, <1>6, <1>7, NoOpIs DEF Wanted, Enabled, Starting
<1> QED
  BY <1>8, <1>10, <1>13, <1>14 DEF Sound

Calling(c) == Hold(c) \/ Dispatch(c) \/ Settle(c)

Quiet == (\E c \in Calls : Calling(c)) \/ (\E k \in Caps, g \in Gens : Ask(k, g)) \/ (\E k \in Caps : Done(k))

LEMMA OnQuiet == ASSUME Sound, Quiet \/ UNCHANGED vars PROVE Sound'
<1>1. UNCHANGED <<plugin, noted, stored, disk, sandboxHost, worker, killed, subscribed, shims, search, op, decision, forfeit>>
  BY DEF Quiet, Calling, Hold, Dispatch, Settle, Ask, Done, vars, files, threads, registry, history
<1> QED
  BY <1>1 DEF Sound, OpTyped, Engine, Package, Wanted, Only, Alone, Clean, Up, Enabled, Settled, Kept, Tidy, Backed

LEMMA SoundInit == Init => Sound
<1> SUFFICES ASSUME Init PROVE Sound
  OBVIOUS
<1>1. op = NoOp /\ plugin = Unloaded /\ Clean
  BY DEF Init, Clean, Alone, Up
<1>2. noted \in StoredType /\ stored \in StoredType /\ ~noted.entry /\ ~noted.enabledByOperator /\ disk \in DiskType /\ disk.bak = Missing
  BY DEF Init, StoredType, DiskType
<1>3. OpTyped
  BY <1>1, <1>2, Nothing, NoOpIs DEF Init, OpTyped
<1>4. Engine
  BY <1>1, Nothing, NoOpIs DEF Engine, Enabled, Starting, Lowering
<1>5. Package
  BY <1>1, <1>2, Nothing, NoOpIs DEF Package, Settled, Kept, Tidy, Backed, Starting, Ending
<1>6. Wanted
  BY <1>1, <1>2, Nothing, NoOpIs DEF Init, Wanted, Enabled
<1> QED
  BY <1>3, <1>4, <1>5, <1>6 DEF Sound

Raises == Enable \/ SwapLoads \/ Reload \/ Restore

Walks == \/ Raised \/ Refused \/ EnableDone \/ EnableUndone \/ EnableFailed \/ Lowered \/ DisableDone
         \/ Erase \/ EraseRefused \/ Swap \/ SwapRefused \/ SwapStuck \/ SwapFails
         \/ RollBack \/ RollBackRefused \/ PutBack \/ Disable \/ Uninstall \/ Shutdown
         \/ (\E v \in Versions : Install(v) \/ Update(v))
         \/ (\E g \in Gens : Subscribe(g) \/ ProvideSearch(g))

(* The steps of the specification, sorted by what they do to the worker. *)
LEMMA Sorted ==
  ASSUME OpTyped, [Next]_vars
  PROVE  Raises \/ Walks \/ (\E g \in Gens : Exit(g)) \/ Restart \/ Quiet \/ UNCHANGED vars
<1>1. killed \subseteq Gens
  BY DEF OpTyped
<1> QED
  BY <1>1 DEF Next, Proceed, Operator, Worker, Traffic, Refusals, Raises, Walks, Quiet, Calling

LEMMA SoundStep == ASSUME TypeOK, Sound, [Next]_vars PROVE Sound'
<1>1. CASE Raises
  BY <1>1, OnEnable, OnSwapLoads, OnReload, OnRestore DEF Raises
<1>2. CASE Walks
  BY <1>2, OnRaised, OnRefused, OnEnableDone, OnEnableUndone, OnEnableFailed, OnLowered, OnDisableDone, OnErase,
     OnSwap, OnSwapFails, OnGiveUp, OnRollBack, OnPutBack,
     OnDisable, OnUninstall, OnShutdown, OnInstall, OnUpdate, OnRegister DEF Walks
<1>3. CASE \E g \in Gens : Exit(g)
  BY <1>3, OnExit
<1>4. CASE Restart \/ Quiet \/ UNCHANGED vars
  BY <1>4, OnRestart, OnQuiet
<1> QED
  BY <1>1, <1>2, <1>3, <1>4, Sorted DEF Sound

-----------------------------------------------------------------------------
(* Calls *)

CallsTyped ==
  /\ call \in [Calls -> CallType] /\ cap \in [Caps -> CapType]
  /\ inFlight \in [Gens -> Nat] /\ slots \in [Gens -> 0..MaxCaps]

Traced == CallsTyped /\ Counted

LEMMA Sets ==
  ASSUME NEW g
  PROVE  /\ IsFiniteSet(HookPending(g)) /\ Cardinality(HookPending(g)) \in Nat
         /\ Cardinality(HookPending(g)) <= Cardinality(HookCalls)
         /\ IsFiniteSet(Running(g)) /\ Cardinality(Running(g)) \in Nat
<1>1. HookPending(g) \in SUBSET HookCalls /\ Running(g) \in SUBSET Caps
  BY DEF HookPending, Running
<1>2. IsFiniteSet(HookPending(g)) /\ IsFiniteSet(Running(g)) /\ Cardinality(HookPending(g)) <= Cardinality(HookCalls)
  BY <1>1, Finite, FS_Subset
<1> QED
  BY <1>2, FS_CardinalityType

(* Nothing is written that the counts depend on. *)
LEMMA TracedStays == ASSUME Traced, UNCHANGED <<worker, traffic>> PROVE Traced'
BY DEF Traced, CallsTyped, Counted, HookPending, Running, Up, traffic

(* The number of a new worker is in no call's hands, so its counts start at 0. *)
LEMMA TracedRaises == ASSUME TypeOK, Sound, Traced, Raises PROVE Traced'
<1>0. OpTyped /\ Engine /\ Package /\ CallsTyped /\ Counted
  BY DEF Sound, Traced
<1>1. CASE UNCHANGED <<worker, traffic>>
  BY <1>1, TracedStays
<1>2. ASSUME NEW kind \in Kinds, Clean, Raise(kind), UNCHANGED <<killed, shims, search, call, cap>>
      PROVE  Traced'
  <2>1. PICK g \in Gens :
          /\ \A h \in Gens : worker'[h] = "up" <=> h = g
          /\ \A c \in Calls : call[c].gen # g
          /\ \A k \in Caps : cap[k].gen # g
          /\ inFlight' = [inFlight EXCEPT ![g] = 0] /\ slots' = [slots EXCEPT ![g] = 0]
    BY <1>2, NewWorkerAlone DEF Only, Up
  <2>2. CallsTyped'
    BY <1>0, <1>2, <2>1, Finite DEF CallsTyped
  <2>3. \A h \in Gens : HookPending(h)' = HookPending(h) /\ Running(h)' = Running(h)
    BY <1>2 DEF HookPending, Running
  <2>4. HookPending(g) = {} /\ Running(g) = {}
    BY <2>1, Finite DEF HookPending, Running
  <2>5. \A h \in Gens : inFlight'[h] = Cardinality(HookPending(h)) /\ slots'[h] = Cardinality(Running(h))
    BY <1>0, <2>1, <2>4, FS_EmptySet DEF CallsTyped, Counted
  <2>6. \A c \in Calls : call'[c].at # "pending"
    BY <1>0, <1>2 DEF Counted, Clean, Alone
  <2>7. Counted'
    BY <1>0, <1>2, <2>3, <2>5, <2>6 DEF Counted
  <2> QED
    BY <2>2, <2>7 DEF Traced
<1>3. CASE Enable
  <2>1. CASE Enabled
    <3>1. UNCHANGED <<worker, traffic>>
      BY <1>3, <2>1 DEF Enable, traffic
    <3> QED
      BY <1>1, <3>1
  <2>2. CASE ~Enabled
    <3>1. Raise("enable") /\ UNCHANGED <<killed, shims, search, call, cap>>
      BY <1>3, <2>2 DEF Enable, registry
    <3>2. Clean /\ "enable" \in Kinds
      BY <1>0, <1>3, <2>2 DEF Enable, Resting, Engine, Kinds
    <3> QED
      BY <1>2, <3>1, <3>2
  <2> QED
    BY <2>1, <2>2
<1>4. CASE SwapLoads
  <2>1. CASE op.was
    <3>1. Raise("update") /\ UNCHANGED <<killed, shims, search, call, cap>>
      BY <1>4, <2>1 DEF SwapLoads, registry
    <3>2. Clean /\ "update" \in Kinds
      BY <1>0, <1>4 DEF SwapLoads, Engine, Kinds
    <3> QED
      BY <1>2, <3>1, <3>2
  <2>2. CASE ~op.was
    <3>1. UNCHANGED <<worker, traffic>>
      BY <1>4, <2>2 DEF SwapLoads, traffic, threads
    <3> QED
      BY <1>1, <3>1
  <2> QED
    BY <2>1, <2>2
<1>5. CASE Reload
  <2>1. CASE disk.live \in Loadable /\ op.was
    <3>1. Raise("revert") /\ UNCHANGED <<killed, shims, search, call, cap>>
      BY <1>0, <1>5, <2>1 DEF Reload, registry, Package
    <3>2. Clean /\ "revert" \in Kinds
      BY <1>0, <1>5 DEF Reload, Engine, Kinds
    <3> QED
      BY <1>2, <3>1, <3>2
  <2>2. CASE ~(disk.live \in Loadable /\ op.was)
    <3>1. UNCHANGED <<worker, traffic>>
      BY <1>0, <1>5, <2>2 DEF Reload, traffic, Package
    <3> QED
      BY <1>1, <3>1
  <2> QED
    BY <2>1, <2>2
<1>6. CASE Restore
  <2>1. Raise("restore") /\ UNCHANGED <<killed, shims, search, call, cap>>
    BY <1>6 DEF Restore, registry
  <2>2. Clean /\ "restore" \in Kinds
    BY <1>0, <1>6 DEF Restore, Engine, Kinds
  <2> QED
    BY <1>2, <2>1, <2>2
<1> QED
  BY <1>3, <1>4, <1>5, <1>6 DEF Raises

LEMMA TracedWalks == ASSUME Traced, Walks PROVE Traced'
<1>1. UNCHANGED <<worker, traffic>>
  BY DEF Walks, Raised, Refused, EnableDone, EnableUndone, EnableFailed, Lowered, DisableDone, Erase, EraseRefused,
     Swap, SwapRefused, SwapStuck, SwapFails, RollBack, RollBackRefused, PutBack, Disable, Uninstall, Shutdown, Install, Update, Subscribe, ProvideSearch, threads
<1> QED
  BY <1>1, TracedStays

(* Who waits for a worker that ends is answered, and counted out. *)
LEMMA TracedExit == ASSUME Traced, OpTyped, NEW g \in Gens, Exit(g) PROVE Traced'
<1>0. CallsTyped /\ Counted
  BY DEF Traced
<1>1. /\ worker' = [worker EXCEPT ![g] = "ended"]
      /\ call' = [c \in Calls |-> IF c \in PendingOn(g) THEN IdleCall ELSE call[c]]
      /\ inFlight' = [inFlight EXCEPT ![g] = inFlight[g] - Cardinality(PendingOn(g) \cap HookCalls)]
      /\ UNCHANGED <<cap, slots>>
  BY DEF Exit
<1>2. PendingOn(g) \cap HookCalls = HookPending(g)
  BY Finite DEF PendingOn, HookPending
<1>3. \A h \in Gens : worker'[h] = "up" <=> worker[h] = "up" /\ h # g
  BY <1>1 DEF OpTyped
<1>4. \A c \in Calls :
        /\ call[c].at = "pending" /\ call[c].gen = g => call'[c] = IdleCall
        /\ ~(call[c].at = "pending" /\ call[c].gen = g) => call'[c] = call[c]
  BY <1>1 DEF PendingOn
<1>5. IdleCall \in CallType /\ IdleCall.at = "idle"
  BY DEF IdleCall, CallType
<1>6. inFlight[g] = Cardinality(HookPending(g)) /\ Cardinality(HookPending(g)) \in Nat
  BY <1>0, Sets DEF Counted
<1>7. inFlight' = [inFlight EXCEPT ![g] = 0]
  <2>1. inFlight[g] - Cardinality(PendingOn(g) \cap HookCalls) = 0
    BY <1>2, <1>6
  <2> QED
    BY <1>1, <2>1
<1>8. call' \in [Calls -> CallType]
  <2>1. \A c \in Calls : (IF c \in PendingOn(g) THEN IdleCall ELSE call[c]) \in CallType
    BY <1>0, <1>5 DEF CallsTyped
  <2> QED
    BY <1>1, <2>1
<1>9. CallsTyped'
  BY <1>0, <1>1, <1>7, <1>8 DEF CallsTyped
<1>10. HookPending(g)' = {}
  BY <1>4, <1>5, Finite DEF HookPending
<1>11. \A h \in Gens \ {g} : HookPending(h)' = HookPending(h)
  BY <1>4, <1>5, Finite DEF HookPending
<1>12. \A h \in Gens : Running(h)' = Running(h)
  BY <1>1 DEF Running
<1>13. \A h \in Gens : inFlight'[h] = Cardinality(HookPending(h)')
  BY <1>0, <1>7, <1>10, <1>11, FS_EmptySet DEF CallsTyped, Counted
<1>14. Counted'
  BY <1>0, <1>1, <1>3, <1>4, <1>5, <1>12, <1>13 DEF Counted, Up
<1> QED
  BY <1>9, <1>14 DEF Traced

LEMMA TracedRestart == ASSUME Restart PROVE Traced'
<1>1. /\ call' = [c \in Calls |-> IdleCall] /\ inFlight' = [g \in Gens |-> 0]
      /\ cap' = [k \in Caps |-> IdleCall] /\ slots' = [g \in Gens |-> 0]
  BY DEF Restart
<1>2. IdleCall \in CallType /\ IdleCall \in CapType /\ IdleCall.at = "idle"
  BY DEF IdleCall, CallType, CapType
<1>3. CallsTyped'
  BY <1>1, <1>2, Finite DEF CallsTyped
<1>4. \A h \in Gens : HookPending(h)' = {} /\ Running(h)' = {}
  BY <1>1, <1>2, Finite DEF HookPending, Running
<1>5. Counted'
  BY <1>1, <1>2, <1>4, FS_EmptySet DEF Counted
<1> QED
  BY <1>3, <1>5 DEF Traced

LEMMA TracedInit == Init => Traced
<1> SUFFICES ASSUME Init PROVE Traced
  OBVIOUS
<1>1. /\ call = [c \in Calls |-> IdleCall] /\ inFlight = [g \in Gens |-> 0]
      /\ cap = [k \in Caps |-> IdleCall] /\ slots = [g \in Gens |-> 0]
  BY DEF Init
<1>2. IdleCall \in CallType /\ IdleCall \in CapType /\ IdleCall.at = "idle"
  BY DEF IdleCall, CallType, CapType
<1>3. CallsTyped
  BY <1>1, <1>2, Finite DEF CallsTyped
<1>4. \A h \in Gens : HookPending(h) = {} /\ Running(h) = {}
  BY <1>1, <1>2, Finite DEF HookPending, Running
<1>5. Counted
  BY <1>1, <1>2, <1>4, FS_EmptySet DEF Counted
<1> QED
  BY <1>3, <1>5 DEF Traced

(* A call that is taken up or settled changes the count of its host alone. *)
LEMMA TracedCalls == ASSUME Traced, OpTyped, NEW c \in Calls, Calling(c) PROVE Traced'
<1>0. CallsTyped /\ Counted /\ call \in [Calls -> CallType] /\ inFlight \in [Gens -> Nat]
  BY DEF Traced, CallsTyped
<1>1. UNCHANGED <<worker, cap, slots>>
  BY DEF Calling, Hold, Dispatch, Settle, threads
<1>2. \A h \in Gens : Running(h)' = Running(h)
  BY <1>1 DEF Running
<1>3. IdleCall \in CallType /\ IdleCall.at = "idle"
  BY DEF IdleCall, CallType
\* What is left to show: the call's new state, and the counts.
<1>4. ASSUME NEW r \in CallType, call' = [call EXCEPT ![c] = r], inFlight' \in [Gens -> Nat],
             r.at # "idle" => r.gen \in Gens, r.at = "pending" => Up(r.gen),
             \A h \in Gens : inFlight'[h] = Cardinality(HookPending(h)')
      PROVE  Traced'
  <2>1. CallsTyped'
    BY <1>0, <1>1, <1>4 DEF CallsTyped
  <2>2. \A d \in Calls : call'[d] = IF d = c THEN r ELSE call[d]
    BY <1>0, <1>4
  <2>3. Counted'
    BY <1>0, <1>1, <1>2, <1>4, <2>2 DEF Counted, Up
  <2> QED
    BY <2>1, <2>3 DEF Traced
<1>5. ASSUME NEW r \in CallType, call' = [call EXCEPT ![c] = r], inFlight' = inFlight,
             c \notin HookCalls \/ (call[c].at # "pending" /\ r.at # "pending")
      PROVE  \A h \in Gens : inFlight'[h] = Cardinality(HookPending(h)')
  <2>1. \A d \in Calls : call'[d] = IF d = c THEN r ELSE call[d]
    BY <1>0, <1>5
  <2>2. \A h \in Gens : HookPending(h)' = HookPending(h)
    BY <1>5, <2>1, Finite DEF HookPending
  <2> QED
    BY <1>0, <1>5, <2>2 DEF Counted
<1>6. CASE Hold(c)
  <2>1. PICK r \in CallType : /\ call' = [call EXCEPT ![c] = r] /\ r.at = "held" /\ r.gen \in Gens
                              /\ inFlight' = inFlight /\ call[c].at = "idle"
    <3>1. call' = [call EXCEPT ![c] = [at |-> "held", gen |-> sandboxHost]] /\ inFlight' = inFlight /\ call[c].at = "idle"
      BY <1>6 DEF Hold
    <3>2. sandboxHost \in Gens
      BY <1>6 DEF Hold, OpTyped
    <3>3. [at |-> "held", gen |-> sandboxHost] \in CallType
      BY <3>2 DEF CallType
    <3> QED
      BY <3>1, <3>2, <3>3
  <2> QED
    BY <1>0, <1>4, <1>5, <2>1
<1>7. CASE Dispatch(c) /\ ~Up(call[c].gen)
  <2>1. call' = [call EXCEPT ![c] = IdleCall] /\ inFlight' = inFlight /\ call[c].at = "held"
    BY <1>7 DEF Dispatch
  <2> QED
    BY <1>0, <1>3, <1>4, <1>5, <2>1
<1>8. CASE Dispatch(c) /\ Up(call[c].gen)
  <2>2. PICK g \in Gens : g = call[c].gen
    BY <1>0, <1>8 DEF Counted, Dispatch
  <2>1. /\ call' = [call EXCEPT ![c].at = "pending"] /\ call[c].at = "held"
        /\ inFlight' = IF c \in HookCalls THEN [inFlight EXCEPT ![g] = inFlight[g] + 1] ELSE inFlight
    BY <1>8, <2>2 DEF Dispatch
  <2>3. PICK r \in CallType : call' = [call EXCEPT ![c] = r] /\ r.at = "pending" /\ r.gen = g
    <3>1. call[c] \in CallType
      BY <1>0
    <3>2. [call[c] EXCEPT !.at = "pending"] \in CallType
      BY <3>1 DEF CallType
    <3>3. /\ [call[c] EXCEPT !.at = "pending"].at = "pending"
          /\ [call[c] EXCEPT !.at = "pending"].gen = g
      BY <2>2, <3>1 DEF CallType
    <3> QED
      BY <2>1, <3>2, <3>3
  <2>4. CASE c \notin HookCalls
    BY <1>0, <1>4, <1>5, <1>8, <2>1, <2>2, <2>3, <2>4
  <2>5. CASE c \in HookCalls
    <3>1. \A d \in Calls : call'[d] = IF d = c THEN r ELSE call[d]
      BY <1>0, <2>3
    <3>2. HookPending(g)' = HookPending(g) \cup {c} /\ c \notin HookPending(g)
      BY <2>1, <2>2, <2>3, <2>5, <3>1, Finite DEF HookPending
    <3>3. \A h \in Gens \ {g} : HookPending(h)' = HookPending(h)
      BY <2>1, <2>2, <2>3, <2>5, <3>1, Finite DEF HookPending
    <3>4. Cardinality(HookPending(g) \cup {c}) = Cardinality(HookPending(g)) + 1
      BY <3>2, Sets, FS_AddElement
    <3>5. inFlight' = [inFlight EXCEPT ![g] = inFlight[g] + 1]
      BY <2>1, <2>5
    <3>6. inFlight' \in [Gens -> Nat]
      BY <1>0, <2>2, <3>5
    <3>7. \A h \in Gens : inFlight'[h] = Cardinality(HookPending(h)')
      <4>1. inFlight'[g] = Cardinality(HookPending(g)')
        BY <1>0, <2>2, <3>2, <3>4, <3>5 DEF Counted
      <4>2. \A h \in Gens \ {g} : inFlight'[h] = Cardinality(HookPending(h)')
        BY <1>0, <2>2, <3>3, <3>5 DEF Counted
      <4> QED
        BY <4>1, <4>2
    <3> QED
      BY <1>4, <1>8, <2>2, <2>3, <3>6, <3>7
  <2> QED
    BY <2>4, <2>5
<1>9. CASE Settle(c)
  <2>2. PICK g \in Gens : g = call[c].gen
    BY <1>0, <1>9 DEF Counted, Settle
  <2>1. /\ call' = [call EXCEPT ![c] = IdleCall] /\ call[c].at = "pending"
        /\ inFlight' = IF c \in HookCalls THEN [inFlight EXCEPT ![g] = inFlight[g] - 1] ELSE inFlight
    BY <1>9, <2>2 DEF Settle
  <2>3. CASE c \notin HookCalls
    BY <1>0, <1>3, <1>4, <1>5, <2>1, <2>3
  <2>4. CASE c \in HookCalls
    <3>1. \A d \in Calls : call'[d] = IF d = c THEN IdleCall ELSE call[d]
      BY <1>0, <2>1
    <3>2. HookPending(g)' = HookPending(g) \ {c} /\ c \in HookPending(g)
      BY <1>3, <2>1, <2>2, <2>4, <3>1, Finite DEF HookPending
    <3>3. \A h \in Gens \ {g} : HookPending(h)' = HookPending(h)
      BY <1>3, <2>1, <2>2, <2>4, <3>1, Finite DEF HookPending
    <3>4. Cardinality(HookPending(g) \ {c}) = Cardinality(HookPending(g)) - 1
      BY <3>2, Sets, FS_RemoveElement
    <3>5. IsFiniteSet(HookPending(g) \ {c}) /\ Cardinality(HookPending(g) \ {c}) \in Nat
      BY Sets, FS_RemoveElement, FS_CardinalityType, <3>2
    <3>6. inFlight' = [inFlight EXCEPT ![g] = inFlight[g] - 1]
      BY <2>1, <2>4
    <3>7. inFlight[g] - 1 = Cardinality(HookPending(g) \ {c})
      BY <1>0, <2>2, <3>4 DEF Counted
    <3>8. inFlight' \in [Gens -> Nat]
      BY <1>0, <2>2, <3>5, <3>6, <3>7
    <3>9. \A h \in Gens : inFlight'[h] = Cardinality(HookPending(h)')
      <4>1. inFlight'[g] = Cardinality(HookPending(g)')
        BY <1>0, <2>2, <3>2, <3>6, <3>7
      <4>2. \A h \in Gens \ {g} : inFlight'[h] = Cardinality(HookPending(h)')
        BY <1>0, <2>2, <3>3, <3>6 DEF Counted
      <4> QED
        BY <4>1, <4>2
    <3> QED
      BY <1>3, <1>4, <2>1, <3>8, <3>9
  <2> QED
    BY <2>3, <2>4
<1> QED
  BY <1>6, <1>7, <1>8, <1>9 DEF Calling

(* A slot is taken below the limit, and given back once. *)
LEMMA TracedCaps ==
  ASSUME Traced, NEW k \in Caps, (\E h \in Gens : Ask(k, h)) \/ Done(k)
  PROVE  Traced'
<1>0. CallsTyped /\ Counted /\ cap \in [Caps -> CapType] /\ slots \in [Gens -> 0..MaxCaps] /\ MaxCaps \in Nat
  BY Finite DEF Traced, CallsTyped
<1>1. UNCHANGED <<worker, call, inFlight>>
  BY DEF Ask, Done, threads
<1>2. \A h \in Gens : HookPending(h)' = HookPending(h)
  BY <1>1 DEF HookPending
<1>3. IdleCall \in CapType /\ IdleCall.at = "idle"
  BY DEF IdleCall, CapType
<1>4. ASSUME NEW r \in CapType, cap' = [cap EXCEPT ![k] = r], slots' \in [Gens -> 0..MaxCaps],
             r.at # "idle" => r.gen \in Gens, \A h \in Gens : slots'[h] = Cardinality(Running(h)')
      PROVE  Traced'
  <2>1. CallsTyped'
    BY <1>0, <1>1, <1>4 DEF CallsTyped
  <2>2. \A d \in Caps : cap'[d] = IF d = k THEN r ELSE cap[d]
    BY <1>0, <1>4
  <2>3. Counted'
    BY <1>0, <1>1, <1>2, <1>4, <2>2 DEF Counted, Up
  <2> QED
    BY <2>1, <2>3 DEF Traced
<1>5. ASSUME NEW g \in Gens, Ask(k, g) PROVE Traced'
  <2>1. PICK r \in CapType : cap' = [cap EXCEPT ![k] = r] /\ r.at = "running" /\ r.gen = g
    <3>1. [at |-> "running", gen |-> g] \in CapType
      BY DEF CapType
    <3> QED
      BY <1>5, <3>1 DEF Ask
  <2>2. cap[k].at = "idle" /\ slots[g] < MaxCaps /\ slots' = [slots EXCEPT ![g] = slots[g] + 1]
    BY <1>5 DEF Ask
  <2>3. \A d \in Caps : cap'[d] = IF d = k THEN r ELSE cap[d]
    BY <1>0, <2>1
  <2>4. Running(g)' = Running(g) \cup {k} /\ k \notin Running(g)
    BY <2>1, <2>2, <2>3 DEF Running
  <2>5. \A h \in Gens \ {g} : Running(h)' = Running(h)
    BY <2>1, <2>2, <2>3 DEF Running
  <2>6. Cardinality(Running(g) \cup {k}) = Cardinality(Running(g)) + 1
    BY <2>4, Sets, FS_AddElement
  <2>7. slots' \in [Gens -> 0..MaxCaps]
    BY <1>0, <2>2
  <2>8. \A h \in Gens : slots'[h] = Cardinality(Running(h)')
    BY <1>0, <2>2, <2>4, <2>5, <2>6 DEF Counted
  <2> QED
    BY <1>4, <2>1, <2>7, <2>8
<1>6. CASE Done(k)
  <2>2. PICK g \in Gens : g = cap[k].gen
    BY <1>0, <1>6 DEF Counted, Done
  <2>1. cap[k].at = "running" /\ cap' = [cap EXCEPT ![k] = IdleCall] /\ slots' = [slots EXCEPT ![g] = slots[g] - 1]
    BY <1>6, <2>2 DEF Done
  <2>3. \A d \in Caps : cap'[d] = IF d = k THEN IdleCall ELSE cap[d]
    BY <1>0, <2>1
  <2>4. Running(g)' = Running(g) \ {k} /\ k \in Running(g)
    BY <1>3, <2>1, <2>2, <2>3 DEF Running
  <2>5. \A h \in Gens \ {g} : Running(h)' = Running(h)
    BY <1>3, <2>1, <2>2, <2>3 DEF Running
  <2>6. Cardinality(Running(g) \ {k}) = Cardinality(Running(g)) - 1
    BY <2>4, Sets, FS_RemoveElement
  <2>7. Cardinality(Running(g) \ {k}) \in Nat
    BY Sets, FS_RemoveElement, FS_CardinalityType, <2>4
  <2>8. slots[g] - 1 = Cardinality(Running(g) \ {k})
    BY <1>0, <2>2, <2>6 DEF Counted
  <2>9. slots' \in [Gens -> 0..MaxCaps]
    BY <1>0, <2>1, <2>2, <2>7, <2>8
  <2>10. \A h \in Gens : slots'[h] = Cardinality(Running(h)')
    <3>1. slots'[g] = Cardinality(Running(g)')
      BY <1>0, <2>1, <2>2, <2>4, <2>8
    <3>2. \A h \in Gens \ {g} : slots'[h] = Cardinality(Running(h)')
      BY <1>0, <2>1, <2>2, <2>5 DEF Counted
    <3> QED
      BY <3>1, <3>2
  <2> QED
    BY <1>3, <1>4, <2>1, <2>9, <2>10
<1> QED
  BY <1>5, <1>6

-----------------------------------------------------------------------------
(* The theorems *)

Inductive == Sound /\ Traced

LEMMA TypeFollows == ASSUME Inductive PROVE TypeOK
<1>0. OpTyped /\ CallsTyped /\ Counted
  BY DEF Inductive, Sound, Traced
<1>1. inFlight \in [Gens -> 0..Cardinality(HookCalls)]
  <2>1. \A g \in Gens : inFlight[g] \in 0..Cardinality(HookCalls)
    BY <1>0, Sets, Finite DEF Counted
  <2> QED
    BY <1>0, <2>1 DEF CallsTyped
<1> QED
  BY <1>0, <1>1 DEF OpTyped, CallsTyped, TypeOK, PluginType, StoredType, DiskType, OpType, Places, CallType, CapType

LEMMA InductiveStep == ASSUME Inductive, [Next]_vars PROVE Inductive'
<1>0. TypeOK /\ Sound /\ Traced /\ OpTyped
  BY TypeFollows DEF Inductive, Sound
<1>1. Sound'
  BY <1>0, SoundStep
<1>2. Traced'
  <2>1. CASE Raises
    BY <1>0, <2>1, TracedRaises
  <2>2. CASE Walks
    BY <1>0, <2>2, TracedWalks
  <2>3. CASE \E g \in Gens : Exit(g)
    BY <1>0, <2>3, TracedExit
  <2>4. CASE Restart
    BY <2>4, TracedRestart
  <2>5. CASE Quiet
    BY <1>0, <2>5, TracedCalls, TracedCaps DEF Quiet
  <2>6. CASE UNCHANGED vars
    <3>1. UNCHANGED <<worker, traffic>>
      BY <2>6 DEF vars, threads
    <3> QED
      BY <1>0, <3>1, TracedStays
  <2> QED
    BY <1>0, <2>1, <2>2, <2>3, <2>4, <2>5, <2>6, Sorted
<1> QED
  BY <1>1, <1>2 DEF Inductive

LEMMA InductiveAlways == Spec => []Inductive
<1>1. Init => Inductive
  BY SoundInit, TracedInit DEF Inductive
<1>2. Inductive /\ [Next]_vars => Inductive'
  BY InductiveStep
<1> QED
  BY <1>1, <1>2, PTL DEF Spec

(* Every variable keeps its type; the events in flight are never more than   *)
(* the calls of hooks, the capability slots never more than maxInFlightCaps, *)
(* and a new worker always gets a number that nobody refers to (FreshIs).    *)
THEOREM PluginTypeCorrect == Spec => []TypeOK
<1>1. Inductive => TypeOK
  BY TypeFollows
<1> QED
  BY <1>1, InductiveAlways, PTL

(* Between two turns one worker at most runs and nothing registered points   *)
(* to one that has ended; at rest an enabled plugin has a live worker behind *)
(* its host and another has none, whatever happened at the awaits of its     *)
(* operations (enableSandboxed, teardownSandboxed, buildWorkerExitHandler).  *)
THEOREM Served == Spec => []ServedIffEnabled
<1>1. ASSUME Inductive PROVE ServedIffEnabled
  <2>0. OpTyped /\ Engine
    BY <1>1 DEF Inductive, Sound
  <2>1. SUFFICES ASSUME Free PROVE ServedIffEnabled!2
    BY DEF ServedIffEnabled
  <2>2. op.at \in {"rest"} \cup Raising \cup Ending
    BY <2>0, <2>1, OpTypes DEF Free, Places
  <2>3. Clean \/ \E g \in Gens : Only(g)
    BY <2>0, <2>2 DEF Engine, Raising, Ending, Starting, Lowering, Only
  <2>4. shims \subseteq {g \in Gens : Up(g)} /\ (search # 0 => Up(search))
    BY <2>0, <2>3 DEF Clean, Alone, Only, OpTyped
  <2>5. \A g, h \in Gens : Up(g) /\ Up(h) => g = h
    BY <2>3 DEF Clean, Alone, Only
  <2>6. Resting => IF Enabled THEN sandboxHost # 0 /\ Up(sandboxHost)
                              ELSE sandboxHost = 0 /\ \A g \in Gens : ~Up(g)
    BY <2>0, Finite DEF Resting, Engine, Clean, Alone, Only
  <2> QED
    BY <2>4, <2>5, <2>6
<1> QED
  BY <1>1, InductiveAlways, PTL

(* Between two turns nobody waits for a worker that has ended, and the       *)
(* counters of a host are those of the calls not settled and of the          *)
(* capability calls that are running (handleExit, handleCapRequest).         *)
THEOREM CallsCounted == Spec => []CallsAddUp
<1>1. ASSUME Inductive PROVE CallsAddUp
  <2>0. CallsTyped /\ Counted
    BY <1>1 DEF Inductive, Traced
  <2>1. ASSUME NEW g \in Gens
        PROVE  PendingOn(g) \cap HookCalls = HookPending(g)
    BY Finite DEF PendingOn, HookPending
  <2>2. ASSUME NEW g \in Gens
        PROVE  {k \in Caps : cap[k] = [at |-> "running", gen |-> g]} = Running(g)
    <3>1. \A k \in Caps : cap[k] \in CapType
      BY <2>0 DEF CallsTyped
    <3>2. \A k \in Caps : cap[k] = [at |-> "running", gen |-> g] <=> cap[k].at = "running" /\ cap[k].gen = g
      BY <3>1 DEF CapType
    <3> QED
      BY <3>2 DEF Running
  <2>3. \A g \in Gens :
          /\ inFlight[g] = Cardinality(PendingOn(g) \cap HookCalls)
          /\ slots[g] = Cardinality({k \in Caps : cap[k] = [at |-> "running", gen |-> g]})
    BY <2>0, <2>1, <2>2 DEF Counted
  <2> QED
    BY <2>0, <2>3 DEF CallsAddUp, Counted
<1> QED
  BY <1>1, InductiveAlways, PTL

(* At rest a plugin that is loaded is loaded from its directory's package    *)
(* and runs only if its registry entry wants it; and unless a refused file   *)
(* operation or a dropped backup has lost it (forfeit names which), an       *)
(* installed plugin is loaded, no backup is left over, and the entry says    *)
(* what the operator was told (updatePackageInner, recoverInterruptedUpdates,*)
(* ensureRegistryEntry, saveRegistry).                                       *)
THEOREM InstallIsKept == Spec => []InstallKept
<1>1. ASSUME Inductive PROVE InstallKept
  <2>0. OpTyped /\ Engine /\ Package /\ Wanted
    BY <1>1 DEF Inductive, Sound
  <2>1. CASE op.at = "rest"
    BY <2>0, <2>1, OpTypes DEF InstallKept, Package, Wanted, Settled, Tidy, Kept, Enabled
  <2>2. CASE op.at # "rest"
    BY <2>0, <2>2 DEF InstallKept, Engine, Resting
  <2> QED
    BY <2>1, <2>2
<1> QED
  BY <1>1, InductiveAlways, PTL
=============================================================================
