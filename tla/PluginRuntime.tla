---------------------------- MODULE PluginRuntime ----------------------------
(* Plugins: the directories they are in, the file of the user's consents, and   *)
(* the processes of backends/plugins that install a plugin, grant or revoke a    *)
(* consent, or attach the plugins and run a command of one (runtime.py,          *)
(* registry.py, license.py, consent.py, install_plugin.py).                      *)
(*                                                                          *)
(* A place is a directory the registry looks at, in order; an installation       *)
(* replaces the place named after its plugin.  Manifests, versions and licences   *)
(* are what their checks make of them.                                           *)
EXTENDS Integers, Sequences, FiniteSetsExt

CONSTANTS
    PluginIds,
    Commands,        \* numbers; 0 is a feature that is no command
    NoBundle,
    PluginScopes     \* what is on the disk, and what two processes are asked

Tasks == {1, 2}
Checks == {"fine", "invalid", "unfit", "newer"}
Licences == {"free", "lease", "sealed"}
Bundles == [id : PluginIds, version : 1..2, check : Checks, licence : Licences,
            registers : SUBSET Commands, offers : SUBSET Commands]

NoEntry == [version |-> 0, place |-> 0, attested |-> FALSE]

\* What a process is asked; an installation has its place among those looked at.
Jobs == [kind : {"grant", "revoke", "install", "command", "feature"}, id : PluginIds \cup {""},
         bundle : Bundles \cup {NoBundle}, name : Nat, expected : PluginIds \cup {""}, cli : BOOLEAN]

ASSUME PluginAssumption ==
    /\ Commands \subseteq Nat \ {0} /\ NoBundle \notin Bundles
    /\ \A s \in PluginScopes :
         /\ s.places \in Seq([dir : PluginIds, workspace : BOOLEAN])
         /\ s.disk \in [DOMAIN s.places -> Bundles \cup {NoBundle}]
         /\ s.jobs \in [Tasks -> Jobs]
         /\ \A t \in Tasks : s.jobs[t].kind = "install" =>
                /\ s.jobs[t].bundle \in Bundles
                /\ \E k \in DOMAIN s.places : s.places[k].dir = s.jobs[t].bundle.id /\ ~s.places[k].workspace
         /\ s.store \in [PluginIds -> [version : 0..2, place : {0} \cup DOMAIN s.places, attested : BOOLEAN]]
         /\ s.keys \subseteq PluginIds /\ s.alike \subseteq Commands /\ {s.flaky, s.dies, s.unread} \subseteq BOOLEAN

VARIABLES
    pluginScope,
    disk,            \* per place: its bundle, and whether it is whole
    consent,         \* the file of consents
    lockHolder,      \* who has its lock, 0 for nobody
    task,            \* the two processes
    willed, allowed, \* ghosts: the consents as commanded; those a process may go by
    ran,             \* ghost: the bundles whose code a process has run
    moved, faltered  \* ghosts: the disk changed under a process; a plugin failed
                     \* that had registered commands or loaded before

ghostVars == <<willed, allowed, ran, moved, faltered>>
pluginVars == <<pluginScope, disk, consent, lockHolder, task, ghostVars>>

Job(t) == pluginScope.jobs[t]
Places == DOMAIN pluginScope.places
InWorkspace(k) == pluginScope.places[k].workspace

\* Where install_plugin puts a plugin.
Destination(i) == CHOOSE k \in Places : pluginScope.places[k].dir = i /\ ~InWorkspace(k)

Absent == [state |-> "absent", bundle |-> NoBundle]

PluginInit ==
    /\ pluginScope \in PluginScopes
    /\ disk = [k \in Places |-> [bundle |-> pluginScope.disk[k], whole |-> TRUE]]
    /\ consent = pluginScope.store /\ lockHolder = 0
    /\ task = [t \in Tasks |->
                  [at |-> CASE Job(t).kind = "revoke" -> "lock"
                            [] Job(t).kind = "install" -> "stage"
                            [] OTHER -> "registry",
                   copy |-> consent, records |-> [k \in Places |-> Absent], place |-> 1, round |-> 1,
                   commands |-> [c \in {} |-> ""], chosen |-> 0, answer |-> ""]]
    /\ willed = consent /\ allowed = [t \in Tasks |-> {}] /\ ran = [t \in Tasks |-> {}]
    /\ moved = [t \in Tasks |-> FALSE] /\ faltered = [t \in Tasks |-> FALSE]

At(t, step) == task[t].at = step
Goes(t, step) == task' = [task EXCEPT ![t].at = step]

-----------------------------------------------------------------------------
(* The registry *)

\* What a directory that holds a manifest is called, and what becomes of it: of two
\* plugins of one id the later is refused, even behind one that does not fit.
RecordId(k) ==
    IF disk[k].bundle.check = "invalid" THEN pluginScope.places[k].dir ELSE disk[k].bundle.id

RecordState(t, k, listed) ==
    LET b == disk[k].bundle
        same == {j \in listed : j < k /\ disk[j].bundle.check # "invalid" /\ disk[j].bundle.id = b.id}
    IN IF b.check = "invalid" \/ same # {} THEN "invalid"
       ELSE IF b.check = "unfit" THEN "incompatible"
       ELSE IF Job(t).cli /\ b.licence # "free" /\ b.id \notin pluginScope.keys THEN "locked"
       ELSE "active"

\* discover_plugin_dirs, build_plugin_registry, apply_plugin_licensing (which the MCP
\* server does without).  A directory that is being removed may have no manifest left.
BuildRegistry(t) ==
    /\ At(t, "registry")
    /\ \E listed \in SUBSET {k \in Places : disk[k].bundle # NoBundle} :
         /\ \A k \in Places : disk[k].bundle # NoBundle /\ disk[k].whole => k \in listed
         /\ LET found == {k \in listed : RecordId(k) = Job(t).id}
                first == Min(found)
                records == [k \in Places |-> IF k \in listed
                               THEN [state |-> RecordState(t, k, listed), bundle |-> disk[k].bundle]
                               ELSE Absent]
                grantable == found # {} /\ disk[first].bundle.check # "invalid"
            IN task' = [task EXCEPT ![t] = [task[t] EXCEPT
                          !.records = records,
                          !.place = IF Job(t).kind = "grant" /\ grantable THEN first ELSE 1,
                          !.at = IF Job(t).kind # "grant" THEN "consent"
                                 ELSE IF grantable THEN "lock" ELSE "done"]]
    /\ allowed' = [allowed EXCEPT ![t] = {willed}] /\ moved' = [moved EXCEPT ![t] = FALSE]
    /\ UNCHANGED <<pluginScope, disk, consent, lockHolder, willed, ran, faltered>>

-----------------------------------------------------------------------------
(* The consents *)

\* Mutant: nobody waits for the lock.
LockTaken == TRUE

LockFree == lockHolder = 0

\* _read_store: a file that cannot be read is taken for one without a consent.
Nothing == [i \in PluginIds |-> NoEntry]
Readings == {consent} \cup (IF pluginScope.unread THEN {Nothing} ELSE {})

\* grant_plugin_consent and revoke_plugin_consent: the file is read under the lock,
TakeLock(t) ==
    /\ At(t, "lock") /\ LockFree
    /\ lockHolder' = t
    /\ \E read \in Readings :
          task' = [task EXCEPT ![t] = [task[t] EXCEPT !.copy = read, !.at = "write"]]
    /\ UNCHANGED <<pluginScope, disk, consent, ghostVars>>

\* and replaced, before the lock is given up.
Commanded(t, store) ==
    LET k == task[t].place
        entry == [version |-> task[t].records[k].bundle.version, place |-> k, attested |-> TRUE]
    IN [store EXCEPT ![Job(t).id] = IF Job(t).kind = "grant" THEN entry ELSE NoEntry]

\* Ghost: who could not read the file has commanded upon an empty one.
Base(t) == IF pluginScope.unread /\ task[t].copy = Nothing THEN Nothing ELSE willed

SaveConsent(t) ==
    /\ At(t, "write")
    /\ consent' = Commanded(t, task[t].copy) /\ lockHolder' = 0
    /\ willed' = Commanded(t, Base(t))
    /\ allowed' = [u \in Tasks |-> allowed[u] \cup {willed'}]
    /\ Goes(t, "done")
    /\ UNCHANGED <<pluginScope, disk, ran, moved, faltered>>

\* load_consent_store, which waits for the lock too.
ReadConsent(t) ==
    /\ At(t, "consent") /\ LockFree
    /\ \E read \in Readings :
          task' = [task EXCEPT ![t] = [task[t] EXCEPT !.copy = read, !.at = "attach"]]
    /\ UNCHANGED <<pluginScope, disk, consent, lockHolder, ghostVars>>

\* is_plugin_consented: of this version, at this place; an entry that names no place
\* does not vouch for the workspace.
Consented(store, b, k) ==
    LET e == store[b.id] IN
    /\ e.attested /\ e.version = b.version
    /\ e.place = k \/ (e.place = 0 /\ ~InWorkspace(k))

-----------------------------------------------------------------------------
(* attach_plugins *)

NextRecord(t, k, state) ==
    LET record == [task[t].records[k] EXCEPT !.state = state]
    IN [task[t] EXCEPT !.records = [task[t].records EXCEPT ![k] = record], !.place = k + 1]

Passes(t, k, state) == task' = [task EXCEPT ![t] = NextRecord(t, k, state)]

CommandsOf(t) == DOMAIN task[t].commands

\* One record: held back, or refused for the version of the interface it needs.
Skip(t) ==
    /\ At(t, "attach") /\ task[t].place \in Places
    /\ LET k == task[t].place
           r == task[t].records[k]
           pending == task[t].round = 1 /\ r.bundle # NoBundle /\ ~Consented(task[t].copy, r.bundle, k)
       IN \/ r.state # "active" /\ Passes(t, k, r.state)
          \/ r.state = "active" /\ pending /\ Passes(t, k, "pending_consent")
          \/ r.state = "active" /\ ~pending /\ r.bundle.check = "newer" /\ Passes(t, k, "failed")
    /\ UNCHANGED <<pluginScope, disk, consent, lockHolder, ghostVars>>

\* _resolve_effective_plugin_root: what is sealed opens with its key, and only as the
\* release the manifest speaks of.  Else the code is what the directory now holds.
Opens(t, k) ==
    LET r == task[t].records[k] IN
    /\ disk[k].bundle # NoBundle
    /\ r.bundle.licence = "sealed" <=> disk[k].bundle.licence = "sealed"
    /\ r.bundle.licence = "sealed" =>
           disk[k].whole /\ disk[k].bundle = r.bundle /\ Job(t).cli /\ r.bundle.id \in pluginScope.keys

\* A command that is registered again is the later plugin's.
Registered(t, new, i) ==
    [c \in new \cup CommandsOf(t) |-> IF c \in new THEN i ELSE task[t].commands[c]]

\* One record whose code is imported and registers its commands, or fails before the
\* end of that; what it registered so far stays.
Attach(t) ==
    /\ At(t, "attach") /\ task[t].place \in Places
    /\ LET k == task[t].place
           r == task[t].records[k]
           b == disk[k].bundle
       IN /\ r.state = "active" /\ r.bundle.check # "newer"
          /\ task[t].round = 1 => Consented(task[t].copy, r.bundle, k)
          /\ \/ /\ ~Opens(t, k) \/ ~disk[k].whole
                /\ Passes(t, k, "failed")
                /\ faltered' = [faltered EXCEPT ![t] = @ \/ task[t].round = 2] /\ UNCHANGED ran
             \/ /\ Opens(t, k)
                /\ ran' = [ran EXCEPT ![t] = @ \cup {[bundle |-> b, place |-> k]}]
                /\ \E fails \in {FALSE} \cup (IF pluginScope.flaky THEN {TRUE} ELSE {}),
                      done \in SUBSET b.registers :
                     /\ fails \/ done = b.registers
                     /\ task' = [task EXCEPT ![t] =
                           [NextRecord(t, k, IF fails THEN "failed" ELSE "active") EXCEPT
                              !.commands = Registered(t, done, r.bundle.id)]]
                     /\ faltered' = [faltered EXCEPT ![t] =
                           @ \/ (fails /\ (task[t].round = 2 \/ done # {}))]
    /\ UNCHANGED <<pluginScope, disk, consent, lockHolder, willed, allowed, moved>>

-----------------------------------------------------------------------------
(* Commands and features *)

\* resolve_plugin_command_for_feature: the command of that name, one that an active
\* plugin declares for the feature, one whose name resembles it.
Declaring(t) ==
    {k \in Places : /\ task[t].records[k].state = "active"
                    /\ task[t].records[k].bundle.offers \cap CommandsOf(t) # {}}
Resolution(t) ==
    LET similar == CommandsOf(t) \cap pluginScope.alike IN
    CASE Job(t).name \in CommandsOf(t) -> {Job(t).name}
      [] Job(t).name \notin CommandsOf(t) /\ Declaring(t) # {} ->
             task[t].records[Min(Declaring(t))].bundle.offers \cap CommandsOf(t)
      [] Job(t).name \notin CommandsOf(t) /\ Declaring(t) = {} ->
             IF similar = {} THEN {} ELSE {Min(similar)}

TaskEnds(t, answer) == task' = [task EXCEPT ![t] = [task[t] EXCEPT !.at = "done", !.answer = answer]]

\* invoke_plugin_feature: the feature is resolved and its owner compared, and the
\* plugins are attached again for invoke_plugin_command, without asking for consents.
Resolve(t) ==
    /\ At(t, "attach") /\ task[t].place \notin Places
    /\ Job(t).kind = "feature" /\ task[t].round = 1
    /\ \/ Resolution(t) = {} /\ TaskEnds(t, "none")
       \/ \E c \in Resolution(t) :
             IF Job(t).expected \notin {"", task[t].commands[c]} THEN TaskEnds(t, "refused")
             ELSE task' = [task EXCEPT ![t] = [task[t] EXCEPT
                             !.chosen = c, !.round = 2, !.place = 1, !.commands = [x \in {} |-> ""]]]
    /\ UNCHANGED <<pluginScope, disk, consent, lockHolder, ghostVars>>

\* invoke_plugin_command: the answer is the owner's; what the enrichers of the other
\* plugins add to it is left out.
RunCommand(t) ==
    /\ At(t, "attach") /\ task[t].place \notin Places
    /\ Job(t).kind = "command" \/ task[t].round = 2
    /\ LET c == IF Job(t).kind = "command" THEN Job(t).name ELSE task[t].chosen IN
       IF c \in CommandsOf(t) THEN TaskEnds(t, task[t].commands[c]) ELSE TaskEnds(t, "none")
    /\ UNCHANGED <<pluginScope, disk, consent, lockHolder, ghostVars>>

-----------------------------------------------------------------------------
(* install_plugin *)

\* The disk changes under every process that has looked at it.
Moves == moved' = [t \in Tasks |-> TRUE]

Bundle(t) == Job(t).bundle
Target(t) == Destination(Bundle(t).id)

\* The source is read and copied beside the destination, whose removal begins.
Stage(t) ==
    /\ At(t, "stage")
    /\ IF Bundle(t).check = "invalid" THEN TaskEnds(t, "error") /\ UNCHANGED <<disk, moved>>
       ELSE IF disk[Target(t)].bundle = NoBundle THEN Goes(t, "move") /\ UNCHANGED <<disk, moved>>
       ELSE /\ disk' = [disk EXCEPT ![Target(t)].whole = FALSE]
            /\ Moves /\ Goes(t, "remove")
    /\ UNCHANGED <<pluginScope, consent, lockHolder, willed, allowed, ran, faltered>>

\* rmtree, which fails when another has removed what it was about to.
Empty(t) ==
    /\ At(t, "remove")
    /\ LET d == disk[Target(t)] IN
       \/ /\ d.bundle # NoBundle /\ ~d.whole
          /\ disk' = [disk EXCEPT ![Target(t)] = [bundle |-> NoBundle, whole |-> TRUE]]
          /\ Goes(t, "move")
       \/ /\ d.bundle = NoBundle \/ d.whole \/ pluginScope.dies
          /\ disk' = disk /\ TaskEnds(t, "error")
    /\ Moves
    /\ UNCHANGED <<pluginScope, consent, lockHolder, willed, allowed, ran, faltered>>

\* shutil.move: into the place, or, when another has filled it, below what is there.
MoveIn(t) ==
    /\ At(t, "move")
    /\ disk' = IF disk[Target(t)].bundle = NoBundle
               THEN [disk EXCEPT ![Target(t)] = [bundle |-> Bundle(t), whole |-> TRUE]] ELSE disk
    /\ Moves /\ TaskEnds(t, "ok")
    /\ UNCHANGED <<pluginScope, consent, lockHolder, willed, allowed, ran, faltered>>

\* A process dies; the system gives its lock back.
ProcessDies(t) ==
    /\ pluginScope.dies /\ task[t].at \notin {"done", "dead"}
    /\ Goes(t, "dead") /\ lockHolder' = IF lockHolder = t THEN 0 ELSE lockHolder
    /\ UNCHANGED <<pluginScope, disk, consent, ghostVars>>

PluginNext ==
    \E t \in Tasks :
        \/ BuildRegistry(t) \/ TakeLock(t) \/ SaveConsent(t) \/ ReadConsent(t)
        \/ Skip(t) \/ Attach(t) \/ Resolve(t) \/ RunCommand(t)
        \/ Stage(t) \/ Empty(t) \/ MoveIn(t) \/ ProcessDies(t)

PluginSpec == PluginInit /\ [][PluginNext]_pluginVars

-----------------------------------------------------------------------------
(* Properties *)

PluginTypeOK ==
    /\ \A k \in Places : disk[k].bundle \in Bundles \cup {NoBundle} /\ disk[k].whole \in BOOLEAN
    /\ lockHolder \in {0} \cup Tasks /\ DOMAIN consent = PluginIds
    /\ \A t \in Tasks :
         /\ task[t].at \in {"registry", "lock", "write", "consent", "attach", "stage", "remove",
                            "move", "done", "dead"}
         /\ CommandsOf(t) \subseteq Commands /\ task[t].round \in {1, 2} /\ task[t].place \in 1..(Len(pluginScope.places) + 1)

\* No consent is lost and none comes back: the file is what the grants and the
\* revocations of the processes make of it, in the order they ended, whatever
\* overlaps and whoever dies (_store_lock, save_consent_store).  One that cannot read
\* the file loses every other consent, and only that one does (_read_store).
StoreIsWill == consent = willed

\* Code that was run was the user's choice: the plugin had a consent, of its version and
\* for its place, at some moment since the process looked at the disk, and it was no
\* second plugin of that id.  Only a plain plugin that was replaced meanwhile may run
\* under the consent of the one before (attach_plugins twice, build_plugin_registry).
RanAsAllowed ==
    \A t \in Tasks : \A e \in ran[t] :
        /\ \/ \E s \in allowed[t] : Consented(s, e.bundle, e.place)
           \/ moved[t] /\ e.bundle.licence # "sealed"
        /\ \A f \in ran[t] : e.bundle.id = f.bundle.id /\ ~moved[t] => e.place = f.place

\* A feature that names the plugin it expects is answered by that plugin, although the
\* plugins are attached a second time after the comparison, unless one fails whose commands
\* were registered (attach_plugins leaves them), then or before, or the disk changes
\* (invoke_plugin_feature).
ExpectedAnswers ==
    \A t \in Tasks :
        (/\ Job(t).kind = "feature" /\ Job(t).expected # "" /\ ~moved[t] /\ ~faltered[t]
         /\ task[t].at = "done" /\ task[t].answer \notin {"none", "refused"})
        => task[t].answer = Job(t).expected

\* When nobody installs any more, a place is empty or holds a whole plugin, of two
\* installations that overlapped as well, unless one died or its removal failed.
PlacesWhole ==
    (\A t \in Tasks : Job(t).kind = "install" => task[t].at = "done" /\ task[t].answer # "error")
        => \A k \in Places : disk[k].whole

\* Processes that overlap keep to what the user decided, and leave whole plugins.
PluginsKept == StoreIsWill /\ RanAsAllowed /\ ExpectedAnswers /\ PlacesWhole
=============================================================================
