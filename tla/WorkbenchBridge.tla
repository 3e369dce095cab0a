-------------------------- MODULE WorkbenchBridge --------------------------
(***************************************************************************)
(* The managed bridge package in the Workbench profile (workbench.rs): its *)
(* script files, the manifest that names its version, and the flat package *)
(* of earlier releases.  Every server and setup process of the user        *)
(* maintains the same directory.  A process runs one call at a time        *)
(* (maintenance_lock); nothing orders the calls of two processes, and each *)
(* carries the package of its own version.  A file is written by emptying  *)
(* and refilling it, so a reader, or a crash, may find it torn.            *)
(***************************************************************************)
EXTENDS Naturals

CONSTANTS
    ScriptNames,
    Versions,           \* numbers; a version that is no semver counts as newest
    Payload,            \* the names that the package of each version holds
    Installers,         \* the processes
    NoFile,             \* no file, no manifest
    Torn,               \* a file of other content, a manifest nobody can read
    MaxInstalls,        \* bound on the calls
    MaxDamages          \* bound on crashes, failed writes and changes by the user

VARIABLES
    bridge,             \* bridge_directory: its files and its manifest
    legacy,             \* legacy_bridge_directory
    release,            \* each process: WORKBENCH_BRIDGE_VERSION
    installing,         \* each process: its call
    used                \* the bounds used up

bridgeVars == <<bridge, legacy, release, installing, used>>

Manifest(version) == [version |-> version, files |-> Payload[version]]
Package(version) ==
    [files |-> [name \in ScriptNames |-> IF name \in Payload[version] THEN version ELSE NoFile],
     manifest |-> Manifest(version)]
NoPackage == [files |-> [name \in ScriptNames |-> NoFile], manifest |-> NoFile]

Manifests == {Manifest(version) : version \in Versions}

ASSUME PackagesHaveFiles ==
    Versions \subseteq Nat \ {0} /\ Payload \in [Versions -> (SUBSET ScriptNames) \ {{}}]
ASSUME NoFileIsTorn ==
    /\ NoFile # Torn
    /\ \A nothing \in {NoFile, Torn} : nothing \notin Versions /\ nothing \notin Manifests
ASSUME InstallsAreBounded == MaxInstalls \in Nat /\ MaxDamages \in Nat

Legible(manifest) == manifest \notin {NoFile, Torn}

\* The version a manifest names: below all others when it cannot be read.
Named(manifest) == IF Legible(manifest) THEN manifest.version ELSE 0

\* The files a manifest lists.
ListedFiles(manifest) == IF Legible(manifest) THEN manifest.files ELSE {}

\* "found" and "owned" are history: the version and the files of the manifest
\* that the call met; "alone": nobody else has worked since it began.
Resting == [step |-> "idle", allow |-> FALSE, todo |-> {}, target |-> NoFile,
            found |-> 0, owned |-> {}, alone |-> FALSE]
Maintains(p) == installing[p].step # "idle"

\* Files are worked on one after the other, in the order of the package.
First(names) == {CHOOSE name \in names : TRUE : n \in names}

Proceed(p, step) == installing' = [installing EXCEPT ![p].step = step]

----------------------------------------------------------------------------
(* prepare_bridge_locked.  The first installation is allowed to bootstrap, *)
(* maintenance and the approved installer, not to the installer of MCP.    *)

BeginInstall(p) ==
    /\ ~Maintains(p) /\ used.calls < MaxInstalls
    /\ \E allow \in BOOLEAN :
          installing' = [q \in Installers |->
            IF q = p
            THEN [Resting EXCEPT !.step = "read", !.allow = allow,
                    !.found = Named(bridge.manifest),
                    !.owned = ListedFiles(bridge.manifest),
                    !.alone = \A o \in Installers \ {p} : ~Maintains(o)]
            ELSE [installing[q] EXCEPT !.alone = FALSE]]
    /\ used' = [used EXCEPT !.calls = @ + 1]
    /\ UNCHANGED <<bridge, legacy, release>>

\* Without a manifest and without consent for a first one the call is refused.
Owned(p, manifest) ==
    IF Legible(manifest) \/ installing[p].allow THEN "decide" ELSE "refused"

\* manifest_matches_payload: the names and digests are those of the own payload;
\* the sources of two versions differ, so this is the own version's manifest.
MatchesPayload(manifest, version) == manifest = Manifest(version)

\* The flat package is moved only if its manifest is that of the own payload.
Migrates(p) == MatchesPayload(legacy.manifest, release[p])

ReadManifest(p) ==
    /\ installing[p].step = "read"
    /\ IF ~Legible(bridge.manifest) /\ Migrates(p)
       THEN installing' = [installing EXCEPT ![p].step = "look",
                                             ![p].todo = legacy.manifest.files]
       ELSE Proceed(p, Owned(p, bridge.manifest))
    /\ UNCHANGED <<bridge, legacy, release, used>>

\* migrate_legacy_bridge: a file that is already there ends the migration.
Look(p) ==
    /\ installing[p].step = "look"
    /\ \E name \in First(installing[p].todo) :
          installing' = [installing EXCEPT
            ![p].step = IF bridge.files[name] = NoFile THEN "move" ELSE Owned(p, NoFile),
            ![p].target = name]
    /\ UNCHANGED <<bridge, legacy, release, used>>

\* A rename, which fails when another process has moved the file.
Move(p) ==
    LET name == installing[p].target IN
    /\ installing[p].step = "move"
    /\ IF legacy.files[name] = NoFile
       THEN Proceed(p, Owned(p, NoFile)) /\ UNCHANGED <<bridge, legacy>>
       ELSE /\ bridge' = [bridge EXCEPT !.files[name] = legacy.files[name]]
            /\ legacy' = [legacy EXCEPT !.files[name] = NoFile]
            /\ installing' = [installing EXCEPT ![p].step = "look", ![p].todo = @ \ {name}]
    /\ UNCHANGED <<release, used>>

\* One process at most moves every file and gets so far.
MoveManifest(p) ==
    /\ installing[p].step = "look" /\ installing[p].todo = {}
    /\ Proceed(p, "moved")
    /\ bridge' = [bridge EXCEPT !.manifest = legacy.manifest]
    /\ legacy' = [legacy EXCEPT !.manifest = NoFile]
    /\ UNCHANGED <<release, used>>

\* Another process, or the user, may have been at the manifest meanwhile.
ReadMoved(p) ==
    /\ installing[p].step = "moved"
    /\ Proceed(p, Owned(p, bridge.manifest))
    /\ UNCHANGED <<bridge, legacy, release, used>>

\* Mutant: the files are not compared.
NeedsMaintenanceByManifest(version) ==
    Named(bridge.manifest) <= version /\ ~MatchesPayload(bridge.manifest, version)

\* bridge_needs_maintenance: a newer package is left alone, the own one is
\* compared file by file.
NeedsMaintenance(version) ==
    \/ Named(bridge.manifest) < version
    \/ /\ Named(bridge.manifest) = version
       /\ \/ ~MatchesPayload(bridge.manifest, version)
          \/ \E name \in Payload[version] : bridge.files[name] # version

Decide(p) ==
    /\ installing[p].step = "decide"
    /\ Proceed(p, IF NeedsMaintenance(release[p]) THEN "previous" ELSE "done")
    /\ UNCHANGED <<bridge, legacy, release, used>>

----------------------------------------------------------------------------
(* write_managed_payload.                                                  *)

\* What the manifest lists and the new package has not is removed at the end.
ReadPrevious(p) ==
    /\ installing[p].step = "previous"
    /\ installing' = [installing EXCEPT ![p].step = "write",
         ![p].todo = Payload[release[p]] \union ListedFiles(bridge.manifest)]
    /\ UNCHANGED <<bridge, legacy, release, used>>

Unwritten(p) == installing[p].todo \intersect Payload[release[p]]

EmptyFile(p) ==
    /\ installing[p].step = "write"
    /\ \E name \in First(Unwritten(p)) :
          /\ bridge' = [bridge EXCEPT !.files[name] = Torn]
          /\ installing' = [installing EXCEPT ![p].step = "fill", ![p].target = name]
    /\ UNCHANGED <<legacy, release, used>>

FillFile(p) ==
    /\ installing[p].step = "fill"
    /\ bridge' = [bridge EXCEPT !.files[installing[p].target] = release[p]]
    /\ installing' = [installing EXCEPT ![p].step = "write",
                                        ![p].todo = @ \ {installing[p].target}]
    /\ UNCHANGED <<legacy, release, used>>

RemoveObsolete(p) ==
    /\ installing[p].step = "write" /\ Unwritten(p) = {}
    /\ \E name \in First(installing[p].todo) :
          /\ bridge' = [bridge EXCEPT !.files[name] = NoFile]
          /\ installing' = [installing EXCEPT ![p].todo = @ \ {name}]
    /\ UNCHANGED <<legacy, release, used>>

EmptyManifest(p) ==
    /\ installing[p].step = "write" /\ installing[p].todo = {}
    /\ bridge' = [bridge EXCEPT !.manifest = Torn]
    /\ Proceed(p, "manifest")
    /\ UNCHANGED <<legacy, release, used>>

FillManifest(p) ==
    /\ installing[p].step = "manifest"
    /\ bridge' = [bridge EXCEPT !.manifest = Manifest(release[p])]
    /\ Proceed(p, "done")
    /\ UNCHANGED <<legacy, release, used>>

EndInstall(p) ==
    /\ installing[p].step \in {"done", "refused"}
    /\ installing' = [installing EXCEPT ![p] = Resting]
    /\ UNCHANGED <<bridge, legacy, release, used>>

----------------------------------------------------------------------------
(* Faults: the process ends or a write fails; the user edits or deletes    *)
(* something in the directory.                                             *)

Interrupt(p) ==
    /\ Maintains(p) /\ used.faults < MaxDamages
    /\ installing' = [installing EXCEPT ![p] = Resting]
    /\ used' = [used EXCEPT !.faults = @ + 1]
    /\ UNCHANGED <<bridge, legacy, release>>

ChangeDirectory ==
    /\ used.faults < MaxDamages
    /\ \/ \E name \in ScriptNames, content \in {NoFile, Torn} :
             bridge' = [bridge EXCEPT !.files[name] = content]
       \/ \E manifest \in {NoFile, Torn} : bridge' = [bridge EXCEPT !.manifest = manifest]
    /\ installing' = [p \in Installers |-> [installing[p] EXCEPT !.alone = FALSE]]
    /\ used' = [used EXCEPT !.faults = @ + 1]
    /\ UNCHANGED <<legacy, release>>

\* At most one package is there to begin with, of any version in the profile's
\* module directory, or the flat one.
BridgeInit ==
    /\ \/ bridge \in {Package(version) : version \in Versions} /\ legacy = NoPackage
       \/ /\ bridge = NoPackage
          /\ legacy \in {Package(version) : version \in Versions} \union {NoPackage}
    /\ release \in [Installers -> Versions]
    /\ installing = [p \in Installers |-> Resting]
    /\ used = [calls |-> 0, faults |-> 0]

InstallStep(p) ==
    \/ BeginInstall(p) \/ ReadManifest(p) \/ Look(p) \/ Move(p) \/ MoveManifest(p)
    \/ ReadMoved(p) \/ Decide(p)
    \/ ReadPrevious(p) \/ EmptyFile(p) \/ FillFile(p) \/ RemoveObsolete(p)
    \/ EmptyManifest(p) \/ FillManifest(p) \/ EndInstall(p) \/ Interrupt(p)

BridgeNext == ChangeDirectory \/ \E p \in Installers : InstallStep(p)

BridgeSpec == BridgeInit /\ [][BridgeNext]_bridgeVars

----------------------------------------------------------------------------
BridgeDirectories ==
    [files : [ScriptNames -> Versions \union {NoFile, Torn}],
     manifest : Manifests \union {NoFile, Torn}]
Installs ==
    [step : {"idle", "read", "look", "move", "moved", "decide", "previous", "write", "fill",
             "manifest", "done", "refused"},
     allow : BOOLEAN, todo : SUBSET ScriptNames, target : ScriptNames \union {NoFile}, found : Nat,
     owned : SUBSET ScriptNames, alone : BOOLEAN]

\* The shape of both directories and of the calls.
BridgeTypeOK ==
    /\ bridge \in BridgeDirectories /\ legacy \in BridgeDirectories
    /\ release \in [Installers -> Versions]
    /\ installing \in [Installers -> Installs]
    /\ used \in [calls : 0..MaxInstalls, faults : 0..MaxDamages]

\* The package a call of this version may leave behind: its own, complete, or a
\* newer one.
Installed(version) ==
    \/ Named(bridge.manifest) > version
    \/ bridge.manifest = Manifest(version)
       /\ \A name \in Payload[version] : bridge.files[name] = version

\* A call that nobody disturbs ends with a complete package of its version or
\* with the newer one it met, whatever a crash, the user or a broken migration
\* left; it never downgrades, and of the package it replaces nothing stays.
CallsRepair ==
    \A p \in Installers : installing[p].step = "done" /\ installing[p].alone =>
        /\ Installed(release[p])
        /\ Named(bridge.manifest) >= installing[p].found
        /\ \A name \in installing[p].owned \ bridge.manifest.files :
              bridge.files[name] = NoFile

\* Processes of one version that work at the same time and are not interrupted
\* leave a complete package behind, also when they meet in a migration.
CallsAgree ==
    /\ used.faults = 0
    /\ \A p, q \in Installers : release[p] = release[q]
    /\ \A p \in Installers : installing[p].step \in {"idle", "done", "refused"}
    => \A p \in Installers : installing[p].step = "done" => Installed(release[p])

(***************************************************************************)
(* Both: calls recover what crashes, users and other calls leave behind.   *)
(***************************************************************************)
BridgeRecovers == CallsRepair /\ CallsAgree
=============================================================================
