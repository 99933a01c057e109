---------------------------- MODULE AgentDestinations ----------------------------
(***************************************************************************)
(* Folders the user delegates to agents for exports                        *)
(* (src-tauri/src/agent_destinations.rs and metadata/agent_destinations.rs *)
(* under it).  A command of the user's inspects the folder and then writes *)
(* the record; an export looks at both once when it is proposed and again  *)
(* when it starts (agent_exports.rs).  Other programs move folders at any  *)
(* time, and grants and the active project change beside a command.        *)
(*                                                                         *)
(* The user's commands run on the main thread, one at a time.              *)
(***************************************************************************)
EXTENDS Naturals, FiniteSets

CONSTANTS
    Owners,         \* pairs of a client and a project
    Projects,
    Places,         \* paths
    Dirs,           \* directory identities
    Destinations,   \* destination ids, fresh for every creation
    Proposals,      \* exports of agents
    Nothing,        \* no directory, no record
    OwnerLimit,     \* MAX_DESTINATIONS_PER_CLIENT_PROJECT
    CommandLimit, UpsetLimit    \* bounds

VARIABLES
    activeProject,
    granted,        \* owners: paired clients with Analyze for the project
    tree,           \* the directory at each path
    obstacle,       \* why a path cannot be delegated: Nothing, or one of Obstacles
    delegated,      \* the records
    desk,           \* the user's command: [at, op, id, owner, place, dir]
    proposal,       \* of each export: [at, id, owner, record, first]
    startedIn,      \* what was at the path when an export that started looked last (history)
    picked,         \* the directory the user picked last for each destination (history)
    commands, upsets

destinationVars ==
    <<activeProject, granted, tree, obstacle, delegated, desk, proposal, startedIn, picked, commands, upsets>>

ProjectOf(owner) == owner[2]
Exists(d) == delegated[d] # Nothing
Of(d, owner) == Exists(d) /\ delegated[d].owner = owner
OwnedBy(owner) == {d \in Destinations : Of(d, owner)}
NoCommand == [at |-> "idle", op |-> "none", id |-> Nothing, owner |-> Nothing, place |-> Nothing, dir |-> Nothing]
NoProposal == [at |-> "none", id |-> Nothing, owner |-> Nothing, record |-> Nothing, first |-> Nothing]

DestinationInit ==
    /\ activeProject \in Projects /\ granted \in {{o} : o \in Owners}
    /\ tree \in [Places -> Dirs] /\ \A p, q \in Places : tree[p] = tree[q] => p = q
    /\ obstacle = [p \in Places |-> Nothing] /\ delegated = [d \in Destinations |-> Nothing]
    /\ desk = NoCommand /\ proposal = [x \in Proposals |-> NoProposal]
    /\ startedIn = [x \in Proposals |-> Nothing] /\ picked = [d \in Destinations |-> Nothing]
    /\ commands = 0 /\ upsets = 0

--------------------------------------------------------------------------------
(* The user's commands.                                                    *)

\* require_direct_owner
Direct(owner) == ProjectOf(owner) = activeProject /\ owner \in granted

\* A link on the way to it, or another user's; a network disk; Tarik's own data, or a
\* project's.
Obstacles == {"substituted", "remote", "protected"}
Substituted(place) == obstacle[place] = "substituted"
Remote(place) == obstacle[place] = "remote"
Protected(place) == obstacle[place] = "protected"
DirectoryIdentity(place) == tree[place]
\* inspect_selected_directory
Inspected(place) ==
    IF Substituted(place) \/ Remote(place) \/ Protected(place) THEN Nothing ELSE DirectoryIdentity(place)
\* revalidate_record
AnyFolder(record) == Inspected(record.place) # Nothing     \* mutant: identity not compared
StillThere(record) == Inspected(record.place) = record.dir

Unused(d) == ~Exists(d) /\ picked[d] = Nothing

\* create and repair look at the folder first; what enabling and repair find of the
\* record they find at once.
Begin(op, d, owner, place) ==
    /\ desk.at = "idle" /\ commands < CommandLimit /\ commands' = commands + 1
    /\ Direct(owner)
    /\ IF op = "create" THEN Unused(d) ELSE Of(d, owner)
    /\ desk' = [at |-> IF op \in {"create", "repair", "enable"} THEN "inspect" ELSE "store",
                op |-> op, id |-> d, owner |-> owner, dir |-> Nothing,
                place |-> IF op = "enable" THEN delegated[d].place ELSE place]
    /\ UNCHANGED <<activeProject, granted, tree, obstacle, delegated, proposal, startedIn, picked, upsets>>

\* The folder is looked at; a repair must pick another than it has.
Inspect ==
    LET dir == Inspected(desk.place) IN
    /\ desk.at = "inspect"
    /\ \/ /\ dir # Nothing
          /\ (desk.op = "repair" /\ Exists(desk.id)) =>
                <<delegated[desk.id].place, delegated[desk.id].dir>> # <<desk.place, dir>>
          /\ (desk.op = "enable" /\ Exists(desk.id)) => StillThere(delegated[desk.id])
          /\ desk' = [desk EXCEPT !.at = "store", !.dir = dir]
       \/ desk' = NoCommand        \* it is not, or the metadata cannot be read
    /\ UNCHANGED <<activeProject, granted, tree, obstacle, delegated, proposal, startedIn, picked, commands, upsets>>

Bumped(record) == [record EXCEPT !.revision = @ + 1]
\* One transaction, which looks again at whose the record is; `create` also at the grant
\* and the limit.
StoredRecord ==
    LET record == delegated[desk.id] IN
    CASE desk.op = "create" -> [owner |-> desk.owner, place |-> desk.place, dir |-> desk.dir, enabled |-> TRUE, revision |-> 1]
      [] desk.op = "update" -> Bumped(record)
      [] desk.op = "enable" -> Bumped([record EXCEPT !.enabled = TRUE])
      [] desk.op = "disable" -> Bumped([record EXCEPT !.enabled = FALSE])
      [] desk.op = "repair" -> Bumped([record EXCEPT !.place = desk.place, !.dir = desk.dir, !.enabled = TRUE])
      [] desk.op = "revoke" -> Nothing
MayCreate == desk.owner \in granted /\ Cardinality(OwnedBy(desk.owner)) < OwnerLimit
Store ==
    /\ desk.at = "store"
    /\ IF (IF desk.op = "create" THEN MayCreate ELSE Of(desk.id, desk.owner))
       THEN /\ delegated' = [delegated EXCEPT ![desk.id] = StoredRecord]
            /\ picked' = (IF desk.op \in {"create", "repair"} THEN [picked EXCEPT ![desk.id] = desk.dir] ELSE picked)
            /\ desk' = (IF desk.op = "create" THEN NoCommand ELSE [desk EXCEPT !.at = "invalidate"])
       ELSE desk' = NoCommand /\ UNCHANGED <<delegated, picked>>
    /\ UNCHANGED <<activeProject, granted, tree, obstacle, proposal, startedIn, commands, upsets>>
\* The database refuses.
StoreFails ==
    /\ desk.at = "store" /\ desk' = NoCommand
    /\ UNCHANGED <<activeProject, granted, tree, obstacle, delegated, proposal, startedIn, picked, commands, upsets>>

\* invalidate_destination: exports that wait for their approval, and those that run, are over.
Invalidate ==
    /\ desk.at = "invalidate" /\ desk' = NoCommand
    /\ proposal' = [x \in Proposals |->
           IF proposal[x].id = desk.id /\ proposal[x].at \in {"proposed", "started"}
           THEN [proposal[x] EXCEPT !.at = "over"] ELSE proposal[x]]
    /\ UNCHANGED <<activeProject, granted, tree, obstacle, delegated, startedIn, picked, commands, upsets>>

--------------------------------------------------------------------------------
(* Exports of agents.                                                      *)

\* resolve_for_export finds the record ...
Found(x, next, d, owner) ==
    /\ proposal' = [proposal EXCEPT ![x] =
           IF Of(d, owner) /\ delegated[d].enabled
           THEN [@ EXCEPT !.at = next, !.id = d, !.owner = owner, !.record = delegated[d]]
           ELSE [@ EXCEPT !.at = "over"]]
Propose(x, d, owner) ==
    /\ proposal[x].at = "none" /\ owner \in granted /\ Exists(d)
    /\ Found(x, "looking", d, owner)
    /\ UNCHANGED <<activeProject, granted, tree, obstacle, delegated, desk, startedIn, picked, commands, upsets>>
\* ... and looks at the folder: the export is proposed for the record at this revision.
Look(x) ==
    /\ proposal[x].at = "looking"
    /\ proposal' = [proposal EXCEPT ![x] =
           IF StillThere(proposal[x].record)
           THEN [proposal[x] EXCEPT !.at = "proposed", !.first = proposal[x].record]
           ELSE [proposal[x] EXCEPT !.at = "over"]]
    /\ UNCHANGED <<activeProject, granted, tree, obstacle, delegated, desk, startedIn, picked, commands, upsets>>

\* start_locked: the authority and the record are looked at again ...
Start(x) ==
    /\ proposal[x].at = "proposed"
    /\ IF proposal[x].owner \in granted /\ ProjectOf(proposal[x].owner) = activeProject
       THEN Found(x, "lookingAgain", proposal[x].id, proposal[x].owner)
       ELSE proposal' = [proposal EXCEPT ![x].at = "over"]
    /\ UNCHANGED <<activeProject, granted, tree, obstacle, delegated, desk, startedIn, picked, commands, upsets>>
\* ... so is the folder, and the revision must be the one it was proposed for.
Confirm(x) ==
    LET now == proposal[x].record IN
    /\ proposal[x].at = "lookingAgain"
    /\ IF StillThere(now) /\ now.revision = proposal[x].first.revision
       THEN /\ proposal' = [proposal EXCEPT ![x].at = "started"]
            /\ startedIn' = [startedIn EXCEPT ![x] = <<DirectoryIdentity(now.place), obstacle[now.place]>>]
       ELSE proposal' = [proposal EXCEPT ![x].at = "over"] /\ UNCHANGED startedIn
    /\ UNCHANGED <<activeProject, granted, tree, obstacle, delegated, desk, picked, commands, upsets>>

--------------------------------------------------------------------------------
(* What else happens.                                                      *)

Happens == upsets < UpsetLimit /\ upsets' = upsets + 1

\* Another program moves a folder away, with or without another in its place.
Move(place, dir) ==
    /\ Happens /\ tree[place] # dir /\ \A p \in Places : dir # Nothing => tree[p] # dir
    /\ tree' = [tree EXCEPT ![place] = dir]
    /\ UNCHANGED <<activeProject, granted, obstacle, delegated, desk, proposal, startedIn, picked, commands>>
\* A link is put in the way, a disk is mounted, or a project is created there; or it is gone.
Spoil(place, what) ==
    /\ Happens /\ obstacle[place] # what /\ obstacle' = [obstacle EXCEPT ![place] = what]
    /\ UNCHANGED <<activeProject, granted, tree, delegated, desk, proposal, startedIn, picked, commands>>
OpenProject(p) ==
    /\ Happens /\ p # activeProject /\ activeProject' = p
    /\ UNCHANGED <<granted, tree, obstacle, delegated, desk, proposal, startedIn, picked, commands>>
Grant(owner) ==
    /\ Happens /\ owner \notin granted /\ granted' = granted \cup {owner}
    /\ UNCHANGED <<activeProject, tree, obstacle, delegated, desk, proposal, startedIn, picked, commands>>
\* Without Analyze, or without the client, its destinations go in the same transaction.
Withdraw(owner) ==
    /\ Happens /\ owner \in granted /\ granted' = granted \ {owner}
    /\ delegated' = [d \in Destinations |-> IF Of(d, owner) THEN Nothing ELSE delegated[d]]
    /\ UNCHANGED <<activeProject, tree, obstacle, desk, proposal, startedIn, picked, commands>>

DestinationNext ==
    \/ \E op \in {"create", "update", "enable", "disable", "repair", "revoke"}, d \in Destinations, owner \in Owners :
          \E place \in (IF op \in {"create", "repair"} THEN Places ELSE {Nothing}) : Begin(op, d, owner, place)
    \/ Inspect \/ Store \/ StoreFails \/ Invalidate
    \/ \E x \in Proposals :
          \/ \E d \in Destinations, owner \in Owners : Propose(x, d, owner)
          \/ Look(x) \/ Start(x) \/ Confirm(x)
    \/ \E place \in Places :
          \/ \E what \in Obstacles \cup {Nothing} : Spoil(place, what)
          \/ \E dir \in Dirs \cup {Nothing} : Move(place, dir)
    \/ \E p \in Projects : OpenProject(p)
    \/ \E owner \in Owners : Grant(owner) \/ Withdraw(owner)

DestinationSpec == DestinationInit /\ [][DestinationNext]_destinationVars

--------------------------------------------------------------------------------
(* The property.                                                           *)

\* A delegation is its owner's, who has Analyze and no more of them than the limit, and
\* of the directory the user picked last; and an export starts only in the very directory
\* it was proposed for, which the user had picked and which was there and fit when the
\* export looked last, whatever was moved, repaired or withdrawn in between.
StartsWherePicked ==
    /\ \A d \in Destinations : Exists(d) =>
          delegated[d].owner \in granted /\ delegated[d].dir = picked[d]
    /\ \A owner \in Owners : Cardinality(OwnedBy(owner)) <= OwnerLimit
    /\ \A x \in Proposals : startedIn[x] # Nothing =>
          LET first == proposal[x].first  now == proposal[x].record IN
          /\ now.place = first.place /\ now.dir = first.dir /\ startedIn[x] = <<first.dir, Nothing>>
          /\ now.owner = proposal[x].owner /\ now.enabled
================================================================================
